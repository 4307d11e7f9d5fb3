# rekuest: a TLA+ model of the agent

rekuest connects a Python app to an Arkitekt server. Its *agent* keeps one websocket to
the server, receives the assignments of the app's functions, reports what becomes of
them, and calls other agents' functions. The runtime that executes the functions is
another package; this repository holds what is specific to a networked agent: the
socket, what survives its drops and the process's death, and the calls that go over it.

This directory specifies that part in TLA+, checks it with TLC on small instances, and
proves with TLAPS the safety of the delivery of reports, of the transport, of the
persisted states, of the calls an actor makes and of those a client makes over GraphQL, of
the workflows that are resumed after a crash, and of what the agent does about each
registration.

## The system

| component | source | state | operations |
|---|---|---|---|
| delivery of numbered frames | `agents/agent.py`, `agents/retention.py`, the queues of `agents/transport/websocket.py` | `_retained`, the tables `journal` and `journal_sync`, `_send_queue`, `_held`, `_in_queue`, `_released` | start, record, resend, handle `Init`, handle `JournalAck`, send, requeue, drop, crash |
| transport life cycle | `agents/transport/websocket.py`, `transport/errors.py` | `_client`, `_connection_task`, `_closing`, the retry budget, `_drop_times`, the queues | `aconnect`, the reconnect loop, `sending`, `areceive`, `aflush`, `adisconnect` |
| persisted states | `agents/agent.py`, `agents/persisted_state.py` | `_dirty_states`, `_state_flush_stop`, the table `last_state`, one flusher per periodic state | open, note a change, flush in a thread, close |
| calls over the socket | `agents/caller.py` (`AgentPostman`) | `_pending_responses`, `_task_queues`, `_orphan_by_task`, the generators | `aassign`, `aprobe`, `astate_revision`, `handle_response`, `handle_execution_event`, cancel, interrupt |
| resume | `agents/agent.py` (`_complete_resume`), `agents/caller.py` (`_derive_call_key`) | reads `_retained`; `_occurrences` | completes a resumed task's journal with what the dead process never sent; steps and keys of a workflow's calls |
| inquiries, duplicate assignments | `agents/agent.py` | reads `_retained` and the runtime's task table | answers an `Init`'s inquiries, resends a finished task's report |
| what follows a registration | `agents/agent.py`, `arkitekt.py` | `_after_registration_task` | started by an `Init`, tried again after a failure, cancelled by `atear_down` |
| GraphQL postman | `client/postman.py` | `_ass_update_queues`, `_task_to_reference`, `_orphan_events_by_task`, `_routed_event_ids`, `_watching`, `_feed_live`, the generators | `aassign`, `watch_tasks`, the catch-up reads, cancel, interrupt |
| client and calls | `client/client.py`, `client/graphql.py` | whether a call runs inside a task | thin wrappers |
| upload | `client/upload/*`, `datalayer.py` | the upload under way; what the server and the datalayer hold | ask, check, get a grant, put, record, one asset after the other |
| control plane, backend | `agents/control.py`, `agents/backend.py` | three fields set by `Init` | read back |
| configuration, scalars, traits, generated schemas | `arkitekt.py`, `client/rath.py`, `scalars.py`, `traits/`, `api/`, `protocol/` | none | construction and validation |

They interact through the socket and through memory: whoever emits a report calls
`_retain_emitted` and then `asend`, which puts the frame into the transport's queue; the
transport's receive loop puts what arrives into `_in_queue`, from which the agent's loop
takes it, handles `Init` and `JournalAck` itself, and hands responses and mirrored events
to the postman; a state patch that is retained also marks its state for the flusher.

### What is hard

* A frame is numbered, kept in memory, saved, queued, taken by the sending task, inside
  `client.send`, written, read by the server, acknowledged, forgotten in memory and
  forgotten on disk. The socket may drop and the process may die between any two of
  these, and the file may refuse any of its writes.
* The sending task is cancelled by the receive loop while it is inside `client.send`.
  The frame is requeued, although the server may have read it.
* `_in_queue` outlives a connection: an `Init` or an ack may be handled after the
  reconnect.
* The reconnect loop, the receiver of `areceive()` and a caller of `adisconnect()` share
  a queue, a flag and a task, and only awaits separate their steps.
* A flusher clears a state's mark and writes in a thread, while the state changes, the
  agent closes, or both.
* A child's events may outrun the answer that names the child; a child found again is
  replayed while it runs; the consumer may be cancelled at every await.
* A workflow's code is run again by each process after a crash: values, steps and calls of
  the dead ones must be found again, partly in frames the server has not seen.
* An `Init` asks about tasks at a moment that is over when the agent answers: a task may
  have ended, its report may be on its way, or its process dead.
* An upload follows a registration, outlives the connection it was accepted on, and is cut
  off by failures, crashes and tear-downs while the server may still serve its request.
* Nothing acknowledges the GraphQL subscription: a call's events may be on it, only in
  the task's history, or in both, and the subscription may end at any time.

`PROJECT.json` lists each of these at its line, with the properties about it.

## The modules

### ReportLog

What the agent promises about its reports, with three variables: the server's log of a
session fills in the order of its numbers, with nothing skipped; an earlier session comes
before a later one while the clock does not step back; a report is given up only where
the agent's own store failed.

### AgentDelivery

One process after the other of one agent, its SQLite file, the transport's queues, the
socket and the server. A numbered frame is its key `<<session, pos>>`; every un-numbered
frame is `Plain`.

| action | code |
|---|---|
| `Start` | `astart`, `_open_store`, `RetainedFrames.load`, `open_session` |
| `Record` | `_retain_emitted` followed by `asend` |
| `SendPlain` | `asend` of a heartbeat answer, a probe's report, a request |
| `ResendReport` | `_aresend_retained_report` |
| `Connect`, `Drop` | the top and the `finally` of `_aconnect_and_receive` |
| `SendHeld`, `SendQueued`, `Sent`, `SendFails` | `sending`: take a frame, return from `client.send`, or fail in it |
| `HandleInit` | `_aafter_init`: `discard_journaled`, `_aresend_retained`, `release` |
| `HandleAck` | `_journal_ack`, `RetainedFrames.ack`, `prune` |
| `Crash` | the process dies (a clean teardown is some sends, and then this) |
| `ServerInit`, `ServerReceive`, `ServerAck` | the server, as far as the agent depends on it: it logs a frame beyond the session's last position and skips any other, and acknowledges cumulatively, as often as it likes |

Two delays are kept apart that a test seldom separates. A frame leaves `sendQueue` and is
on `wire` at once, but `inFlight` says that `client.send` has not returned; a `Drop` in
between empties the wire *or not*, because `ServerReceive` may have come first, and
requeues the frame in both cases. And `inQueue` is emptied by a crash but not by a drop.

`HandleInit` is one step because nothing in it waits: the queue is unbounded, so its
`put` never suspends the agent's loop.

### WebsocketTransport

The transport alone: the connection task (`phase` says at which await it is), its retry
budget (`retry`), its memory of drops, what the host was last told of the link (`told`), the
sending task with the queue's count of unfinished items, the receiver, and `adisconnect`.
`aconnect` tells the host nothing, so `told` keeps its value over it; the history variable
`dated` says that this is about a link before this run's, or before a clean close.
Frames are only `"pos"` or `"plain"`, which is what `discard_journaled` looks at.
`Fail`, `Correct` and `Finally` are the shared parts of the failure paths; one action
stands for each exception that `_aconnect_and_receive` tells apart. Time is not
modelled: whether a link stood up for `reset_after` is a choice (`stood`), and the drops
leave the flap window one by one (`DropsAge`). `discard_journaled` counts every frame as
done before it puts the kept ones back, so a `join()` that waits meanwhile may return with
frames in the queue: `FlushOvertaken` lets `adisconnect` go on then.

### PersistedStates

The last value of each state with `persist=`. A value is the number of the change that
made it, so "older" has a meaning over restarts. A `"synchronous"` state is written on
the event loop with its change (`Note`), any other by its flusher: `Wake` takes the value
and hands it to a thread, `Written` is the thread's write and the flusher's next look at
`stop`.

### AgentPostman

The generator of each call (`pc` is the await it is at), the postman's tables, both
directions of the socket, and the server's children. An event is its sequence number;
its kind matters only where it is the last. `earlier` are the calls whose child a dead
process of the agent had started already: the server finds the child again and replays
its events. The socket stays up in this module.

### GraphQLPostman

The generator of each call, the postman's tables, the shared change feed, the reads of a
task's history, and the server. An event is its number in the history. A read is in
progress in three places (`asked`: the call's first read, its repeated read, and the one
`watch_tasks` makes when the feed comes alive), and when it is back it holds as many
events as there were at some time since it was asked for; `CatchUp` then merges it with
what waits on the queue, without an await in between. `Init` has the feed off, opening,
or subscribed, as the calls before may have left it. `Elsewhere` are tasks of another
client of the same user: their changes come on the same feed and show that it is
subscribed, but no call waits for them.

### DurableWorkflow and Resume

`DurableWorkflow` is what a workflow is promised whatever becomes of the processes that
run it: a value taken from outside is fixed once, each of its calls is one child, and it
ends once, with every value and every child on record.

`Resume` is how the agent keeps that promise. A workflow is a set of points (effects,
reports and calls), each run once the points it awaits are done and otherwise in any
order, so concurrent branches interleave. A process takes or replays an effect
(`TakeEffect`), reports (`Report`), reserves a step and then, in a step of its own,
derives the call's key and sends it (`ReserveStep`, `SendCall`: there is an await in
between), and ends (`End`, which forgets the occurrences, `TaskEnded`). A `Crash` leaves
only `journal`. `HandleAssign` is `_complete_resume` (`HeldEffects`, `Replay`,
`LastStep`), or, for a task whose end is retained, `_aresend_retained_report`.

What is assumed of the runtime and the server: the runtime reports a retained end before
it would run a task; the server builds an `Assign` and sends it in one step, behind the
acks before it, counts the steps of children into `last_step`, keeps the first value of an
effect, and answers a call whose key or step it knows with the child it has; and it has
read what the old connection carried, or never will, before it resumes. The file does not
fail here, and the connection lasts as long as its process: failures of either are
`AgentDelivery`'s.

### AssetUpload and Registration

`AssetUpload` is `aupload_assets`: for each asset with a path, ask whether the server holds
it, hash the file, get a grant, open the file again and put it, record it. `NextAsset` is
its loop; `GiveUp` is the warning of a refusal, a failed put or a file that is gone or
changed; `Breaks` is any other exception, which ends the upload. Several uploads may be under
way (`uploads`, each with the agent that started it). Where one is cut off while it awaits
its `CreateAsset`, that request is `adrift`: the server may serve it at once, at any later
time, the query of a retry behind it, or never (`ServedLate`).

`Registration` composes it with what else `_aafter_init` does. `Inquire`, `Check` and
`Answer` are `_areport_task_liveness` with the await of `acheck_task` in the middle, in
which a task may stop (`StopsWorking`) or be reported (`ReportsEnd`); `AllAnswered` starts
the follow-up, unless there is one; `FollowUpFails` clears it. `atear_down` is two steps, for
it awaits the follow-up it cancelled: `BeginTearDown` clears and cancels it, messages are
handled, and `TearDown` is the rest, up to where the agent is gone. An `Init` that is handled
in between starts an upload which nothing cancels, and which outlives its agent if the
program goes on (`overtaken` remembers it); `Crash` ends whatever is left.
Of the numbered frames only those that end a task are followed: `retained` survives a
crash, `line` does not.

External: the runtime's gate (`Adispatch`), which by `docs/journal.md` refuses what comes
after a task's terminal report, if this process ran the task; and the server, which
assigns a task once, inquires in an `Init` about the tasks it assigned and has no end of,
and takes what was on a connection before it counts it as gone.

### Proof modules

`AgentDelivery_proofs`, `WebsocketTransport_proofs`, `PersistedStates_proofs`,
`AgentPostman_proofs`, `GraphQLPostman_proofs`, `Resume_proofs` and `Registration_proofs`
hold the theorems. No module uses a RECURSIVE operator.

## The runs

| run | question | bounds |
|---|---|---|
| `delivery_safety` | what is given up is what the file failed to keep, the log has no hole, the invariant of the proofs holds, and the agent implements `ReportLog` | two sessions of two frames, one unhandled message (an `Init` or ack, maybe an earlier connection's), one un-numbered frame, one report sent again, one frame on the wire, a file that may fail |
| `delivery_eventually` | every frame is logged in the end | two sessions of two frames, two unhandled messages, fair |
| `transport_safety` | what the host believes is out of date only after a clean close or before the first connect of a new run; the budget bounds, clean closes apart; the receiver learns of the end of its own task; `join` counts; `adisconnect` returns with its task off and its receiver released | two calls of `aconnect`, one retry, two drops with a flap limit of two, queues of two, every failure and clean closes, fair |
| `transport_clean_close` | `LinkIsTold`, refuted by a clean close | one call of `aconnect` |
| `transport_refused` | `NetworkFailuresAreRetried`, refuted by a refused reconnect | two retries |
| `states_changes` | no change is forgotten, the file goes only forward, each change reaches it, closing ends | one synchronous and one periodic state, four changes, writes that fail, crashes, fair |
| `states_clean_exit` | `CleanExitKeepsLastValue`, refuted | one synchronous and two periodic states |
| `postman_calls` | streams are in order and whole, a call that is over leaves at most late events behind (and, cancelled before its answer, a queue), an abandoned child is cancelled, calls and cancellations end | a call and a question, of which `Init` says whether its child is found again, whether it escalates, and whether a live event may overtake the replay; two events each, fair |
| `graphql_calls` | streams are in order and whole, the loss of the feed is heard, nothing is left behind, calls end, cancellations end | one call of three events, escalating, whose reads may fail, one task elsewhere of one event, one change on the feed at a time, fair |
| `resume_runs` | values once, steps once, each call its child, nothing after an end; `DurableWorkflow` is implemented; each workflow ends | two workflows with one effect, three calls of one target (two of them equal and concurrent) and a report; three processes, of which two die anywhere; fair |
| `registration_inits` | one outcome per task, none left open, no two uploads record an asset unless an `Init` overtook a tear-down, each asset settled | two tasks, or two files with an asset in between that has only a source; two processes or agents, two unhandled messages, one mishap (an upload that fails as a whole, an asset refused, or a file that changes); fair |
| `registration_changed` | `ChangedIsNotUploaded`, refuted | as above |

**Why the bounds are enough.** Two sessions are needed for anything about a predecessor,
and two frames for an order within one; with two of each a frame has a predecessor of
both kinds, one frame can be held while another waits, and an ack can cover one and leave
one. Delivery's safety does not rest on these bounds: it is proved for all of them. In
the transport, the second `aconnect` is what can meet the leftovers of the first, and
one retry separates "spent at once" from "spent after a retry"; a queue of two holds a
frame that is kept and one that is discarded; its safety is proved for all bounds. Four changes of the states allow one before
a write, one during it, one after it and one after the restart. Two events of a child are
one that is replayed and one that ends it, and the two calls share one socket in each
direction; the safety of the calls is proved for any number of calls and of events. Three
events of a GraphQL call are one that only a read has, one that is read and fed, and one
that is newer than the read; calls of one postman share nothing but the feed and the state
it is in, which `Init` and the task elsewhere vary, and their safety, too, is proved for any
number of calls, events and changes. Three processes of a
workflow are needed for one that resumes what a resumed one left: two dead sessions'
frames, and steps of both, are then on the file; its safety and its refinement are proved
for any workflows and any number of processes. A second process of the registration has
the retained reports of the first, a drop of its own and a stale `Init`; one task is
enough for `OneOutcome`, the second makes an inquiry wait behind another's answer; two
files with another asset between them let one fail and one go, and one mishap leaves the
retry, or what goes on behind a refused asset, to show; cut-offs by a crash or a tear-down
come on top of it. Its safety does not rest on the bounds: it is proved.
Exploration stops at the bounds (no more sessions, frames, changes or
connects), and the agent may really be stopped for good, so no run checks for deadlock;
the liveness properties say what must not hang.

**Fairness.** Weak fairness stands for the event loop, which runs every ready task and
fires every timer (`SendHeld`, `HandleInit`, `Retry`, `FlushTimeout`, `Wake`, `Take`,
`Unconfirmed` and the like), for a supervisor that starts a dead process again, and for a
child task that ends. A server is fair to whoever is connected: `ServerInit` and
`ServerAck` are strongly fair, since drops disable them again and again. A dead sending
task means a dead socket, which the receive loop notices (`Drop /\ ~sender`). Nothing
makes a connection stay up: `EventuallyLogged` assumes `<>[]up`, and no recorded frame
needs anything else. `Registration` has weak fairness only, of the loop, the requests and
the server: `NoTaskLeftOpen` assumes `<>[]up` too, and no actor has to be done with its
task; `EveryAssetIsSettled` assumes `[]<>replying`, that the agent keeps registering, for
only an `Init` starts an upload again. `Resume` is fair to the code, the server and the
restart of a dead agent. In the transport nothing at all is assumed of the network or the
server, and in the persisted states nothing of the app. `CallsEnd`
assumes a server that answers and a child that ends; `CancellationEnds` holds because
every wait of a cancellation is bounded (`Unconfirmed`). In `GraphQLPostman` the same is
assumed of the server and the task, and nothing of the feed: it may never be subscribed,
and `CallsEnd` holds by the repeated reads. A read that fails is excused (`unread`).

## What is proved

For every number of sessions, positions and queued messages, any window, with and without
a failing store and a clock that steps back (`AgentDelivery_proofs`):

* `TypeCorrect`: the type invariant;
* `Inductive`: `IInv`, and from it `NothingIsLost`, `LogHasNoHoles` and
  `SessionsStayKnown` (a session's row is not pruned while a frame of it is kept);
* `Implements`: `AgentDelivery` implements `ReportLog`. `Record` maps to
  `Record(session)`, `ServerReceive` of a new frame to `Project`, `Start` and `Crash` to
  `Lose` where they give something up, and every other step to a stutter.

For every policy, server, number of `aconnect`s and of frames and messages
(`WebsocketTransport_proofs`): `TypesHold`, `JoinCounts`, `DropsAreAlwaysTold`,
`ChaseIsBounded` and `EndIsRead`.

For every set of states, every choice of the synchronous ones and any number of changes
(`PersistedStates_proofs`): `TypeCorrect`, `ChangesAreKept` and `DiskGoesForward`.

For every set of calls and of questions among them, and children of any length
(`AgentPostman_proofs`): `TypesHold`, and from `Inductive`, `StreamInOrderHolds`,
`AbandonedChildIsCancelledHolds`, and from `LateInductive`, `OnlyLateEventsStayHolds`.

For every set of calls and of tasks elsewhere, tasks of any number of events and a feed of
any length (`GraphQLPostman_proofs`): `TypesHold`, and from `Inductive`,
`StreamInOrderHolds`, `FeedLossIsHeardHolds` and `NothingLeftBehindHolds`.

For every set of workflows, each with finitely many calls, and any number of processes
(`Resume_proofs`):

* `TypesHold`: the type invariant;
* `Inductive`: `IInv`, and from it `OneValueHolds`, `StepsOnceHolds`,
  `CallsFindTheirOwnHolds` and `NothingAfterTheEndHolds`;
* `ImplementsDurableHolds`: `Resume` implements `DurableWorkflow`. `TakeEffect` of a new
  value maps to `Fix`, the server's reading of a call with a new key to `Create`, `End` to
  `End`, and every other step, a crash or a restart among them, to a stutter.

For every finite set of tasks, every registry of assets, any number of processes, messages
and mishaps (`Registration_proofs`): `OneOutcomeHolds`, by `OutcomeInductive`,
`TypesHold`, and from it, by `UploadInductive`, `RecordedForOneHolds`.

The assumptions are those the modules declare: the bounds are natural numbers, the
switches are Booleans, the kinds of calls are sets of calls, `Plain` and `NoFrame` are neither keys nor each other's frames,
the synchronous states are among the states, the tasks are finitely many, an app is a
set of tasks and a sequence of assets, and the points of the workflows each have a task and
points to await, are of one kind each, and only finitely many of them are calls.

**The invariant of the delivery.** That the log has no hole does not follow from the log:
it depends on everything in front of it. `LineInv` says that, once a connection is
released, what is neither logged nor given up is on the wire, held or queued
(`LineComplete`), and that what a frame must follow is logged or ahead of it, for a frame
on the wire, one held or inside `client.send`, and one in the queue (`WireInOrder`,
`HeldInOrder`, `QueueInOrder`). Before the release nothing is said of the queue, and
nothing needs to be: nothing is sent, and `HandleInit` rebuilds the line out of
`retained`. That this restores the invariant needs `RetentionInv` (`retained` holds all
that is owed, the earlier sessions' part also on disk) and that the resend order agrees
with the order of the log, which needs every kept frame's session to have its creation
time (`FramesHaveTheirSession`). `AckInv` says that no ack covers more than the log, so
`HandleAck` forgets nothing owed, and `SocketInv` that an unreleased connection has
nothing on the wire. A stale `Init` is harmless to all of this: it rebuilds and releases
the line just as a fresh one does.

**The invariants of the transport.** They are four, each about a few variables.
`CountInv`: no frame is held while one is inside `client.send`, so a requeue overwrites
none, and the count is that of the frames. `ToldInv` and `ChaseInv` rest on `Closes`: once
`adisconnect` has begun, the task is closing, so the return to the top of the loop that its
own close causes starts no connection; `ChaseInv` says that each attempt but the first has
cost a retry. `DropsAreTold` needs no more than `Closes` and that a cause of the end is there
only once the task is off. `EndInv`: while the task runs there are only messages in `_in_queue`, and
once it is done a receiver that still reads finds messages and then its end, with the
failure ahead of it if there was one.

**The invariant of the states.** `ThreadInv`: a state has at most one thread, whose
flusher waits for it; its value is no older than the file's and, if the state has
changed since, the state is marked again. `RunInv`: no flusher outlives its file, and no
value is older than the file's.

**The invariant of the calls.** It is about one call at a time, for calls share only the
socket; the proof has a lemma that a step of one call, and a message about it, leave what is
said of any other. `RequestInv`: a call's request, the server's debt, its answer on the way
and its answer here are one token, so once a call has its answer, no other comes that would
make a queue for its task again. What a stream will
yield is its *lane*: what the postman holds for the call (`queue`, or `orphans` until there
is a queue), then the socket. `OrderInv` says of the lane that whatever an event follows was
taken or is ahead of it (`Ordered`), and that what the server has mirrored was taken or is in
it (`Whole`); the first event that was not taken is then the next one, although the replay
of a child found again may repeat others, and Take skips those. Handing a message over, and
binding a task to its queue, move the border inside the lane and leave the lane as it is.
Without a replay each event is in the lane at most once (`OnceInv`), so when a stream ends
with the last event nothing of it is left behind, here or on the socket (`EndInv`): what
arrives later makes no queue and is not parked. Where a live event may overtake the replay,
only `IsInjective` is claimed of the stream. What a call leaves when it is
over is a second invariant, `LateInv`, beside the first. `MadeInv`: whatever is held or on
its way for a call is of an event its child has made; a stream that ended with the last has
taken them all (unless a live event overtook the replay), so what still arrives repeats them. `LeftInv`: a call that knew its task has put its queue away, and has had the one
answer that could make another. `FoundInv`: a child that was found again is not refused.

**The invariant of the GraphQL calls.** Here too what is *ahead* of a call is its queue and
then its parked events. `OnceInv` says that each routed event was taken or is ahead, once;
that is why `_acatch_up` may tell what the call took from what it did not by what was routed
and does not wait (`Handed`). Order is harder, for an event may come by three ways and the
feed may start or stop at any time. What an event follows may be taken, ahead of it, in the
first read, which is merged in front of all that waits (`First`), or in the read the feed
makes when it comes alive, behind which it holds all changes back (`Missed`); together these
are a call's `Sources`. `OrderInv` says that an event ahead has what it follows taken, in the
first read, or in front of it; that the same holds on the feed, with all of `Sources` for
"taken" (`FeedOrdered`); and that every event the server has is in `Sources` or on the feed
(`FeedWhole`). It says so only of a call that relies on it (`Relies`): between `Assign` and
the first read, one that found the feed asleep has no order yet, and needs none. And it says
so only up to a loss of the feed (`Lost`), for what is behind one is never taken: `Take` ends
the call there. A call that saw the feed alive at its assign finds it alive ever after, or a
loss ahead of it (`wasLive[c] => feedLive`), which is what lets it go without a first read.
A call of whose task a read failed (`unread`) is promised nothing of this but that it hears
of the loss. The largest part of the proof is about `CatchUp`: what `Only` makes of a sequence
keeps its order and its range (`OnlyKeeps`, by counting ranks), and the history in front of
the newer rest of the queue is ordered and single again (`MergedFacts`).

**The invariant of the workflows.** A process knows of the dead ones what the server put
into the `Assign` and what `_complete_resume` adds out of the retained frames, so the
invariant says that the two together are all there is. `DeliveryInv`: each frame the file
holds is at the server or on the line, none overtakes another of its session, and so no ack
covers a frame the server lacks. `AssignInv`: until an `Assign` is handled nothing happens in
its task, and what the `Assign` lacks of the record is still retained then, for no ack ahead
of it covers it. From these, once a task runs, `ValueInv`: an effect that is not replayed and
not done has no value on record, so the one that is taken is the first; and `StepInv`: no
frame and no child of the task has a step beyond the last one handed out, and the step of a
call on its way is no other's. `KeyInv` and `CallInv`: what a process counted of a target and
its arguments are the calls it sent, so no two of them have one key, and a child is found
only by calls of its own target. `EndInv`: nothing on record of a task is later than its end,
and a task that has one does not run.

**The invariants of the registration.** That an answer contradicts no report is not
inductive, for the answer is given to an `Init` that may be old. `OutcomeInv` orders the
messages the agent has not handled. What an `Init` asks about has ended, if at all, by a
report still retained (`ReplyInv` while it is answered, `InitInv` before): the server did
not have that report when it asked, so its ack comes behind the `Init`, and messages are
handled in turn. A task that is assigned by a message in the queue has no outcome, and is
asked about by no `Init` ahead of it (`AssignInv`), so a `Critical` for a task the agent
does not manage is never overtaken by the task itself. Between `acheck_task`'s answer and
the `Critical` it leads to, the task may be reported; its gate is closed then (`ReportInv`:
a managed task with an outcome is gated), and the `Critical` refused. `UploadInv` says that,
unless an `Init` overtook a tear-down, there is at most one upload, the running agent's,
under a follow-up and not during a tear-down, and that past its query it is about an asset
no upload has recorded. The types are proved without it, for any number of uploads: each
goes on at the next asset with a path (`FromFacts`: the least of a set of places is one of
them).

**Only model-checked:** liveness, that is every property with `~>`, `<>[]` or `[]<>`:
fairness and ENABLED are beyond the prover's reach. Every other property of a passing run is
a theorem.

## Where the code departs from its documents

Shown by a run:

* `transport_clean_close`: "When the link goes down, the agent starts a per-action
  countdown" (`docs/disconnect-policy.md`). A close with 1000 or 1001 ends the
  `async for` without an exception; the task goes back to its top and the host is not
  told. On the same path no retry is counted and there is no backoff, so a server that
  accepts and closes cleanly is reconnected to for ever.
* `transport_refused`: "This closes the window where the network is gone or the server is
  restarting" (`docs/disconnect-policy.md`). A refused reconnect is an `OSError`, which is
  definite: it ends the task with its budget unspent.
* `states_clean_exit`: "A clean exit keeps the exact last value"
  (`agents/agent.py`). A change made during a flusher's write, followed by the close
  before that write is done, is marked and never written.
* `registration_changed`: "a file that changed since it was registered is not uploaded"
  (`tests/test_asset_upload.py`). `_aupload` hashes the bytes it read, drops them, awaits the
  grant and opens the path again: a file written over in between is put as the old one.

Met while modelling, not run:

* "When the link goes down, the agent starts a per-action countdown"
  (`docs/disconnect-policy.md`) fails on a second path: a kick, a busy code or a definite
  failure ends the connection task without `anotify_connection_change(False)`. `areceive`
  raises, but what the host was told stays, and `aconnect` may be called again
  (`tests/test_transport_lifecycle.py`); until its first connect stands or is lost the host
  believes the old link up. `DropsAreTold` says that this, and a clean close, are all.
* "Run the follow-up once" (`_arun_after_registration`): `atear_down` clears
  `_after_registration_task` before it awaits the cancelled follow-up, and the agent's loop
  still runs. An `Init` handled then starts a second upload, which is not cancelled, runs
  beside the teardown and maybe beside a later agent's, and can record an asset that one
  records too. `RecordedForOne` holds up to that (`overtaken`).
* A `CreateAsset` that was cut off may reach the server after the retry asked
  `StoredAsset`: the server is then told of the asset twice, once by a request nobody waits
  for (`late`). `RecordedForOne` counts the answered ones.
* `discard_journaled` wakes a waiting `join()` early (`FlushOvertaken`): `adisconnect` then
  closes with un-numbered frames still queued. `JoinCountsEverything` is about the count,
  which is right again when the call returns, not about when `join` does.
* `_orphan_by_task` is "mirrors that arrived before the AssignResponse was processed"
  (`agents/caller.py`). Mirrors that come after a call is over are parked there too, and
  nobody removes them: those of a cancelled or closed call, and the live repetitions behind
  the replay of a child found again. An answer behind a cancellation makes a queue.
  `OnlyLateEventsStay` says that nothing else stays.
* `_complete_resume` returns at once for an `Assign` without `resume`. `Resume` assumes that
  the server sets it whenever it assigns a task again; where it did not, a value a dead
  process took and never sent would be taken anew.
* Equal concurrent calls of a workflow may swap children between two runs, for their keys
  differ only by the order they are made in. The documents allow it; `CallsFindTheirOwn` asks for a child
  of the same target that no other call has.
* "One that failed is tried again at the next `Init`" (`_arun_after_registration`) is about
  the follow-up, not the assets: a put that failed or a refusal is logged by
  `aupload_assets`, which then returns as usual, so that asset waits for the next start of
  the app. `EveryAssetIsSettled` therefore counts a logged asset as settled.
* An `AssignRequest` that is lost with its connection, or whose `AssignResponse` is, is not
  sent again: the call waits until its process ends or its consumer cancels it.
* `SearchQuery.validate` (`scalars.py`) checks the type of the query's first variable twice,
  and that of `$values` never.

* `docs/journal.md`: "Nothing is sent between `REGISTER` and `INIT`". An `Init` that the
  previous connection received and the agent handles after the reconnect releases the new
  connection early. The order of the log does not suffer, as `LogInOrder` shows.
* `docs/journal.md` has the retained frames go out first after `Init`, but un-numbered
  frames that were queued, or held, stay ahead of them.
* `_aresend_retained` says that earlier sessions' frames go first; the order is by
  `time.time()` at each start, so a clock that steps back reverses it. `MustPrecede`
  therefore asks for the order of the sessions only while `ClockStepsBack` is FALSE.
* `AgentPostman.aassign` sends a `CancelRequest` on cancellation only once it knows the
  task: a call cancelled while it waits for its `AssignResponse` leaves a child running.
* `_astream` skips events it has seen but does not order them: a live event of a child
  found again that precedes the replay is delivered first, and a terminal one ends the
  stream without the replay (`liveFirst`; `StreamInOrder` is about the behaviours without it).
* `GraphQLPostman.aassign`, cancelled a second time before its assign answered, leaves the
  handler of the first `CancelledError` without `_cleanup_reference`: its queue stays.
  The model ends such a call as `"abandoned"`.
* A `create` or an event that comes after its call was cleaned up is bound or parked again,
  and never removed. `NothingLeftBehind` is about queues and reads.
* `watch_tasks` says of `stop_watching` that "nobody is left waiting"; a call in flight
  then would wait for ever, since no `_FeedLost` is put on its queue.

## What is not modelled

* `stop_watching` and `__aexit__` of the GraphQL postman with calls in flight, and two
  calls under one reference.
* A second start of the same agent object after its teardown, and state patches that
  arrive while the agent closes: the runtime ends its writers first.
* `AgentPostman` with two calls under one reference, or with drops of its socket: it does
  nothing about them (see above), and a process that dies is in `Resume`.
* `UploadLink`, which uploads the files among one GraphQL operation's variables side by side
  and keeps nothing; the assembly of a run in `arkitekt.py` but for the choice and the start
  of the asset upload; the refusal of calls from inside a task (`client/client.py`), a check
  of its arguments.
* Scalars and traits, the control plane (three fields set by `Init` and read back), and the
  generated schemas, which are more than half of the lines: no behaviour of their own.
* Payloads, logging, tokens, and the contents of states.

## Plan

Done: all the modules above and their proofs. What would add most next:

1. `AgentPostman` over a socket that drops, once the code asks again for an answer it did
   not get.
2. An abstract stream of events which both postmen implement.
