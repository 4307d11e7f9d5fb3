---------------------------- MODULE GraphQLPostman ----------------------------
(***************************************************************************)
(* Calls a client makes over GraphQL: GraphQLPostman (client/postman.py).  *)
(* An assign is one request; what becomes of its task comes on the change  *)
(* feed, a subscription all calls share.  Nothing acknowledges the         *)
(* subscription, so until the feed has delivered something each call also  *)
(* reads its task's history, and what comes both ways is handed on once.   *)
(* The feed may fail or end at any time; the next call starts another.     *)
(*                                                                         *)
(* A call and its task have one name: every call has a reference of its    *)
(* own.  An event is its number in the task's history.                     *)
(***************************************************************************)
EXTENDS Integers, Sequences, FiniteSets, SequencesExt

CONSTANTS
    Calls,         \* the calls, and with them their tasks
    Elsewhere,     \* the tasks of another client's calls: the feed carries them too
    Escalating,    \* those with escalate_to_interrupt
    Leaving,       \* those whose consumer may go away: be cancelled, or stop early
    Unreadable,    \* those of whose task a read may fail
    MaxSeq,        \* bound: the events of a call's task (one elsewhere has one)
    MaxChanges     \* bound: what the feed carries at once

ASSUME CallsAssumption ==
    /\ Elsewhere \subseteq Calls /\ Escalating \subseteq Calls
    /\ Leaving \subseteq Calls /\ Unreadable \subseteq Calls
ASSUME BoundAssumption == MaxSeq \in Nat \ {0} /\ MaxChanges \in Nat

VARIABLES
    \* the generator of each call
    pc,         \* where it is
    outcome,    \* how it ended
    taken,      \* the events it yielded, in order
    wasLive,    \* feed_was_live
    \* the postman
    queues,     \* the calls in _ass_update_queues ...
    queue,      \* ... and their content, <<>> where there is none
    bound,      \* the tasks in _task_to_reference
    orphans,    \* _orphan_events_by_task
    routed,     \* _routed_event_ids
    again,      \* the calls with an _acatch_up_until_live (_catch_up_tasks)
    watching,   \* _watching
    feedLive,   \* _feed_live
    behind,     \* the tasks watch_tasks has yet to catch up
    \* the reads of a task's history
    asked,      \* how many events there were when it was asked for, NoRead if it was not
    \* the feed and the server
    feed,       \* "off", "opening", "subscribed"
    changes,    \* what the feed carries and watch_tasks has not taken
    created,    \* the tasks the server holds
    count,      \* how many events a task has
    ending,     \* the kind of its last event, "none" while it runs
    \* history
    unread      \* the calls a read of whose task failed

generator == <<pc, outcome, taken, wasLive>>
tables == <<queues, queue, bound, orphans, routed>>
watch == <<watching, feedLive, behind>>
server == <<created, count, ending>>
vars == <<generator, tables, again, watch, asked, feed, changes, server, unread>>

\* _FeedLost, in a queue of event numbers.
FeedLost == 0
NoRead == -1

Seqs == 1 .. MaxSeq
Readers == {"first", "again", "feed"}
Changes == [call : Calls, seq : 0 .. MaxSeq]   \* seq 0: its create

TypeOK ==
    /\ pc \in [Calls -> {"idle", "assigning", "unanswered", "first", "waiting",
                         "yielded", "cancelling", "interrupting", "done"}]
    /\ outcome \in [Calls -> {"none", "ended", "refused", "lost", "closed",
                              "cancelled", "unknown", "abandoned"}]
    /\ taken \in [Calls -> Seq(Seqs)]
    /\ wasLive \in [Calls -> BOOLEAN]
    /\ queues \in SUBSET Calls
    /\ queue \in [Calls -> Seq(Seqs \cup {FeedLost})]
    /\ bound \in SUBSET Calls
    /\ orphans \in [Calls -> Seq(Seqs)]
    /\ routed \in [Calls -> SUBSET Seqs]
    /\ again \in SUBSET Calls
    /\ watching \in BOOLEAN /\ feedLive \in BOOLEAN
    /\ behind \in SUBSET Calls
    /\ asked \in [Readers \X Calls -> {NoRead} \cup 0 .. MaxSeq]
    /\ feed \in {"off", "opening", "subscribed"}
    /\ changes \in Seq(Changes)
    /\ created \in SUBSET Calls
    /\ count \in [Calls -> 0 .. MaxSeq]
    /\ ending \in [Calls -> {"none", "completed", "cancelled", "interrupted"}]
    /\ unread \in SUBSET Calls

\* The first call of a postman, or one that follows others: the feed is as they left it.
Init ==
    /\ pc = [c \in Calls |-> "idle"]
    /\ outcome = [c \in Calls |-> "none"]
    /\ taken = [c \in Calls |-> <<>>]
    /\ wasLive = [c \in Calls |-> FALSE]
    /\ queues = {} /\ queue = [c \in Calls |-> <<>>]
    /\ bound = {}
    /\ orphans = [c \in Calls |-> <<>>]
    /\ routed = [c \in Calls |-> {}]
    /\ again = {}
    /\ behind = {}
    /\ asked = [r \in Readers \X Calls |-> NoRead]
    /\ feed \in {"off", "opening", "subscribed"} /\ changes = <<>>
    /\ watching = (feed # "off")
    /\ feedLive \in BOOLEAN /\ (feedLive => feed = "subscribed")
    /\ created = {}
    /\ count = [c \in Calls |-> 0]
    /\ ending = [c \in Calls |-> "none"]
    /\ unread = {}

Kind(c, seq) == IF seq = count[c] THEN ending[c] ELSE "none"

-----------------------------------------------------------------------------
(* The tables.                                                             *)

\* _bind: remember whose task it is, and hand on what came before that was known.
Bind(c) ==
    /\ bound' = bound \cup {c}
    /\ queue' = IF c \in queues THEN [queue EXCEPT ![c] = @ \o orphans[c]] ELSE queue
    /\ orphans' = [orphans EXCEPT ![c] = <<>>]
    /\ UNCHANGED <<queues, routed>>

\* (Mutant of Route: what was read already is not looked up.)
RouteTwice(c, seq) ==
    /\ routed' = [routed EXCEPT ![c] = @ \cup {seq}]
    /\ IF c \in bound /\ c \in queues
       THEN queue' = [queue EXCEPT ![c] = Append(@, seq)] /\ UNCHANGED orphans
       ELSE orphans' = [orphans EXCEPT ![c] = Append(@, seq)] /\ UNCHANGED queue
    /\ UNCHANGED <<queues, bound>>

\* _route: once to the call that waits for it, or parked until it is bound.
Route(c, seq) ==
    /\ IF seq \in routed[c]
       THEN UNCHANGED <<routed, queue, orphans>>
       ELSE /\ routed' = [routed EXCEPT ![c] = @ \cup {seq}]
            /\ IF c \in bound /\ c \in queues
               THEN queue' = [queue EXCEPT ![c] = Append(@, seq)] /\ UNCHANGED orphans
               ELSE orphans' = [orphans EXCEPT ![c] = Append(@, seq)] /\ UNCHANGED queue
    /\ UNCHANGED <<queues, bound>>

\* What the call took off its queue already.
Handed(c) == routed[c] \ Range(queue[c])

\* Those of s that are in S, in their order (SelectSeq, without its recursion).
Only(s, S) ==
    LET at == {i \in DOMAIN s : s[i] \in S}
        Rank(i) == Cardinality({j \in at : j <= i})
    IN [k \in 1 .. Cardinality(at) |-> s[CHOOSE i \in at : Rank(i) = k]]

\* _acatch_up, once the history is read: its events first, in its order, but for
\* those the call took; then what waited and is newer.
CatchUp(c, n) ==
    /\ IF c \in bound /\ c \in queues
       THEN /\ queue' = [queue EXCEPT ![c] =
                   Only([i \in 1 .. n |-> i], Seqs \ Handed(c)) \o Only(@, {FeedLost} \cup n + 1 .. MaxSeq)]
            /\ routed' = [routed EXCEPT ![c] = @ \cup 1 .. n]
       ELSE UNCHANGED <<queue, routed>>
    /\ UNCHANGED <<queues, bound, orphans>>

\* (Mutant of CleanUp: the repeated read goes on.)
CleanUpTables(c) ==
    /\ queues' = queues \ {c} /\ queue' = [queue EXCEPT ![c] = <<>>]
    /\ bound' = bound \ {c}
    /\ IF c \in bound
       THEN orphans' = [orphans EXCEPT ![c] = <<>>] /\ routed' = [routed EXCEPT ![c] = {}]
       ELSE UNCHANGED <<orphans, routed>>
    /\ UNCHANGED <<again, asked>>

\* _cleanup_reference, and the end of a read the generator itself waited for.
CleanUp(c) ==
    /\ queues' = queues \ {c} /\ queue' = [queue EXCEPT ![c] = <<>>]
    /\ bound' = bound \ {c}
    /\ IF c \in bound
       THEN orphans' = [orphans EXCEPT ![c] = <<>>] /\ routed' = [routed EXCEPT ![c] = {}]
       ELSE UNCHANGED <<orphans, routed>>
    /\ again' = again \ {c}
    /\ asked' = [asked EXCEPT ![<<"first", c>>] = NoRead, ![<<"again", c>>] = NoRead]

End(c, how) ==
    /\ pc' = [pc EXCEPT ![c] = "done"]
    /\ outcome' = [outcome EXCEPT ![c] = how]
    /\ CleanUp(c)

-----------------------------------------------------------------------------
(* Reading a task's history.                                               *)

AskFor(by, c) == asked' = [asked EXCEPT ![<<by, c>>] = count[c]]

\* _acatch_up_safely, once its read is back, with the events there were at some time
\* since it was asked for, or has failed (which is logged).
CaughtUp(by, c) ==
    /\ asked[<<by, c>>] # NoRead
    /\ asked' = [asked EXCEPT ![<<by, c>>] = NoRead]
    /\ \/ \E n \in asked[<<by, c>>] .. count[c] : CatchUp(c, n) /\ UNCHANGED unread
       \/ c \in Unreadable /\ unread' = unread \cup {c} /\ UNCHANGED tables

-----------------------------------------------------------------------------
(* The generator.                                                          *)

\* aassign: start the feed if there is none, open the queue, send the assign.
Assign(c) ==
    /\ pc[c] = "idle" /\ c \notin Elsewhere
    /\ pc' = [pc EXCEPT ![c] = "assigning"]
    /\ watching' = TRUE
    /\ feed' = IF watching THEN feed ELSE "opening"
    /\ wasLive' = [wasLive EXCEPT ![c] = feedLive]
    /\ queues' = queues \cup {c}
    /\ UNCHANGED <<outcome, taken, queue, bound, orphans, routed, again, feedLive, behind,
                   asked, changes, server, unread>>

\* (Mutant of Assigned: the feed is looked at when the answer is there.)
AssignedLate(c) ==
    /\ pc[c] = "assigning" /\ c \in created
    /\ Bind(c)
    /\ IF feedLive
       THEN pc' = [pc EXCEPT ![c] = "waiting"] /\ UNCHANGED asked
       ELSE pc' = [pc EXCEPT ![c] = "first"] /\ AskFor("first", c)
    /\ UNCHANGED <<outcome, taken, wasLive, again, watch, feed, changes, server, unread>>

\* The assign is answered: bind the task, and catch up unless the feed was known to
\* be subscribed before the task was made.
Assigned(c) ==
    /\ pc[c] = "assigning" /\ c \in created
    /\ Bind(c)
    /\ IF wasLive[c]
       THEN pc' = [pc EXCEPT ![c] = "waiting"] /\ UNCHANGED asked
       ELSE pc' = [pc EXCEPT ![c] = "first"] /\ AskFor("first", c)
    /\ UNCHANGED <<outcome, taken, wasLive, again, watch, feed, changes, server, unread>>

\* The assign fails, or its answer is lost.
AssignFails(c) ==
    /\ pc[c] = "assigning"
    /\ End(c, "refused")
    /\ UNCHANGED <<taken, wasLive, watch, feed, changes, server, unread>>

\* The first catch-up is over: wait for events, and read again while the feed is
\* not known to be there.
FirstDone(c) ==
    /\ pc[c] = "first"
    /\ CaughtUp("first", c)
    /\ pc' = [pc EXCEPT ![c] = "waiting"]
    /\ again' = IF feedLive THEN again ELSE again \cup {c}
    /\ UNCHANGED <<outcome, taken, wasLive, watch, feed, changes, server>>

\* (Mutant of Take: the loss of the feed is yielded like an event.)
TakeAnything(c) ==
    /\ pc[c] = "waiting" /\ queue[c] # <<>>
    /\ taken' = [taken EXCEPT ![c] = Append(@, Head(queue[c]))]
    /\ queue' = [queue EXCEPT ![c] = Tail(@)]
    /\ pc' = [pc EXCEPT ![c] = "yielded"]
    /\ UNCHANGED <<outcome, queues, bound, orphans, routed, again, asked>>
    /\ UNCHANGED <<wasLive, watch, feed, changes, server, unread>>

\* The next event; or the feed was lost, and the call fails.
Take(c) ==
    /\ pc[c] = "waiting" /\ queue[c] # <<>>
    /\ IF Head(queue[c]) = FeedLost
       THEN End(c, "lost") /\ UNCHANGED taken
       ELSE /\ taken' = [taken EXCEPT ![c] = Append(@, Head(queue[c]))]
            /\ queue' = [queue EXCEPT ![c] = Tail(@)]
            /\ pc' = [pc EXCEPT ![c] = "yielded"]
            /\ UNCHANGED <<outcome, queues, bound, orphans, routed, again, asked>>
    /\ UNCHANGED <<wasLive, watch, feed, changes, server, unread>>

\* The consumer asks for more, until it has seen a terminal event.
Resume(c) ==
    /\ pc[c] = "yielded"
    /\ IF Kind(c, Last(taken[c])) # "none"
       THEN End(c, "ended")
       ELSE /\ pc' = [pc EXCEPT ![c] = "waiting"]
            /\ UNCHANGED <<outcome, tables, again, asked>>
    /\ UNCHANGED <<taken, wasLive, watch, feed, changes, server, unread>>

\* The consumer goes away at a yield: the generator is closed, nothing is cancelled.
Close(c) ==
    /\ pc[c] = "yielded" /\ c \in Leaving
    /\ End(c, "closed")
    /\ UNCHANGED <<taken, wasLive, watch, feed, changes, server, unread>>

-----------------------------------------------------------------------------
(* Cancellation.                                                           *)

\* The consumer is cancelled before the answer: the assign is shielded, and its
\* answer awaited (_assigned_despite_cancel) ...
CancelAssigning(c) ==
    /\ pc[c] = "assigning" /\ c \in Leaving
    /\ pc' = [pc EXCEPT ![c] = "unanswered"]
    /\ UNCHANGED <<outcome, taken, wasLive, tables, again, watch, asked, feed, changes, server, unread>>

\* ... it comes: there is a task to cancel ...
LateAnswer(c) ==
    /\ pc[c] = "unanswered" /\ c \in created
    /\ pc' = [pc EXCEPT ![c] = "cancelling"]
    /\ Bind(c)
    /\ UNCHANGED <<outcome, taken, wasLive, again, watch, asked, feed, changes, server, unread>>

\* ... or it fails, or cancel_timeout is over.
NoAnswer(c) ==
    /\ pc[c] = "unanswered"
    /\ End(c, "unknown")
    /\ UNCHANGED <<taken, wasLive, watch, feed, changes, server, unread>>

\* The consumer is cancelled while it waits for an event, or for the first read.
CancelWaiting(c) ==
    /\ pc[c] \in {"first", "waiting"} /\ c \in Leaving
    /\ pc' = [pc EXCEPT ![c] = "cancelling"]
    /\ asked' = [asked EXCEPT ![<<"first", c>>] = NoRead]
    /\ UNCHANGED <<outcome, taken, wasLive, tables, again, watch, feed, changes, server, unread>>

\* What _await_kind waits for.
Confirms(c) == IF pc[c] = "cancelling" THEN {"cancelled"} ELSE {"cancelled", "interrupted"}

Escalates(c) == pc[c] = "cancelling" /\ c \in Escalating

\* _await_kind: drain the queue until the confirmation, or until the feed is lost.
Drain(c) ==
    /\ pc[c] \in {"cancelling", "interrupting"} /\ queue[c] # <<>>
    /\ LET event == Head(queue[c])
           confirmed == event # FeedLost /\ Kind(c, event) \in Confirms(c)
       IN \/ /\ confirmed \/ (event = FeedLost /\ ~Escalates(c))
             /\ End(c, "cancelled")
          \/ /\ ~confirmed /\ (event = FeedLost => Escalates(c))
             /\ pc' = IF event = FeedLost THEN [pc EXCEPT ![c] = "interrupting"] ELSE pc
             /\ queue' = [queue EXCEPT ![c] = Tail(@)]
             /\ UNCHANGED <<outcome, queues, bound, orphans, routed, again, asked>>
    /\ UNCHANGED <<taken, wasLive, watch, feed, changes, server, unread>>

\* (Mutant of Unconfirmed: the confirmation is awaited for ever.)
UnconfirmedNever(c) == c \notin Calls /\ UNCHANGED vars

\* The timeout is over: interrupt, or give up.
Unconfirmed(c) ==
    /\ pc[c] \in {"cancelling", "interrupting"}
    /\ IF Escalates(c)
       THEN /\ pc' = [pc EXCEPT ![c] = "interrupting"]
            /\ UNCHANGED <<outcome, tables, again, asked>>
       ELSE End(c, "cancelled")
    /\ UNCHANGED <<taken, wasLive, watch, feed, changes, server, unread>>

\* The consumer is cancelled once more.  Before the answer nothing is cleaned up:
\* the handler of the first cancellation is left by the second.
CancelAgain(c) ==
    /\ \/ pc[c] \in {"cancelling", "interrupting"} /\ End(c, "cancelled")
       \/ /\ pc[c] = "unanswered"
          /\ pc' = [pc EXCEPT ![c] = "done"]
          /\ outcome' = [outcome EXCEPT ![c] = "abandoned"]
          /\ UNCHANGED <<tables, again, asked>>
    /\ UNCHANGED <<taken, wasLive, watch, feed, changes, server, unread>>

-----------------------------------------------------------------------------
(* The tasks beside the calls.                                             *)

\* _acatch_up_until_live: the delay is over; read, unless the feed has come alive.
AgainWakes(c) ==
    /\ c \in again /\ asked[<<"again", c>>] = NoRead
    /\ IF feedLive
       THEN again' = again \ {c} /\ UNCHANGED asked
       ELSE AskFor("again", c) /\ UNCHANGED again
    /\ UNCHANGED <<generator, tables, watch, feed, changes, server, unread>>

AgainDone(c) ==
    /\ CaughtUp("again", c)
    /\ again' = IF feedLive THEN again \ {c} ELSE again
    /\ UNCHANGED <<generator, watch, feed, changes, server>>

\* (Mutant of FeedAlive: the calls that wait already are left to the feed.)
FeedAliveAlone ==
    /\ feed = "subscribed" /\ ~feedLive /\ changes # <<>>
    /\ feedLive' = TRUE
    /\ UNCHANGED <<generator, tables, again, watching, behind, asked, feed, changes, server, unread>>

\* watch_tasks: the first change says that the feed is subscribed; what came before
\* it is read, for every task that is bound ...
FeedAlive ==
    /\ feed = "subscribed" /\ ~feedLive /\ changes # <<>>
    /\ feedLive' = TRUE
    /\ behind' = bound
    /\ UNCHANGED <<generator, tables, again, watching, asked, feed, changes, server, unread>>

FeedReads(c) ==
    /\ c \in behind /\ \A d \in Calls : asked[<<"feed", d>>] = NoRead
    /\ AskFor("feed", c)
    /\ UNCHANGED <<generator, tables, again, watch, feed, changes, server, unread>>

FeedCaughtUp(c) ==
    /\ CaughtUp("feed", c)
    /\ behind' = behind \ {c}
    /\ UNCHANGED <<generator, again, watching, feedLive, feed, changes, server>>

\* ... and only then is a change handed on.
HandleChange ==
    /\ feedLive /\ behind = {} /\ changes # <<>>
    /\ changes' = Tail(changes)
    /\ LET change == Head(changes) IN
          IF change.seq = 0 THEN Bind(change.call) ELSE Route(change.call, change.seq)
    /\ UNCHANGED <<generator, again, watch, asked, feed, server, unread>>

\* (Mutant of FeedEnds: the next call does not start another.)
FeedEndsOnce ==
    /\ feed # "off" /\ behind = {}
    /\ feed' = "off" /\ changes' = <<>>
    /\ feedLive' = FALSE
    /\ queue' = [c \in Calls |-> IF c \in queues THEN Append(queue[c], FeedLost) ELSE <<>>]
    /\ UNCHANGED <<generator, queues, bound, orphans, routed, again, watching, behind, asked, server, unread>>

\* The feed fails or ends (_fail_pending): whoever waits is told, and the next call
\* starts another.
FeedEnds ==
    /\ feed # "off" /\ behind = {}
    /\ feed' = "off" /\ changes' = <<>>
    /\ watching' = FALSE /\ feedLive' = FALSE
    /\ queue' = [c \in Calls |-> IF c \in queues THEN Append(queue[c], FeedLost) ELSE <<>>]
    /\ UNCHANGED <<generator, queues, bound, orphans, routed, again, behind, asked, server, unread>>

-----------------------------------------------------------------------------
(* The server.                                                             *)

\* The subscription is there.  What was reported before never comes on it.
Subscribed ==
    /\ feed = "opening"
    /\ feed' = "subscribed"
    /\ UNCHANGED <<generator, tables, again, watch, asked, changes, server, unread>>

Carried(change) == IF feed = "subscribed" THEN Append(changes, change) ELSE changes

\* It makes the task, and may announce it.
ServerAssigns(c) ==
    /\ (pc[c] # "idle" \/ c \in Elsewhere) /\ c \notin created
    /\ created' = created \cup {c}
    /\ \/ Len(changes) < MaxChanges /\ changes' = Carried([call |-> c, seq |-> 0])
       \/ UNCHANGED changes
    /\ UNCHANGED <<generator, tables, again, watch, asked, feed, count, ending, unread>>

\* The task reports, and ends.
ServerReports(c) ==
    /\ c \in created /\ ending[c] = "none"
    /\ Len(changes) < MaxChanges
    /\ count' = [count EXCEPT ![c] = @ + 1]
    /\ \E kind \in {"none", "completed", "cancelled", "interrupted"} :
          /\ count[c] + 1 = MaxSeq => kind # "none"
          /\ c \in Elsewhere => kind = "completed"
          /\ ending' = [ending EXCEPT ![c] = kind]
    /\ changes' = Carried([call |-> c, seq |-> count[c] + 1])
    /\ UNCHANGED <<generator, tables, again, watch, asked, feed, created, unread>>

-----------------------------------------------------------------------------
Next ==
    \/ \E c \in Calls :
          \/ Assign(c) \/ Assigned(c) \/ AssignFails(c) \/ FirstDone(c)
          \/ Take(c) \/ Resume(c) \/ Close(c)
          \/ CancelAssigning(c) \/ LateAnswer(c) \/ NoAnswer(c) \/ CancelWaiting(c)
          \/ Drain(c) \/ Unconfirmed(c) \/ CancelAgain(c)
          \/ AgainWakes(c) \/ AgainDone(c) \/ FeedReads(c) \/ FeedCaughtUp(c)
          \/ ServerAssigns(c) \/ ServerReports(c)
    \/ FeedAlive \/ HandleChange \/ FeedEnds \/ Subscribed

Spec == Init /\ [][Next]_vars

\* The loop runs its ready tasks and its timers, the consumer asks for more, the
\* server answers assigns and reads, and the task of a call ends.  Nothing is assumed of the
\* feed: it may never be subscribed.
Fairness ==
    /\ \A c \in Calls :
          /\ WF_vars(Assigned(c)) /\ WF_vars(LateAnswer(c) \/ NoAnswer(c))
          /\ WF_vars(FirstDone(c)) /\ WF_vars(Take(c)) /\ WF_vars(Resume(c))
          /\ WF_vars(Unconfirmed(c))
          /\ WF_vars(AgainWakes(c)) /\ WF_vars(AgainDone(c))
          /\ WF_vars(FeedReads(c)) /\ WF_vars(FeedCaughtUp(c))
    /\ \A c \in Calls \ Elsewhere : WF_vars(ServerAssigns(c)) /\ WF_vars(ServerReports(c))
    /\ WF_vars(FeedAlive) /\ WF_vars(HandleChange)

FairSpec == Spec /\ Fairness

-----------------------------------------------------------------------------
(* Properties.                                                             *)

\* A call yields its task's events each once and in order, from the first, whether
\* they came on the feed, in a read of its history, or both: "a call never sees a
\* later event before an earlier one".  Only a read that failed may leave a gap.
\* (_acatch_up, _route, feed_was_live.)
StreamInOrder ==
    \A c \in Calls \ unread :
        /\ \A i \in DOMAIN taken[c] : taken[c][i] = i
        /\ outcome[c] = "ended" => Len(taken[c]) = count[c]

\* No call waits on a feed that is gone: it was told, or another feed runs by now.
\* (_fail_pending, start_watching.)
FeedLossIsHeard ==
    \A c \in Calls :
        pc[c] \in {"assigning", "unanswered", "first", "waiting", "yielded"} =>
            feed # "off" \/ FeedLost \in Range(queue[c])

\* A call that is over holds no queue, and nobody reads its task's history for it.
\* (_cleanup_reference; not so for a call cancelled twice before its answer.)
NothingLeftBehind ==
    \A c \in Calls :
        /\ pc[c] = "done" /\ outcome[c] # "abandoned" => c \notin queues
        /\ c \in again => pc[c] \in {"waiting", "yielded", "cancelling", "interrupting"}

\* A call comes to an end if its task does, also one that had reported everything
\* before the feed was subscribed, and also if the feed never is; unless a read of
\* its history failed.  (_acatch_up_until_live, watch_tasks.)
CallsEnd == \A c \in Calls : pc[c] = "assigning" ~> pc[c] = "done" \/ c \in unread

\* A cancelled one does in any case: "Every wait is bounded, so this never hangs."
\* (_confirm_cancellation, _assigned_despite_cancel.)
CancellationEnds ==
    \A c \in Calls : pc[c] \in {"unanswered", "cancelling"} ~> pc[c] = "done"
=============================================================================
