-------------------------- MODULE Registration_proofs --------------------------
(***************************************************************************)
(* Proofs about Registration, for every set of tasks, every registry of    *)
(* assets and every bound: a task has one outcome, an asset is recorded    *)
(* for one upload, and the types hold.                                     *)
(***************************************************************************)
EXTENDS Registration, FiniteSetTheorems, WellFoundedInduction, TLAPS

-----------------------------------------------------------------------------
(* Sequences.                                                              *)

\* What the queues hold, as they grow and shrink.
LEMMA TailFacts ==
  ASSUME NEW S, NEW q \in Seq(S), q # <<>>
  PROVE  /\ 1 \in DOMAIN q /\ Head(q) = q[1] /\ Head(q) \in S /\ Tail(q) \in Seq(S)
         /\ \A i \in DOMAIN Tail(q) :
               i \in Nat /\ i >= 1 /\ i + 1 \in DOMAIN q /\ Tail(q)[i] = q[i + 1]
         /\ Range(Tail(q)) \subseteq Range(q)
<1> DEFINE p == Tail(q)
<1>1. /\ DOMAIN q = 1 .. Len(q) /\ DOMAIN p = 1 .. Len(q) - 1
      /\ Head(q) = q[1] /\ Head(q) \in S /\ p \in Seq(S)
      /\ \A i \in 1 .. Len(q) - 1 : p[i] = q[i + 1]
      /\ Len(q) \in Nat \ {0}
  OBVIOUS
<1> HIDE DEF p
<1>2. \A i \in DOMAIN p : i \in Nat /\ i >= 1 /\ i + 1 \in DOMAIN q /\ p[i] = q[i + 1]
  BY <1>1
<1>3. Range(p) \subseteq Range(q)
  BY <1>2 DEF Range
<1> QED
  BY <1>1, <1>2, <1>3 DEF p

LEMMA AppendFacts ==
  ASSUME NEW S, NEW q \in Seq(S), NEW x \in S
  PROVE  /\ Append(q, x) \in Seq(S)
         /\ \A i \in DOMAIN Append(q, x) :
               \/ i \in DOMAIN q /\ Append(q, x)[i] = q[i]
               \/ i = Len(q) + 1 /\ Append(q, x)[i] = x
         /\ \A i \in DOMAIN q : i \in Nat /\ i < Len(q) + 1
         /\ Range(Append(q, x)) \subseteq Range(q) \cup {x}
<1> DEFINE p == Append(q, x)
<1>1. /\ DOMAIN q = 1 .. Len(q) /\ DOMAIN p = 1 .. Len(q) + 1
      /\ p \in Seq(S) /\ p[Len(q) + 1] = x
      /\ \A i \in 1 .. Len(q) : p[i] = q[i]
      /\ Len(q) \in Nat
  OBVIOUS
<1> HIDE DEF p
<1>2. \A i \in DOMAIN p : \/ i \in DOMAIN q /\ p[i] = q[i]
                          \/ i = Len(q) + 1 /\ p[i] = x
  BY <1>1
<1>3. Range(p) \subseteq Range(q) \cup {x}
  BY <1>2 DEF Range
<1> QED
  BY <1>1, <1>2, <1>3 DEF p

LEMMA ConcatFacts ==
  ASSUME NEW S, NEW p \in Seq(S), NEW q \in Seq(S)
  PROVE  p \o q \in Seq(S) /\ Range(p \o q) \subseteq Range(p) \cup Range(q)
<1> DEFINE r == p \o q
<1>1. /\ DOMAIN p = 1 .. Len(p) /\ DOMAIN q = 1 .. Len(q) /\ DOMAIN r = 1 .. Len(p) + Len(q)
      /\ Len(p) \in Nat /\ Len(q) \in Nat /\ r \in Seq(S)
      /\ \A i \in 1 .. Len(p) : r[i] = p[i]
      /\ \A i \in 1 .. Len(q) : r[i + Len(p)] = q[i]
  OBVIOUS
<1> HIDE DEF r
<1>2. ASSUME NEW i \in DOMAIN r
      PROVE  r[i] \in Range(p) \cup Range(q)
  <2>1. CASE i \in DOMAIN p
    BY <1>1, <2>1 DEF Range
  <2>2. CASE i \notin DOMAIN p
    <3>1. i - Len(p) \in DOMAIN q /\ (i - Len(p)) + Len(p) = i
      BY <1>1, <2>2
    <3>2. r[i] = q[i - Len(p)]
      BY <1>1, <3>1
    <3> QED
      BY <3>1, <3>2 DEF Range
  <2> QED
    BY <2>1, <2>2
<1>3. Range(r) \subseteq Range(p) \cup Range(q)
  BY <1>2 DEF Range
<1> QED
  BY <1>1, <1>3 DEF r

\* The orders a finite set may be listed in are sequences of its elements.
LEMMA ListFacts ==
  ASSUME NEW S, IsFiniteSet(S), NEW q \in SetToSeqs(S)
  PROVE  q \in Seq(S) /\ Range(q) \subseteq S
<1>1. Cardinality(S) \in Nat
  BY FS_CardinalityType
<1>2. q \in [1 .. Cardinality(S) -> S]
  BY DEF SetToSeqs
<1> QED
  BY <1>1, <1>2 DEF Range

-----------------------------------------------------------------------------
(* A task has one outcome.                                                 *)

core == <<retained, gated, line, ends, managed, inbox, handling, server>>

LEMMA OutcomeInit == Init => OutcomeInv
<1> SUFFICES ASSUME Init PROVE OutcomeInv
  OBVIOUS
<1>1. due \subseteq Tasks
  BY AppsAssumption DEF Init
<1>2. IsFiniteSet({})
  BY FS_EmptySet
<1>3. Ended = {} /\ Range(<<>>) = {}
  BY DEF Init, Ended, Range
<1>4. QueuesOK
  BY <1>1, <1>2 DEF Init, QueuesOK
<1>5. GivenInv /\ ReportInv /\ ReplyInv
  BY <1>3 DEF Init, GivenInv, ReportInv, ReplyInv
<1>6. OneOutcome /\ AckInv /\ InitInv /\ AssignInv
  BY DEF Init, OneOutcome, AckInv, InitInv, AssignInv
<1> QED
  BY <1>4, <1>5, <1>6 DEF OutcomeInv

\* The invariant is about the reports, the messages and the replies.
LEMMA CoreSame == OutcomeInv /\ UNCHANGED core => OutcomeInv'
<1> SUFFICES ASSUME OutcomeInv, UNCHANGED core PROVE OutcomeInv'
  OBVIOUS
<1> USE DEF core, handling, server, Ended, HasRetainedTerminalReport, Inquired, AsksOf, Assigns, Acks
<1>1. QueuesOK' /\ OneOutcome'
  BY DEF OutcomeInv, QueuesOK, OneOutcome
<1>2. GivenInv' /\ ReportInv'
  BY DEF OutcomeInv, GivenInv, ReportInv
<1>3. ReplyInv' /\ AckInv'
  BY DEF OutcomeInv, ReplyInv, AckInv
<1>4. InitInv' /\ AssignInv'
  BY DEF OutcomeInv, InitInv, AssignInv
<1> QED
  BY <1>1, <1>2, <1>3, <1>4 DEF OutcomeInv

\* A report goes out for a task that has no outcome, or it is refused at the gate.
LEMMA Dispatched ==
  ASSUME OutcomeInv, NEW t \in Tasks, NEW why \in {"own", "critical"}, Adispatch(t, why),
         t \in given, t \in gated \/ t \notin Ended,
         \A i \in DOMAIN inbox : ~Assigns(i, t),
         UNCHANGED <<inbox, server, replying>>, managed' \subseteq managed,
         inquiries' \in Seq(Tasks), Range(inquiries') \subseteq Range(inquiries),
         replying \/ inquiries' = <<>>,
         checking' # "no" => inquiries' # <<>> /\ Inquired' \in managed' \cup gated'
  PROVE  OutcomeInv'
<1> DEFINE new == retained' \ retained
<1>1. /\ \A x \in Ended' : x \in Ended \/ (x = t /\ HasRetainedTerminalReport(t)')
      /\ Ended \subseteq Ended' /\ retained \subseteq retained' /\ gated \subseteq gated'
      /\ \A x : HasRetainedTerminalReport(x) => HasRetainedTerminalReport(x)'
  BY DEF Adispatch, report, server, Ended, HasRetainedTerminalReport
<1>2. QueuesOK'
  <2>1. CASE t \in gated
    BY <2>1 DEF Adispatch, report, server, QueuesOK, OutcomeInv
  <2>2. CASE t \notin gated
    <3> DEFINE frame == [task |-> t, why |-> why, nr |-> ends + 1]
    <3>1. frame \in End
      BY DEF End, OutcomeInv, QueuesOK
    <3>2. retained' = retained \cup {frame} /\ ends' = ends + 1 /\ line' \in {line, Append(line, frame)}
      BY <2>2 DEF Adispatch
    <3>3. IsFiniteSet(retained')
      BY <3>2, FS_AddElement DEF OutcomeInv, QueuesOK
    <3> HIDE DEF frame
    <3>4. line' \in Seq(End)
      <4>1. Append(line, frame) \in Seq(End) /\ line \in Seq(End)
        BY <3>1, AppendFacts DEF OutcomeInv, QueuesOK
      <4> QED
        BY <4>1, <3>2
    <3> QED
      BY <3>1, <3>2, <3>3, <3>4 DEF OutcomeInv, QueuesOK, server
  <2> QED
    BY <2>1, <2>2
<1>3. OneOutcome'
  BY DEF Adispatch, report, server, OutcomeInv, OneOutcome, Ended, ReportInv
<1>4. GivenInv'
  BY <1>1 DEF OutcomeInv, GivenInv, server, AsksOf, Assigns
<1>5. ReportInv'
  <2>1. managed' \cap Ended' \subseteq gated'
    <3>1. CASE t \in gated
      BY <3>1, <1>1 DEF Adispatch, report, OutcomeInv, ReportInv
    <3>2. CASE t \notin gated
      BY <3>2, <1>1 DEF Adispatch, OutcomeInv, ReportInv
    <3> QED
      BY <3>1, <3>2
  <2>2. Range(line') \subseteq retained' \cup projected'
    <3>1. CASE t \in gated
      BY <3>1 DEF Adispatch, report, server, OutcomeInv, ReportInv
    <3>2. CASE t \notin gated
      <4> DEFINE frame == [task |-> t, why |-> why, nr |-> ends + 1]
      <4>1. frame \in End
        BY DEF End, OutcomeInv, QueuesOK
      <4>2. retained' = retained \cup {frame} /\ line' \in {line, Append(line, frame)}
        BY <3>2 DEF Adispatch
      <4> HIDE DEF frame
      <4>3. Range(line') \subseteq Range(line) \cup {frame}
        BY <4>1, <4>2, AppendFacts DEF OutcomeInv, QueuesOK
      <4> QED
        BY <4>2, <4>3 DEF OutcomeInv, ReportInv, server
    <3> QED
      BY <3>1, <3>2
  <2> QED
    BY <2>1, <2>2 DEF ReportInv
<1>6. ReplyInv'
  BY <1>1 DEF OutcomeInv, ReplyInv
<1>7. AckInv'
  BY DEF OutcomeInv, AckInv, server
<1>8. InitInv'
  <2> SUFFICES ASSUME NEW i \in DOMAIN inbox, NEW x \in AsksOf(i), x \in Ended'
               PROVE  /\ HasRetainedTerminalReport(x)'
                      /\ \A j \in DOMAIN inbox : j < i => ~Acks(j, x)
    BY DEF InitInv, AsksOf, Acks
  <2>1. CASE x \in Ended
    BY <1>1, <2>1 DEF OutcomeInv, InitInv
  <2>2. CASE x \notin Ended
    <3>1. HasRetainedTerminalReport(x)'
      BY <1>1, <2>2
    <3>2. \A j \in DOMAIN inbox : ~Acks(j, x)
      BY <2>2 DEF OutcomeInv, AckInv, Acks, Ended
    <3> QED
      BY <3>1, <3>2
  <2> QED
    BY <2>1, <2>2
<1>9. AssignInv'
  BY <1>1 DEF OutcomeInv, AssignInv, Assigns, AsksOf
<1> QED
  BY <1>2, <1>3, <1>4, <1>5, <1>6, <1>7, <1>8, <1>9 DEF OutcomeInv

\* The replies to an Init's inquiries get fewer, and say only what is known.
LEMMA Replied ==
  ASSUME OutcomeInv, UNCHANGED <<report, managed, inbox, server>>,
         inquiries' \in Seq(Tasks), Range(inquiries') \subseteq Range(inquiries),
         replying' \/ inquiries' = <<>>,
         checking' # "no" => inquiries' # <<>> /\ Inquired' \in managed \cup gated
  PROVE  OutcomeInv'
<1> USE DEF report, server, Ended, HasRetainedTerminalReport, AsksOf, Assigns, Acks
<1>1. QueuesOK' /\ OneOutcome'
  BY DEF OutcomeInv, QueuesOK, OneOutcome
<1>2. GivenInv' /\ ReportInv'
  BY DEF OutcomeInv, GivenInv, ReportInv
<1>3. ReplyInv' /\ AckInv'
  BY DEF OutcomeInv, ReplyInv, AckInv
<1>4. InitInv' /\ AssignInv'
  BY DEF OutcomeInv, InitInv, AssignInv
<1> QED
  BY <1>1, <1>2, <1>3, <1>4 DEF OutcomeInv

\* An agent that ends takes its tasks, its gates and its messages with it.
LEMMA AgentEndsKeeps == OutcomeInv /\ AgentEnds => OutcomeInv'
<1> SUFFICES ASSUME OutcomeInv, AgentEnds PROVE OutcomeInv'
  OBVIOUS
<1>1. DOMAIN <<>> = {} /\ Range(<<>>) = {}
  BY DEF Range
<1>2. inbox' = <<>> /\ inquiries' = <<>> /\ line' = <<>> /\ Ended' = Ended
  BY DEF AgentEnds, server, Ended
<1>3. QueuesOK' /\ OneOutcome'
  BY DEF AgentEnds, server, OutcomeInv, QueuesOK, OneOutcome
<1>4. GivenInv' /\ ReportInv' /\ ReplyInv'
  BY <1>1, <1>2 DEF AgentEnds, server, OutcomeInv, GivenInv, ReportInv, ReplyInv
<1>5. AckInv' /\ InitInv' /\ AssignInv'
  BY <1>1, <1>2 DEF AckInv, InitInv, AssignInv
<1> QED
  BY <1>3, <1>4, <1>5 DEF OutcomeInv

\* A connection that drops takes what is on the line.
LEMMA DropKeeps == OutcomeInv /\ Drop => OutcomeInv'
<1> SUFFICES ASSUME OutcomeInv, Drop PROVE OutcomeInv'
  OBVIOUS
<1> USE DEF Drop, work, handling, server, Ended, HasRetainedTerminalReport, Inquired, AsksOf, Assigns, Acks
<1>1. Range(line') = {}
  BY DEF Range
<1>2. QueuesOK' /\ OneOutcome'
  BY DEF OutcomeInv, QueuesOK, OneOutcome
<1>3. GivenInv' /\ ReportInv'
  BY <1>1 DEF OutcomeInv, GivenInv, ReportInv
<1>4. ReplyInv' /\ AckInv'
  BY DEF OutcomeInv, ReplyInv, AckInv
<1>5. InitInv' /\ AssignInv'
  BY DEF OutcomeInv, InitInv, AssignInv
<1> QED
  BY <1>2, <1>3, <1>4, <1>5 DEF OutcomeInv

-----------------------------------------------------------------------------
(* The tasks' reports and the replies.                                     *)

\* A task that ends is managed, so the gate knows it if it has an outcome.
LEMMA ReportsEndKeeps == ASSUME OutcomeInv, NEW t \in Tasks, ReportsEnd(t) PROVE OutcomeInv'
<1>1. t \in managed /\ Adispatch(t, "own") /\ managed' = managed \ {t}
  BY DEF ReportsEnd
<1>2. t \in given /\ (t \in gated \/ t \notin Ended)
  BY <1>1 DEF OutcomeInv, GivenInv, ReportInv
<1>3. \A i \in DOMAIN inbox : ~Assigns(i, t)
  BY <1>1 DEF OutcomeInv, AssignInv
<1>4. t \in gated'
  BY <1>1 DEF Adispatch, report
<1>5. \A x \in gated : x \in gated'
  BY <1>1 DEF Adispatch, report
<1>6. UNCHANGED <<inbox, server, replying, inquiries, checking>>
  BY DEF ReportsEnd, handling
<1>7. inquiries' \in Seq(Tasks) /\ (replying \/ inquiries' = <<>>)
  BY <1>6 DEF OutcomeInv, QueuesOK, ReplyInv
<1>8. checking' # "no" => inquiries' # <<>> /\ Inquired' \in managed' \cup gated'
  BY <1>1, <1>4, <1>5, <1>6 DEF OutcomeInv, ReplyInv, Inquired
<1> QED
  BY <1>1, <1>2, <1>3, <1>6, <1>7, <1>8, Dispatched

\* What is answered is an inquiry of this Init: a task the server takes for open,
\* which has ended only by a report still retained.
LEMMA InquireKeeps == OutcomeInv /\ Inquire => OutcomeInv'
<1> SUFFICES ASSUME OutcomeInv, Inquire PROVE OutcomeInv'
  OBVIOUS
<1>1. replying /\ inquiries # <<>> /\ checking = "no" /\ inquiries \in Seq(Tasks)
      /\ UNCHANGED <<managed, inbox, replying, server>>
  BY DEF Inquire, work, OutcomeInv, QueuesOK
<1>2. /\ Inquired \in Tasks /\ Inquired \in Range(inquiries)
      /\ Tail(inquiries) \in Seq(Tasks) /\ Range(Tail(inquiries)) \subseteq Range(inquiries)
  BY <1>1, TailFacts DEF Inquired, Range
<1>3. CASE InquiryOfEnded
  BY <1>1, <1>2, <1>3, Replied DEF InquiryOfEnded
<1>4. CASE ~HasRetainedTerminalReport(Inquired) /\ InquiryOfUnknown
  <2>1. Inquired \notin Ended /\ Inquired \in given
    BY <1>2, <1>4 DEF OutcomeInv, ReplyInv, GivenInv
  <2>2. \A i \in DOMAIN inbox : ~Assigns(i, Inquired)
    BY <1>2 DEF OutcomeInv, AssignInv
  <2> QED
    BY <1>1, <1>2, <1>4, <2>1, <2>2, Dispatched DEF InquiryOfUnknown
<1>5. CASE InquiryOfManaged
  <2>1. UNCHANGED report /\ inquiries' = inquiries /\ Inquired' = Inquired /\ Inquired \in managed
    BY <1>5 DEF InquiryOfManaged, Inquired
  <2> QED
    BY <1>1, <2>1, Replied
<1> QED
  BY <1>3, <1>4, <1>5 DEF Inquire

\* The actor was asked about a task that was managed: if it has ended since, its
\* gate is closed.
LEMMA AnswerKeeps == OutcomeInv /\ Answer => OutcomeInv'
<1> SUFFICES ASSUME OutcomeInv, Answer PROVE OutcomeInv'
  OBVIOUS
<1>1. /\ checking # "no" /\ checking' = "no" /\ inquiries' = Tail(inquiries)
      /\ inquiries # <<>> /\ inquiries \in Seq(Tasks)
      /\ replying /\ Inquired \in managed \cup gated
      /\ UNCHANGED <<managed, inbox, replying, server>>
  BY DEF Answer, work, OutcomeInv, QueuesOK, ReplyInv
<1>2. /\ Inquired \in Tasks /\ Inquired \in Range(inquiries)
      /\ Tail(inquiries) \in Seq(Tasks) /\ Range(Tail(inquiries)) \subseteq Range(inquiries)
  BY <1>1, TailFacts DEF Inquired, Range
<1>3. CASE UNCHANGED report
  BY <1>1, <1>2, <1>3, Replied
<1>4. CASE Adispatch(Inquired, "critical")
  <2>1. Inquired \in given /\ (Inquired \in gated \/ Inquired \notin Ended)
    BY <1>1, <1>2 DEF OutcomeInv, ReportInv, GivenInv
  <2>2. \A i \in DOMAIN inbox : ~Assigns(i, Inquired)
    BY <1>2 DEF OutcomeInv, AssignInv
  <2> QED
    BY <1>1, <1>2, <1>4, <2>1, <2>2, Dispatched
<1> QED
  BY <1>3, <1>4 DEF Answer

\* Asking the actor, and having asked about all, change no report.
LEMMA CheckKeeps == OutcomeInv /\ (Check \/ AllAnswered) => OutcomeInv'
<1> SUFFICES ASSUME OutcomeInv, Check \/ AllAnswered PROVE OutcomeInv'
  OBVIOUS
<1>1. UNCHANGED <<report, managed, inbox, server, inquiries>> /\ Inquired' = Inquired
  BY DEF Check, AllAnswered, work, Inquired
<1>2. inquiries' \in Seq(Tasks) /\ (replying' \/ inquiries' = <<>>)
  BY <1>1 DEF Check, AllAnswered, OutcomeInv, QueuesOK, ReplyInv
<1>3. checking' # "no" => inquiries' # <<>> /\ Inquired' \in managed \cup gated
  BY <1>1 DEF Check, AllAnswered, OutcomeInv, ReplyInv
<1> QED
  BY <1>1, <1>2, <1>3, Replied

-----------------------------------------------------------------------------
(* The messages.                                                           *)

\* The kinds of message: each has its own fields.
LEMMA Kinds ==
  ASSUME NEW m \in Messages
  PROVE  /\ m.type = "INIT" => m.inquiries \in Seq(Tasks)
         /\ m.type = "ASSIGN" => m.task \in Tasks
         /\ m.type = "JOURNAL_ACK" => m.frame \in End /\ m.frame.task \in Tasks
BY DEF Messages, End

\* When the first message is taken, the rest say what they said, one place on.
LEMMA Popped ==
  ASSUME inbox \in Seq(Messages), inbox # <<>>, inbox' = Tail(inbox)
  PROVE  /\ 1 \in DOMAIN inbox /\ Head(inbox) = inbox[1] /\ Head(inbox) \in Messages
         /\ inbox' \in Seq(Messages)
         /\ \A i \in DOMAIN inbox' :
               /\ i \in Nat /\ 1 < i + 1 /\ i + 1 # 1 /\ i + 1 \in DOMAIN inbox
               /\ inbox'[i] = inbox[i + 1] /\ AsksOf(i)' = AsksOf(i + 1)
               /\ \A t \in Tasks : Assigns(i, t)' <=> Assigns(i + 1, t)
               /\ \A t \in Tasks : Acks(i, t)' <=> Acks(i + 1, t)
         /\ \A i, j \in DOMAIN inbox' : /\ j < i => j + 1 < i + 1
                                        /\ j # i => j + 1 # i + 1
<1>1. /\ 1 \in DOMAIN inbox /\ Head(inbox) = inbox[1] /\ Head(inbox) \in Messages
      /\ inbox' \in Seq(Messages)
      /\ \A i \in DOMAIN inbox' :
            i \in Nat /\ i >= 1 /\ i + 1 \in DOMAIN inbox /\ inbox'[i] = inbox[i + 1]
  BY TailFacts
<1>2. \A i \in DOMAIN inbox' : 1 < i + 1 /\ i + 1 # 1
  BY <1>1
<1>3. \A i, j \in DOMAIN inbox' : (j < i => j + 1 < i + 1) /\ (j # i => j + 1 # i + 1)
  BY <1>1
<1> QED
  BY <1>1, <1>2, <1>3 DEF AsksOf, Assigns, Acks

\* When a message arrives, the earlier ones say what they said.
LEMMA Pushed ==
  ASSUME inbox \in Seq(Messages), NEW m \in Messages, inbox' = Append(inbox, m)
  PROVE  /\ inbox' \in Seq(Messages)
         /\ \A i \in DOMAIN inbox' :
               \/ /\ i \in DOMAIN inbox /\ inbox'[i] = inbox[i] /\ AsksOf(i)' = AsksOf(i)
                  /\ \A t \in Tasks : Assigns(i, t)' <=> Assigns(i, t)
                  /\ \A t \in Tasks : Acks(i, t)' <=> Acks(i, t)
               \/ i = Len(inbox) + 1 /\ inbox'[i] = m
         /\ \A i \in DOMAIN inbox : ~(Len(inbox) + 1 < i) /\ Len(inbox) + 1 # i
         /\ ~(Len(inbox) + 1 < Len(inbox) + 1)
<1>1. /\ inbox' \in Seq(Messages) /\ Len(inbox) \in Nat
      /\ \A i \in DOMAIN inbox' : \/ i \in DOMAIN inbox /\ inbox'[i] = inbox[i]
                                  \/ i = Len(inbox) + 1 /\ inbox'[i] = m
      /\ \A i \in DOMAIN inbox : i \in Nat /\ i < Len(inbox) + 1
  BY AppendFacts
<1>2. \A i \in DOMAIN inbox : ~(Len(inbox) + 1 < i) /\ Len(inbox) + 1 # i
  BY <1>1
<1> QED
  BY <1>1, <1>2 DEF AsksOf, Assigns, Acks

\* An Init's inquiries are about tasks no later message assigns, that have ended only
\* by a report still retained.
LEMMA HandleInitKeeps == OutcomeInv /\ HandleInit => OutcomeInv'
<1> SUFFICES ASSUME OutcomeInv, HandleInit PROVE OutcomeInv'
  OBVIOUS
<1> DEFINE m == Head(inbox)
<1>1. /\ inbox \in Seq(Messages) /\ inbox # <<>> /\ inbox' = Tail(inbox) /\ m.type = "INIT"
      /\ ~replying /\ replying' /\ inquiries' = m.inquiries
      /\ UNCHANGED <<retained, gated, ends, managed, checking, due, given, projected>>
  BY DEF HandleInit, Receives, work, server, OutcomeInv, QueuesOK
<1>2. /\ 1 \in DOMAIN inbox /\ m = inbox[1] /\ m \in Messages
      /\ m.inquiries \in Seq(Tasks) /\ Range(m.inquiries) = AsksOf(1) /\ AsksOf(1) \subseteq Tasks
  <2>1. 1 \in DOMAIN inbox /\ m = inbox[1] /\ m \in Messages
    BY <1>1, Popped
  <2>2. m.inquiries \in Seq(Tasks) /\ Range(m.inquiries) = AsksOf(1)
    BY <1>1, <2>1, Kinds DEF AsksOf
  <2>3. Range(m.inquiries) \subseteq Tasks
    BY <2>2 DEF Range
  <2> QED
    BY <2>1, <2>2, <2>3
<1> HIDE DEF m
<1>3. Ended' = Ended /\ \A t : HasRetainedTerminalReport(t)' <=> HasRetainedTerminalReport(t)
  BY <1>1 DEF Ended, HasRetainedTerminalReport
<1>4. line' \in Seq(End) /\ Range(line') \subseteq retained \cup projected
  <2>1. PICK resent \in SetToSeqs(retained) : line' = IF up THEN line \o resent ELSE line
    BY DEF HandleInit
  <2>2. IsFiniteSet(retained) /\ retained \subseteq End /\ line \in Seq(End)
        /\ Range(line) \subseteq retained \cup projected
    BY DEF OutcomeInv, QueuesOK, ReportInv
  <2>3. resent \in Seq(retained) /\ Range(resent) \subseteq retained
    BY <2>1, <2>2, ListFacts
  <2>4. resent \in Seq(End)
    BY <2>2, <2>3
  <2>5. line \o resent \in Seq(End) /\ Range(line \o resent) \subseteq Range(line) \cup Range(resent)
    BY <2>2, <2>4, ConcatFacts
  <2> QED
    BY <2>1, <2>2, <2>3, <2>5
<1>5. QueuesOK' /\ OneOutcome'
  BY <1>1, <1>2, <1>4, Popped DEF OutcomeInv, QueuesOK, OneOutcome
<1>6. GivenInv'
  BY <1>1, <1>2, <1>3, Popped DEF OutcomeInv, GivenInv
<1>7. ReportInv'
  BY <1>1, <1>3, <1>4 DEF OutcomeInv, ReportInv
<1>8. ReplyInv'
  BY <1>1, <1>2, <1>3 DEF OutcomeInv, ReplyInv, InitInv
<1>9. AckInv'
  BY <1>1, Popped DEF OutcomeInv, AckInv
<1>10. InitInv'
  <2> SUFFICES ASSUME NEW i \in DOMAIN inbox', NEW t \in AsksOf(i)', t \in Ended
               PROVE  /\ HasRetainedTerminalReport(t)
                      /\ \A j \in DOMAIN inbox' : j < i => ~Acks(j, t)'
    BY <1>3 DEF InitInv
  <2>1. i + 1 \in DOMAIN inbox /\ t \in AsksOf(i + 1)
    BY <1>1, Popped
  <2>2. t \in Tasks
    BY <2>1 DEF OutcomeInv, GivenInv, QueuesOK
  <2>3. ASSUME NEW j \in DOMAIN inbox', j < i PROVE ~Acks(j, t)'
    BY <1>1, <2>1, <2>2, <2>3, Popped DEF OutcomeInv, InitInv
  <2> QED
    BY <2>1, <2>3 DEF OutcomeInv, InitInv
<1>11. AssignInv'
  <2> SUFFICES ASSUME NEW i \in DOMAIN inbox', NEW t \in Tasks, Assigns(i, t)'
               PROVE  /\ t \notin Ended \cup managed \cup AsksOf(1)
                      /\ \A j \in DOMAIN inbox' : /\ j < i => t \notin AsksOf(j)'
                                                  /\ j # i => ~Assigns(j, t)'
    BY <1>1, <1>2, <1>3 DEF AssignInv
  <2>1. i + 1 \in DOMAIN inbox /\ Assigns(i + 1, t) /\ 1 < i + 1
    BY <1>1, Popped
  <2>2. t \notin Ended \cup managed \cup AsksOf(1)
    BY <1>2, <2>1 DEF OutcomeInv, AssignInv
  <2>3. ASSUME NEW j \in DOMAIN inbox'
        PROVE  (j < i => t \notin AsksOf(j)') /\ (j # i => ~Assigns(j, t)')
    BY <1>1, <2>1, Popped DEF OutcomeInv, AssignInv
  <2> QED
    BY <2>2, <2>3
<1> QED
  BY <1>5, <1>6, <1>7, <1>8, <1>9, <1>10, <1>11 DEF OutcomeInv

\* The task that is assigned is new to the agent: no other message is about it.
LEMMA HandleAssignKeeps == OutcomeInv /\ HandleAssign => OutcomeInv'
<1> SUFFICES ASSUME OutcomeInv, HandleAssign PROVE OutcomeInv'
  OBVIOUS
<1> DEFINE new == Head(inbox).task
<1>1. /\ inbox \in Seq(Messages) /\ inbox # <<>> /\ inbox' = Tail(inbox) /\ Head(inbox).type = "ASSIGN"
      /\ managed' = managed \cup {new}
      /\ UNCHANGED <<report, handling, server>>
  BY DEF HandleAssign, Receives, OutcomeInv, QueuesOK
<1>2. 1 \in DOMAIN inbox /\ new \in Tasks /\ Assigns(1, new)
  BY <1>1, Popped, Kinds DEF Assigns
<1> HIDE DEF new
<1>3. /\ UNCHANGED <<retained, gated, line, ends, replying, inquiries, checking, due, given, projected>>
      /\ Ended' = Ended /\ Inquired' = Inquired
      /\ \A t : HasRetainedTerminalReport(t)' <=> HasRetainedTerminalReport(t)
  BY <1>1 DEF report, handling, server, Ended, Inquired, HasRetainedTerminalReport
<1>4. new \in given /\ new \notin Ended
  BY <1>2 DEF OutcomeInv, GivenInv, AssignInv
<1>5. QueuesOK' /\ OneOutcome'
  BY <1>1, <1>2, <1>3, Popped DEF OutcomeInv, QueuesOK, OneOutcome
<1>6. GivenInv'
  BY <1>1, <1>3, <1>4, Popped DEF OutcomeInv, GivenInv
<1>7. ReportInv' /\ ReplyInv'
  BY <1>1, <1>3, <1>4 DEF OutcomeInv, ReportInv, ReplyInv
<1>8. AckInv'
  BY <1>1, <1>3, Popped DEF OutcomeInv, AckInv
<1>9. InitInv'
  <2> SUFFICES ASSUME NEW i \in DOMAIN inbox', NEW t \in AsksOf(i)', t \in Ended
               PROVE  /\ HasRetainedTerminalReport(t)
                      /\ \A j \in DOMAIN inbox' : j < i => ~Acks(j, t)'
    BY <1>3 DEF InitInv
  <2>1. i + 1 \in DOMAIN inbox /\ t \in AsksOf(i + 1)
    BY <1>1, Popped
  <2>2. t \in Tasks
    BY <2>1 DEF OutcomeInv, GivenInv, QueuesOK
  <2>3. ASSUME NEW j \in DOMAIN inbox', j < i PROVE ~Acks(j, t)'
    BY <1>1, <2>1, <2>2, <2>3, Popped DEF OutcomeInv, InitInv
  <2> QED
    BY <2>1, <2>3 DEF OutcomeInv, InitInv
<1>10. AssignInv'
  <2> SUFFICES ASSUME NEW i \in DOMAIN inbox', NEW t \in Tasks, Assigns(i, t)'
               PROVE  /\ t \notin Ended \cup managed' \cup Range(inquiries)
                      /\ \A j \in DOMAIN inbox' : /\ j < i => t \notin AsksOf(j)'
                                                  /\ j # i => ~Assigns(j, t)'
    BY <1>3 DEF AssignInv
  <2>1. i + 1 \in DOMAIN inbox /\ Assigns(i + 1, t) /\ 1 # i + 1
    BY <1>1, Popped
  <2>2. t \notin Ended \cup managed' \cup Range(inquiries)
    BY <1>1, <1>2, <2>1 DEF OutcomeInv, AssignInv
  <2>3. ASSUME NEW j \in DOMAIN inbox'
        PROVE  (j < i => t \notin AsksOf(j)') /\ (j # i => ~Assigns(j, t)')
    BY <1>1, <2>1, Popped DEF OutcomeInv, AssignInv
  <2> QED
    BY <2>2, <2>3
<1> QED
  BY <1>5, <1>6, <1>7, <1>8, <1>9, <1>10 DEF OutcomeInv

\* A report that is acknowledged is in the server's log: its task stays ended, and no
\* Init behind the ack asks about it.
LEMMA HandleAckKeeps == OutcomeInv /\ HandleAck => OutcomeInv'
<1> SUFFICES ASSUME OutcomeInv, HandleAck PROVE OutcomeInv'
  OBVIOUS
<1> DEFINE acked == Head(inbox).frame
<1>1. /\ inbox \in Seq(Messages) /\ inbox # <<>> /\ inbox' = Tail(inbox)
      /\ Head(inbox).type = "JOURNAL_ACK" /\ ~replying
      /\ retained' = retained \ {acked}
      /\ UNCHANGED <<gated, line, ends, managed, replying, inquiries, checking, due, given, projected>>
  BY DEF HandleAck, Receives, work, handling, server, OutcomeInv, QueuesOK
<1>2. 1 \in DOMAIN inbox /\ inbox[1] = Head(inbox) /\ acked \in End /\ acked \in projected
  BY <1>1, Popped, Kinds DEF OutcomeInv, AckInv
<1>3. Acks(1, acked.task) /\ acked.task \in Tasks
  BY <1>1, <1>2 DEF Acks, End
<1> HIDE DEF acked
<1>4. Ended' = Ended
  BY <1>1, <1>2 DEF Ended
<1>5. QueuesOK' /\ OneOutcome'
  <2>1. IsFiniteSet(retained')
    BY <1>1, FS_Subset DEF OutcomeInv, QueuesOK
  <2> QED
    BY <1>1, <2>1, Popped DEF OutcomeInv, QueuesOK, OneOutcome
<1>6. GivenInv'
  BY <1>1, <1>4, Popped DEF OutcomeInv, GivenInv
<1>7. ReportInv'
  BY <1>1, <1>2, <1>4 DEF OutcomeInv, ReportInv
<1>8. ReplyInv'
  <2>1. inquiries = <<>> /\ checking = "no" /\ Range(<<>>) = {}
    BY <1>1 DEF OutcomeInv, ReplyInv, Range
  <2> QED
    BY <1>1, <2>1 DEF ReplyInv
<1>9. AckInv'
  BY <1>1, Popped DEF OutcomeInv, AckInv
<1>10. InitInv'
  <2> SUFFICES ASSUME NEW i \in DOMAIN inbox', NEW t \in AsksOf(i)', t \in Ended
               PROVE  /\ HasRetainedTerminalReport(t)'
                      /\ \A j \in DOMAIN inbox' : j < i => ~Acks(j, t)'
    BY <1>4 DEF InitInv
  <2>1. i + 1 \in DOMAIN inbox /\ t \in AsksOf(i + 1) /\ 1 < i + 1
    BY <1>1, Popped
  <2>2. t \in Tasks
    BY <2>1 DEF OutcomeInv, GivenInv, QueuesOK
  <2>3. HasRetainedTerminalReport(t) /\ t # acked.task
    BY <1>2, <1>3, <2>1 DEF OutcomeInv, InitInv
  <2>4. HasRetainedTerminalReport(t)'
    BY <1>1, <2>3 DEF HasRetainedTerminalReport
  <2>5. ASSUME NEW j \in DOMAIN inbox', j < i PROVE ~Acks(j, t)'
    BY <1>1, <2>1, <2>2, <2>5, Popped DEF OutcomeInv, InitInv
  <2> QED
    BY <2>4, <2>5
<1>11. AssignInv'
  <2> SUFFICES ASSUME NEW i \in DOMAIN inbox', NEW t \in Tasks, Assigns(i, t)'
               PROVE  /\ t \notin Ended \cup managed \cup Range(inquiries)
                      /\ \A j \in DOMAIN inbox' : /\ j < i => t \notin AsksOf(j)'
                                                  /\ j # i => ~Assigns(j, t)'
    BY <1>1, <1>4 DEF AssignInv
  <2>1. i + 1 \in DOMAIN inbox /\ Assigns(i + 1, t)
    BY <1>1, Popped
  <2>2. ASSUME NEW j \in DOMAIN inbox'
        PROVE  (j < i => t \notin AsksOf(j)') /\ (j # i => ~Assigns(j, t)')
    BY <1>1, <2>1, Popped DEF OutcomeInv, AssignInv
  <2> QED
    BY <2>1, <2>2 DEF OutcomeInv, AssignInv
<1> QED
  BY <1>5, <1>6, <1>7, <1>8, <1>9, <1>10, <1>11 DEF OutcomeInv

-----------------------------------------------------------------------------
(* The server.                                                             *)

\* The server inquires about tasks it assigned and has no end of.
LEMMA ServerInitKeeps == OutcomeInv /\ ServerInit => OutcomeInv'
<1> SUFFICES ASSUME OutcomeInv, ServerInit PROVE OutcomeInv'
  OBVIOUS
<1>1. PICK tasks \in SetToSeqs(Open) :
         inbox' = Append(inbox, [type |-> "INIT", inquiries |-> tasks])
  BY DEF ServerInit
<1> DEFINE m == [type |-> "INIT", inquiries |-> tasks]
<1>2. inbox \in Seq(Messages) /\ Open \subseteq Tasks
  BY DEF OutcomeInv, QueuesOK, Open
<1>3. tasks \in Seq(Tasks) /\ Range(tasks) \subseteq Open
  <2>1. IsFiniteSet(Open)
    BY <1>2, TasksAssumption, FS_Subset
  <2>2. tasks \in Seq(Open) /\ Range(tasks) \subseteq Open
    BY <2>1, ListFacts
  <2> QED
    BY <1>2, <2>2
<1>4. m \in Messages /\ m.type = "INIT" /\ Range(m.inquiries) \subseteq Open /\ inbox' = Append(inbox, m)
  BY <1>1, <1>3 DEF Messages
<1> HIDE DEF m
<1> DEFINE last == Len(inbox) + 1
<1>5. \A i, t : inbox'[i] = m => /\ ~Assigns(i, t)' /\ ~Acks(i, t)'
                                 /\ AsksOf(i)' \subseteq Open
  BY <1>4 DEF Assigns, Acks, AsksOf
<1> HIDE DEF last
<1>6. /\ inbox' \in Seq(Messages)
      /\ \A i \in DOMAIN inbox' :
            \/ /\ i \in DOMAIN inbox /\ inbox'[i] = inbox[i] /\ AsksOf(i)' = AsksOf(i)
               /\ \A t \in Tasks : Assigns(i, t)' <=> Assigns(i, t)
               /\ \A t \in Tasks : Acks(i, t)' <=> Acks(i, t)
            \/ i = last /\ inbox'[i] = m
      /\ \A i \in DOMAIN inbox : ~(last < i) /\ last # i
      /\ ~(last < last)
  BY <1>2, <1>4, Pushed DEF last
<1>7. /\ UNCHANGED <<report, managed, handling, server>> /\ Ended' = Ended /\ Inquired' = Inquired
      /\ \A t : HasRetainedTerminalReport(t)' <=> HasRetainedTerminalReport(t)
  BY DEF ServerInit, work, report, handling, server, Ended, Inquired, HasRetainedTerminalReport
<1> USE DEF report, handling, server
<1>8. QueuesOK' /\ OneOutcome' /\ ReportInv' /\ ReplyInv'
  BY <1>6, <1>7 DEF OutcomeInv, QueuesOK, OneOutcome, ReportInv, ReplyInv
<1>9. GivenInv'
  BY <1>5, <1>6, <1>7 DEF OutcomeInv, GivenInv, Open
<1>10. AckInv'
  BY <1>4, <1>6, <1>7 DEF OutcomeInv, AckInv
<1>11. InitInv'
  <2> SUFFICES ASSUME NEW i \in DOMAIN inbox', NEW t \in AsksOf(i)', t \in Ended
               PROVE  /\ HasRetainedTerminalReport(t)
                      /\ \A j \in DOMAIN inbox' : j < i => ~Acks(j, t)'
    BY <1>7 DEF InitInv
  <2>1. t \in Tasks
    BY <1>9, <1>7 DEF GivenInv, OutcomeInv, QueuesOK
  <2>2. CASE i \in DOMAIN inbox /\ AsksOf(i)' = AsksOf(i)
    BY <1>6, <2>1, <2>2 DEF OutcomeInv, InitInv
  <2>3. CASE i = last /\ inbox'[i] = m
    <3>1. t \in Open
      BY <1>5, <2>3
    <3>2. \A j \in DOMAIN inbox : ~Acks(j, t)
      BY <3>1 DEF OutcomeInv, AckInv, Acks, Open
    <3>3. HasRetainedTerminalReport(t)
      BY <3>1 DEF Open, Ended, HasRetainedTerminalReport
    <3> QED
      BY <1>5, <1>6, <2>1, <2>3, <3>2, <3>3
  <2> QED
    BY <1>6, <2>2, <2>3
<1>12. AssignInv'
  <2> SUFFICES ASSUME NEW i \in DOMAIN inbox', NEW t \in Tasks, Assigns(i, t)'
               PROVE  /\ t \notin Ended \cup managed \cup Range(inquiries)
                      /\ \A j \in DOMAIN inbox' : /\ j < i => t \notin AsksOf(j)'
                                                  /\ j # i => ~Assigns(j, t)'
    BY <1>7 DEF AssignInv
  <2>1. i \in DOMAIN inbox /\ Assigns(i, t)
    BY <1>5, <1>6
  <2>2. ASSUME NEW j \in DOMAIN inbox'
        PROVE  (j < i => t \notin AsksOf(j)') /\ (j # i => ~Assigns(j, t)')
    BY <1>5, <1>6, <2>1 DEF OutcomeInv, AssignInv
  <2> QED
    BY <2>1, <2>2 DEF OutcomeInv, AssignInv
<1> QED
  BY <1>8, <1>9, <1>10, <1>11, <1>12 DEF OutcomeInv

\* What the server has yet to assign, nobody has heard of.
LEMMA ServerAssignKeeps == ASSUME OutcomeInv, NEW new \in Tasks, ServerAssign(new) PROVE OutcomeInv'
<1> DEFINE m == [type |-> "ASSIGN", task |-> new]
<1>1. /\ inbox \in Seq(Messages) /\ new \in due
      /\ due' = due \ {new} /\ given' = given \cup {new}
      /\ UNCHANGED <<retained, gated, ends, managed, replying, inquiries, checking, projected>>
      /\ line' \in {line, <<>>}
      /\ inbox' \in {inbox, Append(inbox, m)}
  BY DEF ServerAssign, Deliver, work, handling, OutcomeInv, QueuesOK
<1>2. /\ new \notin given /\ new \notin Ended /\ new \notin managed /\ new \notin Range(inquiries)
      /\ \A i \in DOMAIN inbox : new \notin AsksOf(i) /\ ~Assigns(i, new)
  BY <1>1 DEF OutcomeInv, GivenInv
<1>3. m \in Messages /\ m.type = "ASSIGN" /\ m.task = new
  BY DEF Messages
<1> HIDE DEF m
<1>4. Ended' = Ended /\ Inquired' = Inquired
      /\ \A t : HasRetainedTerminalReport(t)' <=> HasRetainedTerminalReport(t)
  BY <1>1 DEF Ended, Inquired, HasRetainedTerminalReport
<1>5. line' \in Seq(End) /\ Range(line') \subseteq retained \cup projected
  <2>1. <<>> \in Seq(End) /\ Range(<<>>) = {}
    BY DEF Range
  <2> QED
    BY <1>1, <2>1 DEF OutcomeInv, QueuesOK, ReportInv
<1> DEFINE last == Len(inbox) + 1
<1>6. \A i, t : inbox'[i] = m => /\ Assigns(i, t)' => t = new
                                 /\ ~Acks(i, t)' /\ AsksOf(i)' = {}
  BY <1>3 DEF Assigns, Acks, AsksOf
<1> HIDE DEF last
<1>7. /\ inbox' \in Seq(Messages)
      /\ \A i \in DOMAIN inbox' :
            \/ /\ i \in DOMAIN inbox /\ inbox'[i] = inbox[i] /\ AsksOf(i)' = AsksOf(i)
               /\ \A t \in Tasks : Assigns(i, t)' <=> Assigns(i, t)
               /\ \A t \in Tasks : Acks(i, t)' <=> Acks(i, t)
            \/ i = last /\ inbox'[i] = m
      /\ \A i \in DOMAIN inbox : ~(last < i) /\ last # i
      /\ ~(last < last)
  <2>1. CASE inbox' = inbox
    <3>1. \A i \in DOMAIN inbox : ~(last < i) /\ last # i
      BY <1>1 DEF last
    <3>2. ~(last < last)
      BY <1>1 DEF last
    <3> QED
      BY <1>1, <2>1, <3>1, <3>2 DEF AsksOf, Assigns, Acks
  <2>2. CASE inbox' = Append(inbox, m)
    BY <1>1, <1>3, <2>2, Pushed DEF last
  <2> QED
    BY <1>1, <2>1, <2>2
<1>8. QueuesOK' /\ OneOutcome' /\ ReportInv' /\ ReplyInv'
  BY <1>1, <1>4, <1>5, <1>7 DEF OutcomeInv, QueuesOK, OneOutcome, ReportInv, ReplyInv
<1>9. GivenInv'
  <2>1. due' \cap given' = {} /\ managed' \subseteq given' /\ Ended' \subseteq given' /\ Range(inquiries') \subseteq given'
    BY <1>1, <1>4 DEF OutcomeInv, GivenInv
  <2>2. ASSUME NEW i \in DOMAIN inbox'
        PROVE  AsksOf(i)' \subseteq given' /\ \A t \in Tasks : Assigns(i, t)' => t \in given'
    BY <1>1, <1>6, <1>7 DEF OutcomeInv, GivenInv
  <2> QED
    BY <2>1, <2>2 DEF GivenInv
<1>10. AckInv'
  BY <1>1, <1>3, <1>7 DEF OutcomeInv, AckInv
<1>11. InitInv'
  <2> SUFFICES ASSUME NEW i \in DOMAIN inbox', NEW t \in AsksOf(i)', t \in Ended
               PROVE  /\ HasRetainedTerminalReport(t)
                      /\ \A j \in DOMAIN inbox' : j < i => ~Acks(j, t)'
    BY <1>4 DEF InitInv
  <2>1. i \in DOMAIN inbox /\ t \in AsksOf(i)
    BY <1>6, <1>7
  <2>2. t \in Tasks
    BY <2>1 DEF OutcomeInv, GivenInv, QueuesOK
  <2>3. ASSUME NEW j \in DOMAIN inbox', j < i PROVE ~Acks(j, t)'
    BY <1>7, <2>1, <2>2, <2>3 DEF OutcomeInv, InitInv
  <2> QED
    BY <2>1, <2>3 DEF OutcomeInv, InitInv
<1>12. AssignInv'
  <2> SUFFICES ASSUME NEW i \in DOMAIN inbox', NEW t \in Tasks, Assigns(i, t)'
               PROVE  /\ t \notin Ended \cup managed \cup Range(inquiries)
                      /\ \A j \in DOMAIN inbox' : /\ j < i => t \notin AsksOf(j)'
                                                  /\ j # i => ~Assigns(j, t)'
    BY <1>1, <1>4 DEF AssignInv
  <2>1. CASE i \in DOMAIN inbox /\ Assigns(i, t)
    <3>1. t # new
      BY <1>2, <2>1
    <3>2. ASSUME NEW j \in DOMAIN inbox'
          PROVE  (j < i => t \notin AsksOf(j)') /\ (j # i => ~Assigns(j, t)')
      BY <1>6, <1>7, <2>1, <3>1 DEF OutcomeInv, AssignInv
    <3> QED
      BY <2>1, <3>2 DEF OutcomeInv, AssignInv
  <2>2. CASE i = last /\ inbox'[i] = m
    <3>1. t = new
      BY <1>6, <2>2
    <3> QED
      BY <1>2, <1>7, <2>2, <3>1
  <2> QED
    BY <1>7, <2>1, <2>2
<1> QED
  BY <1>8, <1>9, <1>10, <1>11, <1>12 DEF OutcomeInv

\* What the server reads is a report the agent retains, or one it has read before;
\* its ack comes behind every Init that asks about the task.
LEMMA ServerReadKeeps == OutcomeInv /\ ServerRead => OutcomeInv'
<1> SUFFICES ASSUME OutcomeInv, ServerRead PROVE OutcomeInv'
  OBVIOUS
<1> DEFINE read == Head(line)
           m == [type |-> "JOURNAL_ACK", frame |-> read]
<1>1. /\ inbox \in Seq(Messages) /\ line \in Seq(End) /\ line # <<>>
      /\ projected' = projected \cup {read}
      /\ UNCHANGED <<retained, gated, ends, managed, replying, inquiries, checking, due, given>>
      /\ line' \in {Tail(line), <<>>}
      /\ inbox' \in {inbox, Append(inbox, m)}
  BY DEF ServerRead, Deliver, work, handling, OutcomeInv, QueuesOK
<1>2. /\ read \in End /\ read \in Range(line) /\ read \in retained \cup projected
      /\ Tail(line) \in Seq(End) /\ Range(Tail(line)) \subseteq Range(line)
  <2>1. 1 \in DOMAIN line /\ read = line[1] /\ read \in End
        /\ Tail(line) \in Seq(End) /\ Range(Tail(line)) \subseteq Range(line)
    BY <1>1, TailFacts
  <2>2. read \in Range(line)
    BY <2>1 DEF Range
  <2> QED
    BY <2>1, <2>2 DEF OutcomeInv, ReportInv
<1>3. m \in Messages /\ m.type = "JOURNAL_ACK" /\ m.frame = read
  BY <1>2 DEF Messages
<1> HIDE DEF read, m
<1>4. Ended' = Ended /\ Inquired' = Inquired
      /\ \A t : HasRetainedTerminalReport(t)' <=> HasRetainedTerminalReport(t)
  BY <1>1, <1>2 DEF Ended, Inquired, HasRetainedTerminalReport
<1>5. line' \in Seq(End) /\ Range(line') \subseteq retained \cup projected
  <2>1. <<>> \in Seq(End) /\ Range(<<>>) = {}
    BY DEF Range
  <2> QED
    BY <1>1, <1>2, <2>1 DEF OutcomeInv, ReportInv
<1> DEFINE last == Len(inbox) + 1
<1>6. \A i, t : inbox'[i] = m => ~Assigns(i, t)' /\ AsksOf(i)' = {}
  BY <1>3 DEF Assigns, AsksOf
<1> HIDE DEF last
<1>7. /\ inbox' \in Seq(Messages)
      /\ \A i \in DOMAIN inbox' :
            \/ /\ i \in DOMAIN inbox /\ inbox'[i] = inbox[i] /\ AsksOf(i)' = AsksOf(i)
               /\ \A t \in Tasks : Assigns(i, t)' <=> Assigns(i, t)
               /\ \A t \in Tasks : Acks(i, t)' <=> Acks(i, t)
            \/ i = last /\ inbox'[i] = m
      /\ \A i \in DOMAIN inbox : ~(last < i) /\ last # i
  <2>1. CASE inbox' = inbox
    <3>1. \A i \in DOMAIN inbox : ~(last < i) /\ last # i
      BY <1>1 DEF last
    <3> QED
      BY <1>1, <2>1, <3>1 DEF AsksOf, Assigns, Acks
  <2>2. CASE inbox' = Append(inbox, m)
    BY <1>1, <1>3, <2>2, Pushed DEF last
  <2> QED
    BY <1>1, <2>1, <2>2
<1>8. QueuesOK' /\ OneOutcome'
  BY <1>1, <1>2, <1>5, <1>7 DEF OutcomeInv, QueuesOK, OneOutcome
<1>9. ReportInv' /\ ReplyInv'
  BY <1>1, <1>4, <1>5 DEF OutcomeInv, ReportInv, ReplyInv
<1>10. GivenInv'
  <2>1. due' \cap given' = {} /\ managed' \subseteq given' /\ Ended' \subseteq given' /\ Range(inquiries') \subseteq given'
    BY <1>1, <1>4 DEF OutcomeInv, GivenInv
  <2>2. ASSUME NEW i \in DOMAIN inbox'
        PROVE  AsksOf(i)' \subseteq given' /\ \A t \in Tasks : Assigns(i, t)' => t \in given'
    BY <1>1, <1>6, <1>7 DEF OutcomeInv, GivenInv
  <2> QED
    BY <2>1, <2>2 DEF GivenInv
<1>11. AckInv'
  BY <1>1, <1>3, <1>7 DEF OutcomeInv, AckInv
<1>12. InitInv'
  <2> SUFFICES ASSUME NEW i \in DOMAIN inbox', NEW t \in AsksOf(i)', t \in Ended
               PROVE  /\ HasRetainedTerminalReport(t)
                      /\ \A j \in DOMAIN inbox' : j < i => ~Acks(j, t)'
    BY <1>4 DEF InitInv
  <2>1. i \in DOMAIN inbox /\ t \in AsksOf(i)
    BY <1>6, <1>7
  <2>2. t \in Tasks
    BY <2>1 DEF OutcomeInv, GivenInv, QueuesOK
  <2>3. ASSUME NEW j \in DOMAIN inbox', j < i PROVE ~Acks(j, t)'
    BY <1>7, <2>1, <2>2, <2>3 DEF OutcomeInv, InitInv
  <2> QED
    BY <2>1, <2>3 DEF OutcomeInv, InitInv
<1>13. AssignInv'
  <2> SUFFICES ASSUME NEW i \in DOMAIN inbox', NEW t \in Tasks, Assigns(i, t)'
               PROVE  /\ t \notin Ended \cup managed \cup Range(inquiries)
                      /\ \A j \in DOMAIN inbox' : /\ j < i => t \notin AsksOf(j)'
                                                  /\ j # i => ~Assigns(j, t)'
    BY <1>1, <1>4 DEF AssignInv
  <2>1. i \in DOMAIN inbox /\ Assigns(i, t)
    BY <1>6, <1>7
  <2>2. ASSUME NEW j \in DOMAIN inbox'
        PROVE  (j < i => t \notin AsksOf(j)') /\ (j # i => ~Assigns(j, t)')
    BY <1>6, <1>7, <2>1 DEF OutcomeInv, AssignInv
  <2> QED
    BY <2>1, <2>2 DEF OutcomeInv, AssignInv
<1> QED
  BY <1>8, <1>9, <1>10, <1>11, <1>12, <1>13 DEF OutcomeInv

\* Every step of the agent, its runtime, its files and the server keeps what makes a
\* task's outcome the only one.
THEOREM OutcomeInductive == OutcomeInv /\ [Next]_vars => OutcomeInv'
<1> SUFFICES ASSUME OutcomeInv, [Next]_vars PROVE OutcomeInv'
  OBVIOUS
<1> USE DEF core, host, report, work, handling, connection, server, uploadVars
<1>1. CASE Start
  BY <1>1, CoreSame DEF Start
<1>2. CASE Crash \/ TearDown
  BY <1>2, AgentEndsKeeps, CoreSame DEF Crash, TearDown
<1>3. CASE Connect \/ BeginTearDown
  BY <1>3, CoreSame DEF Connect, BeginTearDown
<1>4. CASE Drop
  BY <1>4, DropKeeps
<1>5. ASSUME NEW t \in Tasks, StopsWorking(t) PROVE OutcomeInv'
  BY <1>5, CoreSame DEF StopsWorking
<1>6. ASSUME NEW t \in Tasks, ReportsEnd(t) PROVE OutcomeInv'
  BY <1>6, ReportsEndKeeps
<1>7. CASE Handle
  BY <1>7, HandleInitKeeps, HandleAssignKeeps, HandleAckKeeps DEF Handle
<1>8. CASE Reply
  BY <1>8, InquireKeeps, CheckKeeps, AnswerKeeps DEF Reply
<1>9. CASE Upload
  BY <1>9, CoreSame DEF Upload, UploadGoesOn, UploadIsRefused, FollowUpFails
<1>10. ASSUME NEW a \in Assets, FileWritten(a) \/ RequestIsServedLate(a) PROVE OutcomeInv'
  BY <1>10, CoreSame DEF FileWritten, RequestIsServedLate
<1>11. CASE ServerInit \/ ServerRead
  BY <1>11, ServerInitKeeps, ServerReadKeeps
<1>12. ASSUME NEW t \in Tasks, ServerAssign(t) PROVE OutcomeInv'
  BY <1>12, ServerAssignKeeps
<1>13. CASE UNCHANGED vars
  BY <1>13, CoreSame DEF vars
<1> QED
  BY <1>1, <1>2, <1>3, <1>4, <1>5, <1>6, <1>7, <1>8, <1>9, <1>10, <1>11, <1>12, <1>13 DEF Next

\* A task has one outcome: no answer to an inquiry contradicts the report of how the
\* task ended, whatever the order of drops, restarts, acks and inquiries.
THEOREM OneOutcomeHolds == Spec => []OneOutcome
<1>1. OutcomeInv => OneOutcome
  BY DEF OutcomeInv
<1> QED
  BY OutcomeInit, OutcomeInductive, <1>1, PTL DEF Spec

-----------------------------------------------------------------------------
(* The types.                                                              *)

\* What the types add to the invariants above.
AgentOK ==
    /\ alive \in BOOLEAN /\ run \in 0 .. MaxRun
    /\ working \subseteq managed /\ gated \subseteq Tasks
    /\ followUp \in BOOLEAN /\ tearing \in BOOLEAN /\ overtaken \in BOOLEAN
    /\ replying \in BOOLEAN /\ checking \in {"no", "asked", "running", "not running"}
    /\ up \in BOOLEAN /\ initSent \in BOOLEAN /\ released \in BOOLEAN

\* Counts up to a bound.
LEMMA Successor == \A m \in Nat : 0 \in 0 .. m /\ \A n \in 0 .. m : n < m => n + 1 \in 0 .. m
OBVIOUS

\* The agent's part: a report closes only the gate of a task it manages.
LEMMA AgentStep ==
  ASSUME OutcomeInv, AgentOK, [Next]_vars
  PROVE  AgentOK'
<1> USE DEF AgentOK, host, report, work, registration, handling, connection
<1>1. ASSUME NEW t, NEW why, Adispatch(t, why)
      PROVE  gated' \subseteq Tasks
  BY <1>1 DEF Adispatch, OutcomeInv, QueuesOK
<1>2. CASE Start
  <2>1. run < MaxRun /\ run \in 0 .. MaxRun /\ MaxRun \in Nat
    BY <1>2, BoundAssumption DEF Start
  <2>2. run + 1 \in 0 .. MaxRun
    BY <2>1, Successor
  <2> QED
    BY <1>2, <2>2 DEF Start
<1>3. CASE Crash \/ BeginTearDown \/ TearDown
  BY <1>3 DEF Crash, BeginTearDown, TearDown, AgentEnds
<1>4. CASE Connect \/ Drop
  BY <1>4 DEF Connect, Drop, Disconnect
<1>5. ASSUME NEW t \in Tasks, StopsWorking(t) \/ ReportsEnd(t)
      PROVE  AgentOK'
  <2>1. CASE StopsWorking(t)
    BY <2>1 DEF StopsWorking
  <2>2. CASE ReportsEnd(t)
    BY <1>1, <2>2 DEF ReportsEnd
  <2> QED
    BY <1>5, <2>1, <2>2
<1>6. CASE HandleInit
  BY <1>6 DEF HandleInit
<1>7. CASE HandleAssign \/ HandleAck
  BY <1>7 DEF HandleAssign, HandleAck
<1>8. CASE Inquire
  <2>1. UNCHANGED gated \/ Adispatch(Inquired, "critical")
    BY <1>8 DEF Inquire, InquiryOfEnded, InquiryOfUnknown, InquiryOfManaged
  <2>2. gated' \subseteq Tasks /\ checking' \in {checking, "asked"}
    BY <1>1, <1>8, <2>1 DEF Inquire, InquiryOfEnded, InquiryOfUnknown, InquiryOfManaged
  <2> QED
    BY <1>8, <2>2 DEF Inquire
<1>9. CASE Check
  BY <1>9 DEF Check
<1>10. CASE Answer
  <2>1. gated' \subseteq Tasks
    BY <1>1, <1>10 DEF Answer
  <2> QED
    BY <1>10, <2>1 DEF Answer
<1>11. CASE AllAnswered
  BY <1>11 DEF AllAnswered, StartFollowUp
<1>12. CASE Upload
  BY <1>12 DEF Upload, UploadGoesOn, UploadIsRefused, FollowUpFails
<1>13. ASSUME NEW a \in Assets, FileWritten(a) \/ RequestIsServedLate(a)
       PROVE  AgentOK'
  BY <1>13 DEF FileWritten, RequestIsServedLate
<1>14. CASE ServerInit
  BY <1>14 DEF ServerInit
<1>15. ASSUME NEW t \in Tasks, ServerAssign(t)
       PROVE  AgentOK'
  BY <1>15 DEF ServerAssign, Deliver
<1>16. CASE ServerRead
  BY <1>16 DEF ServerRead, Deliver
<1>17. CASE UNCHANGED vars
  BY <1>17 DEF vars
<1> QED
  BY <1>2, <1>3, <1>4, <1>5, <1>6, <1>7, <1>8, <1>9, <1>10, <1>11, <1>12, <1>13, <1>14, <1>15, <1>16, <1>17
     DEF Next, Handle, Reply

\* A set of numbers has a least.
LEMMA LeastExists ==
  ASSUME NEW S \in SUBSET Nat, S # {}
  PROVE  Min(S) \in S
<1>1. PICK R : R = OpToRel(<, Nat)
  OBVIOUS
<1>2. IsWellFoundedOn(R, Nat)
  BY <1>1, NatLessThanWellFounded
<1>3. PICK x \in S : \A y \in S : <<y, x>> \notin R
  BY <1>2, WFMin
<1>4. ASSUME NEW y \in S
      PROVE  x =< y
  <2>1. x \in Nat /\ y \in Nat
    BY <1>3
  <2>2. y < x => <<y, x>> \in R
    BY <1>1, <2>1 DEF OpToRel
  <2> QED
    BY <1>3, <2>1, <2>2
<1> QED
  BY <1>4 DEF Min

\* Where an upload goes on: not before where it looks, and not past the end.
LEMMA FromFacts ==
  ASSUME registered \in Seq(Assets), NEW i \in 1 .. Len(registered) + 1
  PROVE  From(i) \in i .. Len(registered) + 1
<1> DEFINE S == {j \in i .. Len(registered) : registered[j] \notin FromSource} \cup {Len(registered) + 1}
<1>1. Len(registered) \in Nat
  OBVIOUS
<1>2. S \in SUBSET Nat /\ S # {} /\ S \subseteq i .. Len(registered) + 1
  BY <1>1
<1>3. From(i) = Min(S)
  BY DEF From
<1> HIDE DEF S
<1>4. Min(S) \in S
  BY <1>2, LeastExists
<1> QED
  BY <1>2, <1>3, <1>4

\* A sequence keeps its elements' set as one is changed or taken out.
LEMMA PartFacts ==
  ASSUME NEW S, NEW q \in Seq(S), NEW m \in Nat, NEW n \in 0 .. Len(q)
  PROVE  m >= 1 => SubSeq(q, m, n) \in Seq(S)
<1>1. Len(q) \in Nat /\ \A i \in 1 .. Len(q) : q[i] \in S
  OBVIOUS
<1>2. ASSUME m >= 1, NEW i \in m .. n
      PROVE  q[i] \in S
  BY <1>1, <1>2
<1> QED
  BY <1>2

LEMMA SeqFacts ==
  ASSUME NEW S, NEW q \in Seq(S), NEW u \in DOMAIN q
  PROVE  /\ q[u] \in S
         /\ RemoveAt(q, u) \in Seq(S)
         /\ \A x \in S : [q EXCEPT ![u] = x] \in Seq(S)
<1>1. u \in 1 .. Len(q) /\ Len(q) \in Nat /\ q[u] \in S
  OBVIOUS
<1>2. u - 1 \in 0 .. Len(q) /\ u + 1 \in Nat /\ u + 1 >= 1 /\ Len(q) \in 0 .. Len(q)
  BY <1>1
<1>3. SubSeq(q, 1, u - 1) \in Seq(S) /\ SubSeq(q, u + 1, Len(q)) \in Seq(S)
  BY <1>2, PartFacts
<1>4. RemoveAt(q, u) \in Seq(S)
  BY <1>3, ConcatFacts DEF RemoveAt
<1>5. \A x \in S : [q EXCEPT ![u] = x] \in Seq(S)
  OBVIOUS
<1> QED
  BY <1>1, <1>4, <1>5

\* What an upload is: at an asset of the registry.
UploadsOf(assets) == [at : 1 .. Len(assets), stage : Stages, by : Nat]
UploadsOK == uploads \in Seq(UploadsOf(registered))

LEMMA UploadFacts ==
  ASSUME UploadTypeOK, NEW u \in DOMAIN uploads
  PROVE  /\ registered \in Seq(Assets) /\ Len(registered) \in Nat
         /\ UploadsOK /\ uploads[u] \in UploadsOf(registered)
         /\ uploads[u].at \in 1 .. Len(registered) /\ uploads[u].stage \in Stages /\ uploads[u].by \in Nat
         /\ At(u) \in Assets
<1>1. registered \in Seq(Assets) /\ Len(registered) \in Nat /\ UploadsOK
  BY DEF UploadTypeOK, UploadsOK, UploadsOf
<1>2. uploads[u] \in UploadsOf(registered)
  BY <1>1, SeqFacts DEF UploadsOK
<1>3. uploads[u].at \in 1 .. Len(registered) /\ uploads[u].stage \in Stages /\ uploads[u].by \in Nat
  BY <1>2 DEF UploadsOf
<1>4. At(u) \in Assets
  BY <1>1, <1>3 DEF At
<1> QED
  BY <1>1, <1>2, <1>3, <1>4

\* An upload moved to an asset and a stage is an upload.
LEMMA MovedType ==
  ASSUME UploadTypeOK, NEW u \in DOMAIN uploads, NEW at \in 1 .. Len(registered), NEW stage \in Stages,
         UNCHANGED registered, uploads' = [uploads EXCEPT ![u] = [@ EXCEPT !.at = at, !.stage = stage]]
  PROVE  UploadsOK'
<1>1. PICK x : x = [uploads[u] EXCEPT !.at = at, !.stage = stage]
  OBVIOUS
<1>2. x \in UploadsOf(registered)
  BY <1>1, UploadFacts DEF UploadsOf
<1>3. uploads' = [uploads EXCEPT ![u] = x]
  BY <1>1
<1>4. [uploads EXCEPT ![u] = x] \in Seq(UploadsOf(registered))
  <2>1. uploads \in Seq(UploadsOf(registered))
    BY UploadFacts DEF UploadsOK
  <2> QED
    BY <1>2, <2>1, SeqFacts
<1> QED
  BY <1>3, <1>4 DEF UploadsOK

LEMMA RemovedType ==
  ASSUME UploadTypeOK, NEW u \in DOMAIN uploads, UNCHANGED registered, uploads' = RemoveAt(uploads, u)
  PROVE  UploadsOK'
<1>1. uploads \in Seq(UploadsOf(registered))
  BY UploadFacts DEF UploadsOK
<1>2. RemoveAt(uploads, u) \in Seq(UploadsOf(registered))
  BY <1>1, SeqFacts
<1> QED
  BY <1>2 DEF UploadsOK

\* The next asset with a path is on the registry, or there is none and the upload is over.
LEMMA NextAssetType ==
  ASSUME UploadTypeOK, NEW u \in DOMAIN uploads, NextAsset(u), UNCHANGED registered
  PROVE  UploadsOK'
<1>1. PICK i : i = From(uploads[u].at + 1)
  OBVIOUS
<1>2. registered \in Seq(Assets) /\ uploads[u].at \in 1 .. Len(registered) /\ Len(registered) \in Nat
  BY UploadFacts
<1>3. i \in uploads[u].at + 1 .. Len(registered) + 1
  <2>1. PICK at : at = uploads[u].at + 1
    OBVIOUS
  <2>2. at \in 1 .. Len(registered) + 1
    BY <1>2, <2>1
  <2>3. From(at) \in at .. Len(registered) + 1
    BY <1>2, <2>2, FromFacts
  <2> QED
    BY <1>1, <2>1, <2>3
<1>4. uploads' = IF i > Len(registered) THEN RemoveAt(uploads, u)
                 ELSE [uploads EXCEPT ![u] = [@ EXCEPT !.at = i, !.stage = "query"]]
  BY <1>1 DEF NextAsset
<1>5. CASE i > Len(registered)
  BY <1>4, <1>5, RemovedType
<1>6. CASE ~(i > Len(registered))
  <2>1. i \in 1 .. Len(registered) /\ "query" \in Stages
    BY <1>2, <1>3, <1>6 DEF Stages
  <2> QED
    BY <1>4, <1>6, <2>1, MovedType
<1> QED
  BY <1>5, <1>6

LEMMA AwaitType ==
  ASSUME UploadTypeOK, NEW u \in DOMAIN uploads, NEW next \in Stages, Await(u, next), UNCHANGED registered
  PROVE  UploadsOK'
<1>1. PICK x : x = [uploads[u] EXCEPT !.stage = next]
  OBVIOUS
<1>2. x \in UploadsOf(registered)
  BY <1>1, UploadFacts DEF UploadsOf
<1>3. uploads' = [uploads EXCEPT ![u] = x]
  BY <1>1 DEF Await
<1>4. [uploads EXCEPT ![u] = x] \in Seq(UploadsOf(registered))
  <2>1. uploads \in Seq(UploadsOf(registered))
    BY UploadFacts DEF UploadsOK
  <2> QED
    BY <1>2, <2>1, SeqFacts
<1> QED
  BY <1>3, <1>4 DEF UploadsOK

\* The bound on what goes wrong.
LEMMA MishapType == UploadTypeOK /\ Mishap => mishaps' \in 0 .. MaxMishaps
<1> SUFFICES ASSUME UploadTypeOK, Mishap PROVE mishaps' \in 0 .. MaxMishaps
  OBVIOUS
<1>1. mishaps \in 0 .. MaxMishaps /\ MaxMishaps \in Nat /\ mishaps < MaxMishaps /\ mishaps' = mishaps + 1
  BY AssetsAssumption DEF UploadTypeOK, Mishap
<1>2. mishaps + 1 \in 0 .. MaxMishaps
  BY <1>1, Successor
<1> QED
  BY <1>1, <1>2

\* What an answered CreateAsset records counts up.
CreatedOK == created \in [Assets -> Nat]

LEMMA CreatedKept == CreatedOK /\ [Next]_vars => CreatedOK'
<1> SUFFICES ASSUME CreatedOK, [Next]_vars PROVE CreatedOK'
  OBVIOUS
<1>1. UNCHANGED created \/ \E u \in DOMAIN uploads : created' = [created EXCEPT ![At(u)] = @ + 1]
  BY DEF Next, vars, uploadVars, Start, Crash, AgentEnds, BeginTearDown, TearDown, Connect, Drop, StopsWorking,
         ReportsEnd, Handle, HandleInit, HandleAssign, HandleAck, Reply, Inquire, Check, Answer, AllAnswered,
         Upload, UploadGoesOn, UploadIsRefused, FollowUpFails, Answered, Queried, Granted, Put, Recorded,
         Refused, Breaks, FileWritten, FileChanges, RequestIsServedLate, ServedLate, ServerInit, ServerRead,
         ServerAssign
<1>2. ASSUME NEW u \in DOMAIN uploads, created' = [created EXCEPT ![At(u)] = @ + 1]
      PROVE  CreatedOK'
  <2>1. CASE At(u) \in Assets
    <3>1. created[At(u)] + 1 \in Nat
      BY <2>1 DEF CreatedOK
    <3> QED
      BY <1>2, <3>1 DEF CreatedOK
  <2>2. CASE At(u) \notin Assets
    BY <1>2, <2>2 DEF CreatedOK
  <2> QED
    BY <2>1, <2>2
<1> QED
  BY <1>1, <1>2 DEF CreatedOK

\* The steps of an upload, and the refusals it meets.
LEMMA AnsweredTypes ==
  ASSUME UploadTypeOK, CreatedOK', NEW u \in DOMAIN uploads, Answered(u) \/ Refused(u)
  PROVE  UploadTypeOK'
<1>1. At(u) \in Assets
  BY UploadFacts
<1>2. created' \in [Assets -> Nat]
  BY DEF CreatedOK
<1>3. registered' = registered /\ files' = files /\ adrift' = adrift /\ late' = late
  BY DEF Answered, Refused, Queried, Granted, Put, Recorded
<1>4. logged' \subseteq Assets
  BY <1>1 DEF UploadTypeOK, Answered, Refused, Queried, Granted, Put, Recorded, GiveUp
<1>5. stored' \in [Assets -> {"nothing", "registered", "changed"}]
  <2>1. CASE Put(u) /\ files[At(u)] # "gone"
    <3>1. files[At(u)] \in {"registered", "changed"}
      BY <1>1, <2>1 DEF UploadTypeOK
    <3>2. stored' = [stored EXCEPT ![At(u)] = files[At(u)]]
      BY <2>1 DEF Put
    <3> QED
      BY <3>1, <3>2 DEF UploadTypeOK
  <2>2. CASE ~(Put(u) /\ files[At(u)] # "gone")
    <3>1. stored' = stored
      BY <2>2 DEF Answered, Refused, Queried, Granted, Put, Recorded
    <3> QED
      BY <3>1 DEF UploadTypeOK
  <2> QED
    BY <2>1, <2>2
<1>6. UploadsOK'
  <2>1. NextAsset(u) \/ Await(u, "grant") \/ Await(u, "put") \/ Await(u, "create")
    BY DEF Answered, Refused, Queried, Granted, Put, Recorded, GiveUp
  <2>2. "grant" \in Stages /\ "put" \in Stages /\ "create" \in Stages
    BY DEF Stages
  <2> QED
    BY <1>3, <2>1, <2>2, NextAssetType, AwaitType
<1>7. mishaps' \in 0 .. MaxMishaps
  <2>1. UNCHANGED mishaps \/ Mishap
    BY DEF Answered, Refused, Queried, Granted, Put, Recorded
  <2> QED
    BY <2>1, MishapType DEF UploadTypeOK
<1> QED
  BY <1>2, <1>3, <1>4, <1>5, <1>6, <1>7 DEF UploadTypeOK, UploadsOK, UploadsOf

\* An upload cut off may have asked for a record of an asset.
LEMMA CutOffType ==
  ASSUME UploadTypeOK, NEW u \in DOMAIN uploads, CutOff(u), UNCHANGED registered
  PROVE  UploadsOK' /\ adrift' \subseteq Assets
<1>1. UploadsOK'
  BY RemovedType DEF CutOff
<1>2. At(u) \in Assets
  BY UploadFacts
<1>3. UnderWay({u}) \subseteq Assets
  BY <1>2 DEF UnderWay
<1> QED
  BY <1>1, <1>3 DEF CutOff, UploadTypeOK

\* A process that ends leaves no upload.
LEMMA CrashType ==
  ASSUME UploadTypeOK, Crash, CreatedOK'
  PROVE  UploadTypeOK'
<1>1. uploads' = <<>> /\ UNCHANGED <<registered, files, stored, late, logged, mishaps>>
  BY DEF Crash, AgentEnds
<1>2. adrift' \subseteq Assets
  <2>1. \A u \in DOMAIN uploads : At(u) \in Assets
    BY UploadFacts
  <2>2. UnderWay(DOMAIN uploads) \subseteq Assets
    BY <2>1 DEF UnderWay
  <2> QED
    BY <2>2 DEF Crash, UploadTypeOK
<1>3. UploadsOK'
  BY <1>1 DEF UploadsOK
<1> QED
  BY <1>1, <1>2, <1>3 DEF UploadTypeOK, UploadsOK, UploadsOf, CreatedOK

\* An upload begins at an asset of the registry.
LEMMA BegunType ==
  ASSUME UploadTypeOK, HasUpload, NEW by \in Nat, BeginUpload(by), UNCHANGED registered
  PROVE  UploadsOK'
<1>1. PICK i : i = From(1)
  OBVIOUS
<1>2. registered \in Seq(Assets) /\ Len(registered) \in Nat
  BY DEF UploadTypeOK
<1>3. i \in 1 .. Len(registered) + 1
  <2>1. 1 \in 1 .. Len(registered) + 1
    BY <1>2
  <2> QED
    BY <1>1, <1>2, <2>1, FromFacts
<1>4. i \in 1 .. Len(registered) /\ "query" \in Stages
  BY <1>1, <1>2, <1>3 DEF HasUpload, Stages
<1>5. PICK x : x = [at |-> i, stage |-> "query", by |-> by]
  OBVIOUS
<1>6. x \in UploadsOf(registered)
  BY <1>4, <1>5 DEF UploadsOf
<1>7. uploads \in Seq(UploadsOf(registered)) /\ uploads' = Append(uploads, x)
  BY <1>1, <1>5 DEF UploadTypeOK, UploadsOf, BeginUpload
<1>8. Append(uploads, x) \in Seq(UploadsOf(registered))
  BY <1>6, <1>7, AppendFacts
<1> QED
  BY <1>7, <1>8 DEF UploadsOK

\* All steps: the uploads begin, go on, fail and are cut off.
LEMMA UploadStep ==
  ASSUME UploadTypeOK, CreatedOK', AgentOK, [Next]_vars
  PROVE  UploadTypeOK'
<1> USE DEF uploadVars
<1>1. created' \in [Assets -> Nat]
  BY DEF CreatedOK
<1>2. CASE UNCHANGED uploadVars
  BY <1>2 DEF UploadTypeOK
<1>3. CASE Start
  BY <1>3 DEF Start, UploadTypeOK
<1>4. CASE Crash
  BY <1>4, CrashType
<1>5. CASE TearDown
  BY <1>5 DEF TearDown, AgentEnds, UploadTypeOK
<1>6. CASE BeginTearDown
  <2>1. UNCHANGED <<registered, files, stored, created, late, logged, mishaps>>
    BY <1>6 DEF BeginTearDown
  <2>2. CASE UNCHANGED <<uploads, adrift>>
    BY <1>2, <2>1, <2>2
  <2>3. ASSUME NEW u \in DOMAIN uploads, CutOff(u)
        PROVE  UploadTypeOK'
    BY <2>1, <2>3, CutOffType DEF UploadTypeOK, UploadsOK, UploadsOf
  <2> QED
    BY <1>6, <2>2, <2>3 DEF BeginTearDown, CancelFollowUp
<1>7. CASE AllAnswered
  <2>1. UNCHANGED <<registered, files, stored, created, adrift, late, logged, mishaps>>
    BY <1>7 DEF AllAnswered
  <2>2. CASE uploads' = uploads
    BY <1>2, <2>1, <2>2
  <2>3. CASE HasUpload /\ BeginUpload(run)
    <3>1. run \in Nat
      <4>1. run \in 0 .. MaxRun /\ MaxRun \in Nat
        BY BoundAssumption DEF AgentOK
      <4> QED
        BY <4>1
    <3>2. UploadsOK'
      BY <2>1, <2>3, <3>1, BegunType
    <3> QED
      BY <2>1, <3>2 DEF UploadTypeOK, UploadsOK, UploadsOf
  <2> QED
    BY <1>7, <2>2, <2>3 DEF AllAnswered, StartFollowUp
<1>8. CASE Upload
  <2>1. PICK u \in DOMAIN uploads : UploadGoesOn(u) \/ UploadIsRefused(u) \/ FollowUpFails(u)
    BY <1>8 DEF Upload
  <2>2. CASE UploadGoesOn(u) \/ UploadIsRefused(u)
    BY <2>2, AnsweredTypes DEF UploadGoesOn, UploadIsRefused
  <2>3. CASE FollowUpFails(u)
    <3>1. CutOff(u) /\ Mishap /\ UNCHANGED <<registered, files, stored, created, late, logged>>
      BY <2>3 DEF FollowUpFails, Breaks
    <3>2. UploadsOK' /\ adrift' \subseteq Assets /\ mishaps' \in 0 .. MaxMishaps
      BY <3>1, CutOffType, MishapType
    <3> QED
      BY <3>1, <3>2 DEF UploadTypeOK, UploadsOK, UploadsOf
  <2> QED
    BY <2>1, <2>2, <2>3
<1>9. ASSUME NEW a \in Assets, FileWritten(a)
      PROVE  UploadTypeOK'
  <2>1. PICK now \in {"changed", "gone"} : files' = [files EXCEPT ![a] = now]
    BY <1>9 DEF FileWritten, FileChanges
  <2>2. mishaps' \in 0 .. MaxMishaps
    BY <1>9, MishapType DEF FileWritten, FileChanges
  <2> QED
    BY <1>9, <2>1, <2>2 DEF FileWritten, FileChanges, UploadTypeOK
<1>10. ASSUME NEW a \in Assets, RequestIsServedLate(a)
       PROVE  UploadTypeOK'
  BY <1>10 DEF RequestIsServedLate, ServedLate, UploadTypeOK
<1>11. CASE Connect \/ Drop
  BY <1>2, <1>11 DEF Connect, Drop
<1>12. ASSUME NEW t \in Tasks, StopsWorking(t) \/ ReportsEnd(t) \/ ServerAssign(t)
       PROVE  UploadTypeOK'
  BY <1>2, <1>12 DEF StopsWorking, ReportsEnd, ServerAssign
<1>13. CASE Handle
  BY <1>2, <1>13 DEF Handle, HandleInit, HandleAssign, HandleAck
<1>14. CASE Inquire \/ Check \/ Answer
  BY <1>2, <1>14 DEF Inquire, Check, Answer
<1>15. CASE ServerInit \/ ServerRead
  BY <1>2, <1>15 DEF ServerInit, ServerRead
<1>16. CASE UNCHANGED vars
  BY <1>2, <1>16 DEF vars
<1> QED
  BY <1>3, <1>4, <1>5, <1>6, <1>7, <1>8, <1>9, <1>10, <1>11, <1>12, <1>13, <1>14, <1>15, <1>16
     DEF Next, Reply

\* The types of Registration: messages are about tasks, what is retained and read are
\* ends, and every upload, of which a tear-down may leave two, is at one of the app's assets.
THEOREM TypesHold == Spec => []TypeOK
<1> DEFINE Inv == OutcomeInv /\ AgentOK /\ UploadTypeOK
<1>1. Init => Inv
  <2> SUFFICES ASSUME Init PROVE Inv
    OBVIOUS
  <2>1. AgentOK
    BY BoundAssumption, Successor DEF Init, AgentOK
  <2>2. UploadTypeOK
    <3>1. PICK app \in Apps : due = app.tasks /\ UploadInit(app.assets)
      BY DEF Init
    <3>2. app.assets \in Seq(Assets)
      BY <3>1, AppsAssumption
    <3>3. 0 \in 0 .. MaxMishaps
      BY AssetsAssumption
    <3>4. uploads = <<>> /\ uploads \in Seq([at : 1 .. Len(registered), stage : Stages, by : Nat])
      BY <3>1 DEF UploadInit
    <3> QED
      BY <3>1, <3>2, <3>3, <3>4 DEF UploadInit, UploadTypeOK
  <2> QED
    BY <2>1, <2>2, OutcomeInit
<1>2. Inv /\ [Next]_vars => Inv'
  <2> SUFFICES ASSUME Inv, [Next]_vars PROVE Inv'
    OBVIOUS
  <2>1. OutcomeInv' /\ CreatedOK'
    BY OutcomeInductive, CreatedKept DEF UploadTypeOK, CreatedOK
  <2>2. AgentOK' /\ UploadTypeOK'
    BY <2>1, AgentStep, UploadStep
  <2> QED
    BY <2>1, <2>2
<1>3. Inv => TypeOK
  BY DEF OutcomeInv, QueuesOK, AgentOK, TypeOK
<1> QED
  BY <1>1, <1>2, <1>3, PTL DEF Spec

-----------------------------------------------------------------------------
(* An asset is recorded for one upload.                                    *)

\* The one upload there is moves on, or is over.
LEMMA OneInSequence ==
  ASSUME NEW S, NEW q \in Seq(S), Len(q) = 1
  PROVE  /\ DOMAIN q = {1}
         /\ RemoveAt(q, 1) = <<>>
         /\ \A x : Len([q EXCEPT ![1] = x]) = 1 /\ [q EXCEPT ![1] = x][1] = x
<1>1. DOMAIN q = {1}
  OBVIOUS
<1>2. RemoveAt(q, 1) = <<>>
  <2>1. SubSeq(q, 1, 0) = <<>> /\ SubSeq(q, 2, 1) = <<>>
    OBVIOUS
  <2>2. <<>> \o <<>> = <<>>
    OBVIOUS
  <2>3. RemoveAt(q, 1) = SubSeq(q, 1, 1 - 1) \o SubSeq(q, 1 + 1, Len(q))
    BY DEF RemoveAt
  <2> QED
    BY <2>1, <2>2, <2>3
<1>3. \A x : Len([q EXCEPT ![1] = x]) = 1 /\ [q EXCEPT ![1] = x][1] = x
  OBVIOUS
<1> QED
  BY <1>1, <1>2, <1>3

\* One upload is under way, the running agent's.
One == Len(uploads) = 1 /\ Own(1)

LEMMA OneFacts ==
  ASSUME UploadTypeOK, One
  PROVE  /\ DOMAIN uploads = {1} /\ RemoveAt(uploads, 1) = <<>>
         /\ \A x : Len([uploads EXCEPT ![1] = x]) = 1 /\ [uploads EXCEPT ![1] = x][1] = x
<1>1. PICK S : uploads \in Seq(S)
  BY DEF UploadTypeOK
<1> QED
  BY <1>1, OneInSequence DEF One

RecordsOnce == \A a \in Assets : created[a] <= 1

\* No upload is under way, or one of the running agent that has yet to ask about its asset.
Fresh == uploads = <<>> \/ (One /\ uploads[1].stage = "query")

\* A fresh upload says nothing yet of what was recorded.
LEMMA FreshUpload ==
  ASSUME alive', followUp', ~tearing', Fresh'
  PROVE  OneUploadInv'
BY DEF Fresh, One, OneUploadInv

\* An upload that is done with an asset is over, or asks about the next.
LEMMA NextAssetIsFresh ==
  ASSUME UploadTypeOK, One, NextAsset(1), UNCHANGED run
  PROVE  Fresh'
<1>1. uploads' = RemoveAt(uploads, 1)
      \/ \E i : uploads' = [uploads EXCEPT ![1] = [@ EXCEPT !.at = i, !.stage = "query"]]
  BY DEF NextAsset
<1>2. CASE uploads' = RemoveAt(uploads, 1)
  BY <1>2, OneFacts DEF Fresh
<1>3. ASSUME NEW i, uploads' = [uploads EXCEPT ![1] = [@ EXCEPT !.at = i, !.stage = "query"]]
      PROVE  Fresh'
  <2>1. PICK x : x = [uploads[1] EXCEPT !.at = i, !.stage = "query"]
    OBVIOUS
  <2>2. uploads' = [uploads EXCEPT ![1] = x]
    BY <1>3, <2>1
  <2>3. Len(uploads') = 1 /\ uploads'[1] = x
    BY <2>2, OneFacts
  <2>4. x.stage = "query" /\ x.by = run
    <3>1. uploads[1] \in UploadsOf(registered) /\ uploads[1].by = run
      BY OneFacts, UploadFacts DEF One, Own
    <3> QED
      BY <2>1, <3>1 DEF UploadsOf
  <2> QED
    BY <2>3, <2>4 DEF Fresh, One, Own
<1> QED
  BY <1>1, <1>2, <1>3

\* An upload that waits for the next answer is the same.
LEMMA AwaitKeepsOne ==
  ASSUME UploadTypeOK, One, NEW next, Await(1, next), UNCHANGED <<run, registered>>
  PROVE  One' /\ At(1)' = At(1)
<1>1. PICK x : x = [uploads[1] EXCEPT !.stage = next]
  OBVIOUS
<1>2. uploads' = [uploads EXCEPT ![1] = x]
  BY <1>1 DEF Await
<1>3. Len(uploads') = 1 /\ uploads'[1] = x
  BY <1>2, OneFacts
<1>4. x.at = uploads[1].at /\ x.by = run
  <2>1. uploads[1] \in UploadsOf(registered) /\ uploads[1].by = run
    BY OneFacts, UploadFacts DEF One, Own
  <2> QED
    BY <1>1, <2>1 DEF UploadsOf
<1> QED
  BY <1>3, <1>4 DEF One, Own, At

\* The invariant is about the uploads and what was recorded for them.
LEMMA UploadSame ==
  OneUploadInv /\ UNCHANGED <<created, uploads, host, registration, registered>> => OneUploadInv'
BY DEF OneUploadInv, Own, At, host, registration

\* The steps of an upload: only past its query does it go on to be recorded.
LEMMA AnsweredKeeps ==
  ASSUME UploadTypeOK, RecordsOnce, OneUploadInv, NEW u \in DOMAIN uploads, Answered(u) \/ Refused(u),
         UNCHANGED <<host, registration>>
  PROVE  OneUploadInv' /\ RecordsOnce'
<1> USE DEF host, registration
<1>1. One /\ alive /\ followUp /\ ~tearing /\ (uploads[1].stage # "query" => created[At(1)] = 0)
  BY DEF OneUploadInv, One
<1>2. u = 1 /\ At(1) \in Assets
  BY <1>1, OneFacts, UploadFacts
<1>3. registered' = registered
  BY DEF Answered, Refused, Queried, Granted, Put, Recorded
<1>4. ASSUME NextAsset(1) PROVE OneUploadInv'
  <2>1. Fresh'
    BY <1>1, <1>4, NextAssetIsFresh
  <2> QED
    BY <1>1, <2>1, FreshUpload
<1>5. ASSUME NEW next, Await(1, next), UNCHANGED created, created[At(1)] = 0
      PROVE  OneUploadInv'
  <2>1. One' /\ At(1)' = At(1)
    BY <1>1, <1>3, <1>5, AwaitKeepsOne
  <2> QED
    BY <1>1, <1>5, <2>1 DEF OneUploadInv, One
<1>6. UNCHANGED created => RecordsOnce'
  BY DEF RecordsOnce
<1>7. CASE Queried(u)
  <2>1. UNCHANGED created /\ (NextAsset(1) \/ (~Held(At(1)) /\ Await(1, "grant")))
    BY <1>2, <1>7 DEF Queried, GiveUp
  <2>2. ~Held(At(1)) => created[At(1)] = 0
    <3>1. created[At(1)] \in Nat
      BY <1>2 DEF UploadTypeOK
    <3> QED
      BY <3>1 DEF Held
  <2> QED
    BY <1>4, <1>5, <1>6, <2>1, <2>2
<1>8. CASE Granted(u)
  BY <1>1, <1>2, <1>5, <1>6, <1>8 DEF Granted, Awaits
<1>9. CASE Put(u)
  <2>1. UNCHANGED created /\ uploads[1].stage = "put" /\ (NextAsset(1) \/ Await(1, "create"))
    BY <1>2, <1>9 DEF Put, Awaits, GiveUp
  <2> QED
    BY <1>1, <1>4, <1>5, <1>6, <2>1
<1>10. CASE Recorded(u)
  <2>1. uploads[1].stage = "create" /\ NextAsset(1) /\ created' = [created EXCEPT ![At(1)] = @ + 1]
    BY <1>2, <1>10 DEF Recorded, Awaits
  <2>2. ASSUME NEW a \in Assets PROVE created'[a] <= 1
    <3>1. CASE a = At(1)
      BY <1>1, <2>1, <3>1 DEF UploadTypeOK
    <3>2. CASE a # At(1)
      BY <2>1, <3>2 DEF RecordsOnce, UploadTypeOK
    <3> QED
      BY <3>1, <3>2
  <2> QED
    BY <1>4, <2>1, <2>2 DEF RecordsOnce
<1>11. CASE Refused(u)
  BY <1>2, <1>4, <1>6, <1>11 DEF Refused, GiveUp
<1> QED
  BY <1>7, <1>8, <1>9, <1>10, <1>11 DEF Answered

\* An upload that is cut off is over, and there is no other.
LEMMA CutOffKeeps ==
  ASSUME UploadTypeOK, OneUploadInv, NEW u \in DOMAIN uploads, uploads' = RemoveAt(uploads, u)
  PROVE  uploads' = <<>>
<1>1. One
  BY DEF OneUploadInv, One
<1>2. u = 1 /\ RemoveAt(uploads, 1) = <<>>
  BY <1>1, OneFacts
<1> QED
  BY <1>2

\* A tear-down leaves none, whatever its agent had under way.
LEMMA TearDownKeeps ==
  ASSUME UploadTypeOK, OneUploadInv, BeginTearDown
  PROVE  uploads' = <<>>
<1>1. CASE uploads = <<>>
  BY <1>1 DEF BeginTearDown, CancelFollowUp
<1>2. CASE uploads # <<>>
  <2>1. One
    BY <1>2 DEF OneUploadInv, One
  <2>2. 1 \in DOMAIN uploads /\ Own(1)
    BY <2>1, OneFacts DEF One
  <2>3. PICK u \in DOMAIN uploads : uploads' = RemoveAt(uploads, u)
    BY <2>2 DEF BeginTearDown, CancelFollowUp, CutOff
  <2> QED
    BY <2>3, CutOffKeeps
<1> QED
  BY <1>1, <1>2

\* The first of uploads.
LEMMA FirstUpload ==
  ASSUME uploads = <<>>, HasUpload, BeginUpload(run), UNCHANGED run
  PROVE  Fresh' /\ uploads' # uploads
<1>1. PICK x : x = [at |-> From(1), stage |-> "query", by |-> run]
  OBVIOUS
<1>2. x.stage = "query" /\ x.by = run
  BY <1>1
<1>3. uploads' = Append(<<>>, x)
  BY <1>1 DEF BeginUpload
<1>4. Len(uploads') = 1 /\ uploads'[1] = x /\ uploads' # uploads
  BY <1>3
<1> QED
  BY <1>2, <1>4 DEF Fresh, One, Own

\* An Init starts an upload only where there is none, or overtakes a tear-down.
LEMMA StartsOne ==
  ASSUME OneUploadInv, AllAnswered, alive
  PROVE  OneUploadInv' \/ overtaken'
<1>1. UNCHANGED <<created, registered, host, tearing>>
  BY DEF AllAnswered
<1>2. CASE HasUpload /\ ~followUp /\ followUp' = TRUE /\ BeginUpload(run)
  <2>1. uploads = <<>>
    BY <1>2 DEF OneUploadInv
  <2>2. Fresh' /\ uploads' # uploads
    BY <1>1, <1>2, <2>1, FirstUpload DEF host
  <2>3. CASE tearing
    BY <2>2, <2>3 DEF AllAnswered
  <2>4. CASE ~tearing
    BY <1>1, <1>2, <2>2, <2>4, FreshUpload DEF host
  <2> QED
    BY <2>3, <2>4
<1>3. CASE UNCHANGED <<followUp, uploads>>
  <2>1. OneUploadInv'
    BY <1>1, <1>3 DEF OneUploadInv, Own, At, host
  <2> QED
    BY <2>1
<1> QED
  BY <1>2, <1>3 DEF AllAnswered, StartFollowUp

\* Nothing is under way or recorded at first.
LEMMA UploadStart == Init => UploadInv
<1> SUFFICES ASSUME Init PROVE UploadInv
  OBVIOUS
<1>1. uploads = <<>> /\ created = [a \in Assets |-> 0] /\ replying = FALSE
  BY DEF Init, UploadInit
<1> QED
  BY <1>1 DEF UploadInv, OneUploadInv

\* Messages are handled by an agent that runs; and what overtook a tear-down has.
LEMMA HostKept ==
  ASSUME replying => alive, [Next]_vars
  PROVE  (replying' => alive') /\ (overtaken => overtaken')
<1> USE DEF host, handling, registration
<1>1. overtaken => overtaken'
  BY DEF Next, vars, Start, Crash, AgentEnds, BeginTearDown, TearDown, Connect, Drop, StopsWorking,
         ReportsEnd, Handle, HandleInit, HandleAssign, HandleAck, Reply, Inquire, Check, Answer, AllAnswered,
         Upload, UploadGoesOn, UploadIsRefused, FollowUpFails, FileWritten, RequestIsServedLate, ServerInit,
         ServerRead, ServerAssign
<1>2. replying' => alive'
  BY DEF Next, vars, Start, Crash, AgentEnds, BeginTearDown, TearDown, Connect, Drop, StopsWorking,
         ReportsEnd, Handle, HandleInit, HandleAssign, HandleAck, Receives, Reply, Inquire, Check, Answer,
         AllAnswered, Upload, UploadGoesOn, UploadIsRefused, FollowUpFails, FileWritten, RequestIsServedLate,
         ServerInit, ServerRead, ServerAssign
<1> QED
  BY <1>1, <1>2

\* Every step keeps the one upload the only one, or an Init overtakes a tear-down.
LEMMA OneUploadStep ==
  ASSUME UploadTypeOK, RecordsOnce, OneUploadInv, replying => alive, [Next]_vars
  PROVE  (OneUploadInv' \/ overtaken') /\ RecordsOnce'
<1> USE DEF uploadVars
<1>1. UNCHANGED created => RecordsOnce'
  BY DEF RecordsOnce
<1>2. uploads' = <<>> => OneUploadInv'
  BY DEF OneUploadInv
<1>3. CASE Start
  <2>1. uploads = <<>>
    BY <1>3 DEF Start, OneUploadInv
  <2> QED
    BY <1>1, <1>2, <1>3, <2>1 DEF Start
<1>4. CASE Connect \/ Drop
  BY <1>1, <1>4, UploadSame DEF Connect, Drop, registration
<1>5. CASE Crash
  BY <1>1, <1>2, <1>5 DEF Crash, AgentEnds
<1>6. CASE BeginTearDown
  <2>1. UNCHANGED created
    BY <1>6 DEF BeginTearDown
  <2> QED
    BY <1>1, <1>2, <1>6, <2>1, TearDownKeeps
<1>7. CASE TearDown
  <2>1. uploads = <<>>
    BY <1>7 DEF TearDown, OneUploadInv
  <2> QED
    BY <1>1, <1>2, <1>7, <2>1 DEF TearDown, AgentEnds
<1>8. ASSUME NEW t \in Tasks, StopsWorking(t) \/ ReportsEnd(t) \/ ServerAssign(t)
      PROVE  OneUploadInv' /\ RecordsOnce'
  BY <1>1, <1>8, UploadSame DEF StopsWorking, ReportsEnd, ServerAssign
<1>9. CASE Handle
  BY <1>1, <1>9, UploadSame DEF Handle, HandleInit, HandleAssign, HandleAck
<1>10. CASE Inquire \/ Check \/ Answer
  BY <1>1, <1>10, UploadSame DEF Inquire, Check, Answer
<1>11. CASE AllAnswered
  <2>1. alive /\ UNCHANGED created
    BY <1>11 DEF AllAnswered
  <2> QED
    BY <1>1, <1>11, <2>1, StartsOne
<1>12. ASSUME NEW u \in DOMAIN uploads, UploadGoesOn(u) \/ UploadIsRefused(u)
       PROVE  OneUploadInv' /\ RecordsOnce'
  BY <1>12, AnsweredKeeps DEF UploadGoesOn, UploadIsRefused
<1>13. ASSUME NEW u \in DOMAIN uploads, FollowUpFails(u)
       PROVE  OneUploadInv' /\ RecordsOnce'
  <2>1. uploads' = RemoveAt(uploads, u) /\ UNCHANGED created
    BY <1>13 DEF FollowUpFails, Breaks, CutOff
  <2>2. uploads' = <<>>
    BY <2>1, CutOffKeeps
  <2> QED
    BY <1>1, <1>2, <2>1, <2>2
<1>14. ASSUME NEW a \in Assets, FileWritten(a) \/ RequestIsServedLate(a)
       PROVE  OneUploadInv' /\ RecordsOnce'
  BY <1>1, <1>14, UploadSame DEF FileWritten, FileChanges, RequestIsServedLate, ServedLate
<1>15. CASE ServerInit \/ ServerRead
  BY <1>1, <1>15, UploadSame DEF ServerInit, ServerRead
<1>16. CASE UNCHANGED vars
  BY <1>1, <1>16, UploadSame DEF vars
<1> QED
  BY <1>3, <1>4, <1>5, <1>6, <1>7, <1>8, <1>9, <1>10, <1>11, <1>12, <1>13, <1>14, <1>15, <1>16
     DEF Next, Reply, Upload

\* Every step keeps what makes an asset's record the only one.
LEMMA UploadInductive == TypeOK /\ UploadInv /\ [Next]_vars => UploadInv'
<1> SUFFICES ASSUME TypeOK, UploadInv, [Next]_vars PROVE UploadInv'
  OBVIOUS
<1>1. (replying' => alive') /\ (overtaken => overtaken')
  BY HostKept DEF UploadInv
<1>2. CASE overtaken
  BY <1>1, <1>2 DEF UploadInv
<1>3. CASE ~overtaken
  <2>1. UploadTypeOK /\ RecordsOnce /\ OneUploadInv /\ (replying => alive)
    BY <1>3 DEF TypeOK, UploadInv, RecordsOnce
  <2>2. (OneUploadInv' \/ overtaken') /\ RecordsOnce'
    BY <2>1, OneUploadStep
  <2> QED
    BY <1>1, <2>2 DEF UploadInv, RecordsOnce
<1> QED
  BY <1>2, <1>3

\* No two uploads both record an asset, whatever breaks them off and whenever a request
\* that was cut off is served: unless an Init overtook a tear-down, which lets two run.
THEOREM RecordedForOneHolds == Spec => []RecordedForOne
<1>1. UploadInv => RecordedForOne
  BY DEF UploadInv, RecordedForOne
<1> QED
  BY <1>1, UploadStart, UploadInductive, TypesHold, PTL DEF Spec

=============================================================================
