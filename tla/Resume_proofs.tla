---------------------------- MODULE Resume_proofs ----------------------------
(***************************************************************************)
(* Proofs about Resume, for every program of workflows and any number of   *)
(* processes: one value per effect, one step per frame and child, calls    *)
(* that find their own children, no frame after the end, and that it       *)
(* implements DurableWorkflow.                                             *)
(***************************************************************************)
EXTENDS Resume, FiniteSetTheorems, TLAPS

-----------------------------------------------------------------------------
(* The invariant.                                                          *)

(* Messages. *)

Requests == [call : Calls, parent : Tasks, call_key : CallKeys, parent_step : Nat \ {0}]
Acks == [type : {"JOURNAL_ACK"}, session : Runs, pos : Nat \ {0}]
Assigns == [type : {"ASSIGN"}, task : Tasks, effects : [Effects -> 0 .. MaxRun], last_step : Nat]
Responses == [type : {"ASSIGN_RESPONSE"}, call : Calls, child : Children]

TypeInv ==
    /\ TypeOK
    /\ line \in Seq(Frames \cup Requests)
    /\ inbox \in Seq(Acks \cup Assigns \cup Responses)
    /\ IsFiniteSet(journal) /\ IsFiniteSet(projected) /\ IsFiniteSet(children)

(* Delivery.  What is on record stays there, for an ack covers nothing the *)
(* server does not have: on the way to it no frame overtakes another.      *)

Covers(ack, f) == f.session = ack.session /\ f.pos <= ack.pos

\* A frame is numbered once, in this run or before it.
NumberedOnce ==
    /\ \A f \in OnRecord : f.session <= run /\ (f.session = run => f.pos <= pos)
    /\ \A f, g \in OnRecord : f.session = g.session /\ f.pos = g.pos => f = g

LineInv ==
    /\ \A i \in DOMAIN line : IsFrame(line[i]) =>
          /\ line[i] \in OnRecord
          /\ \A f \in OnRecord : f.session = line[i].session /\ f.pos < line[i].pos =>
                f \in projected \/ \E j \in 1 .. i - 1 : line[j] = f
    /\ alive => \A f \in journal : f \in projected \/ \E j \in DOMAIN line : line[j] = f

AckInv == \A i \in DOMAIN inbox : inbox[i].type = "JOURNAL_ACK" =>
    /\ \E f \in OnRecord : f.session = inbox[i].session /\ f.pos = inbox[i].pos
    /\ \A f \in OnRecord : Covers(inbox[i], f) => f \in projected

ProcessInv ==
    /\ alive => run # 0 /\ retained = journal
    /\ ~alive => retained = {} /\ running = {} /\ line = <<>> /\ inbox = <<>>

DeliveryInv == NumberedOnce /\ LineInv /\ AckInv /\ ProcessInv

(* Values. *)

IsEffect(f, e) == f.what.kind = "EFFECT" /\ f.what.key = e

ValueInv ==
    /\ \A f \in OnRecord : f.what.kind = "EFFECT" => f.task = TaskOf[f.what.key]
    /\ \A e \in Effects :
          /\ \A f, g \in OnRecord : IsEffect(f, e) /\ IsEffect(g, e) => f.what.value = g.what.value
          /\ given[e] # 0 => \E f \in OnRecord : IsEffect(f, e) /\ f.what.value = given[e]
          /\ e \in done => given[e] # 0
          /\ TaskOf[e] \in running => IF replay[e] = 0
                THEN e \in done \/ \A f \in OnRecord : ~IsEffect(f, e)
                ELSE \E f \in OnRecord : IsEffect(f, e) /\ f.what.value = replay[e]

(* Steps, calls and children. *)

Underway(c) == calls[c].stage \in {"stepped", "sent"}

\* The server has not read the request of c.
Pending(c) ==
    \/ calls[c].stage = "stepped"
    \/ \E i \in DOMAIN line : ~IsFrame(line[i]) /\ line[i].call = c

StepInv ==
    /\ \A f, g \in OnRecord : f.task = g.task /\ f.step = g.step => f = g
    /\ \A c, d \in children : c.parent = d.parent /\ c.parent_step = d.parent_step => c = d
    /\ \A f \in OnRecord, c \in children : f.task = c.parent => f.step # c.parent_step
    /\ \A t \in running :
          /\ \A f \in OnRecord : f.task = t => f.step <= step[t]
          /\ \A c \in children : c.parent = t => c.parent_step <= step[t]
    /\ \A c \in Calls : Underway(c) =>
          /\ calls[c].parent_step <= step[TaskOf[c]]
          /\ \A f \in OnRecord : f.task = TaskOf[c] => f.step # calls[c].parent_step
          /\ \A d \in Calls : Underway(d) /\ TaskOf[d] = TaskOf[c]
                /\ calls[d].parent_step = calls[c].parent_step => d = c
    /\ \A c \in Calls : Pending(c) => \A child \in children :
          child.parent = TaskOf[c] => child.parent_step # calls[c].parent_step

CallInv ==
    /\ \A c \in Calls :
          /\ Underway(c) => TaskOf[c] \in running /\ c \notin done /\ calls[c].parent_step # 0
          /\ c \in done => calls[c].stage = "answered"
          /\ calls[c].stage = "answered" => calls[c].child # {}
          /\ calls[c].stage # "answered" => calls[c].child = {}
          /\ \A child \in calls[c].child :
                child \in children /\ child.parent = TaskOf[c] /\ child.call_key[1] = Base[c]
    /\ \A i \in DOMAIN line : ~IsFrame(line[i]) =>
          LET m == line[i] IN
          /\ calls[m.call].stage = "sent" /\ m.parent_step = calls[m.call].parent_step
          /\ m.parent = TaskOf[m.call] /\ m.call_key[1] = Base[m.call]
          /\ \A j \in DOMAIN line : ~IsFrame(line[j]) /\ line[j].call = m.call => i = j
    /\ \A i \in DOMAIN inbox : inbox[i].type = "ASSIGN_RESPONSE" =>
          LET m == inbox[i] IN
          /\ calls[m.call].stage = "sent" /\ m.child \in children
          /\ m.child.parent = TaskOf[m.call] /\ m.child.call_key[1] = Base[m.call]
          /\ \A j \in DOMAIN inbox : inbox[j].type = "ASSIGN_RESPONSE" /\ inbox[j].call = m.call => i = j
          /\ \A j \in DOMAIN line : ~(~IsFrame(line[j]) /\ line[j].call = m.call)

(* Keys.  A call made again by a later run has the key it had. *)

\* The n-th of its target is what c asks for, is answered, or has found.
Holds(c, n) ==
    \/ \E i \in DOMAIN line : ~IsFrame(line[i]) /\ line[i].call = c /\ line[i].call_key[2] = n
    \/ \E i \in DOMAIN inbox : inbox[i].type = "ASSIGN_RESPONSE" /\ inbox[i].call = c
                               /\ inbox[i].child.call_key[2] = n
    \/ \E child \in calls[c].child : child.call_key[2] = n

CallsTo(t, b) == {c \in Calls : TaskOf[c] = t /\ Base[c] = b}
Sent(t, b) == {c \in CallsTo(t, b) : calls[c].stage \in {"sent", "answered"}}

KeyInv ==
    /\ \A c, d \in Calls : TaskOf[c] = TaskOf[d] /\ Base[c] = Base[d] =>
          \A n \in 1 .. Cardinality(Calls) : Holds(c, n) /\ Holds(d, n) => c = d
    /\ \A c \in Calls : TaskOf[c] \in running => \A n \in 1 .. Cardinality(Calls) :
          Holds(c, n) => n <= occurrences[<<TaskOf[c], Base[c]>>]
    /\ \A t \in running, b \in Bases : occurrences[<<t, b>>] = Cardinality(Sent(t, b))
    /\ \A c, d \in children : c.parent = d.parent /\ c.call_key = d.call_key => c = d
    /\ \A c \in children : c.call_key[2] <= Cardinality(CallsTo(c.parent, c.call_key[1]))

(* An Assign on its way.  Nothing of its task happens until it is handled, *)
(* and what its journal lacks is still retained then.                      *)

Fresh(t) ==
    /\ t \notin running
    /\ \A p \in Points : TaskOf[p] = t => p \notin done
    /\ \A c \in Calls : TaskOf[c] = t => calls[c] = NoCall
    /\ \A b \in Bases : occurrences[<<t, b>>] = 0

Knows(m, f) ==
    /\ f.step <= m.last_step /\ f.what.kind # "END"
    /\ f.what.kind = "EFFECT" => m.effects[f.what.key] # 0

Carried(i) ==
    LET m == inbox[i] IN
    /\ assigned[m.task] = run /\ Fresh(m.task)
    /\ \A f \in OnRecord : f.task = m.task => Knows(m, f) \/ (f \in retained
          /\ \A j \in 1 .. i - 1 : inbox[j].type = "JOURNAL_ACK" => ~Covers(inbox[j], f))
    /\ \A c \in children : c.parent = m.task => c.parent_step <= m.last_step
    /\ \A e \in Effects : m.effects[e] # 0 =>
          \E f \in OnRecord : IsEffect(f, e) /\ f.what.value = m.effects[e]

AssignInv ==
    /\ \A t \in Tasks : assigned[t] <= run /\ (assigned[t] < run \/ ~alive => Fresh(t))
    /\ \A i \in DOMAIN inbox : inbox[i].type = "ASSIGN" => Carried(i)
    /\ \A i, j \in DOMAIN inbox :
          inbox[i].type = "ASSIGN" /\ inbox[j].type = "ASSIGN" /\ inbox[j].task = inbox[i].task => i = j

(* The end of a workflow. *)

EndInv ==
    /\ NothingAfterTheEnd
    /\ \A f \in OnRecord : f.what.kind = "END" => f.task \notin running

IInv == TypeInv /\ DeliveryInv /\ ValueInv /\ StepInv /\ CallInv /\ KeyInv /\ AssignInv /\ EndInv

-----------------------------------------------------------------------------
(* Orders of finite sets.                                                  *)

Below(S, R, x) == {y \in S : <<y, x>> \in R}

IsOrder(S, R) ==
    /\ \A x \in S : <<x, x>> \notin R
    /\ \A x, y \in S : x # y => <<x, y>> \in R \/ <<y, x>> \in R
    /\ \A x, y, z \in S : <<x, y>> \in R /\ <<y, z>> \in R => <<x, z>> \in R

\* What is below an element counts less than what is below one above it.
LEMMA RankGrows ==
  ASSUME NEW S, IsFiniteSet(S), NEW R, IsOrder(S, R), NEW x \in S, NEW y \in S, <<x, y>> \in R
  PROVE  Cardinality(Below(S, R, x)) < Cardinality(Below(S, R, y))
<1> DEFINE X == Below(S, R, x)
<1> DEFINE Y == Below(S, R, y)
<1>1. X \subseteq Y /\ x \in Y /\ x \notin X /\ Y \subseteq S
  BY DEF Below, IsOrder
<1>2. IsFiniteSet(Y)
  BY <1>1, FS_Subset
<1> HIDE DEF X, Y
<1>3. IsFiniteSet(X) /\ Cardinality(X) <= Cardinality(Y) /\ Cardinality(X) # Cardinality(Y)
  BY <1>1, <1>2, FS_Subset
<1>4. Cardinality(X) \in Nat /\ Cardinality(Y) \in Nat
  BY <1>2, <1>3, FS_CardinalityType
<1>5. Cardinality(X) < Cardinality(Y)
  BY <1>3, <1>4
<1> QED
  BY <1>5 DEF X, Y

\* The elements of a finite set take every place of its order, one each.
LEMMA RankIsOnto ==
  ASSUME NEW S, IsFiniteSet(S), NEW R, IsOrder(S, R)
  PROVE  /\ Cardinality(S) \in Nat
         /\ \A x \in S : Cardinality(Below(S, R, x)) \in 0 .. Cardinality(S) - 1
         /\ \A x, y \in S : Cardinality(Below(S, R, x)) = Cardinality(Below(S, R, y)) => x = y
         /\ \A i \in 0 .. Cardinality(S) - 1 : \E x \in S : Cardinality(Below(S, R, x)) = i
<1> DEFINE n == Cardinality(S)
<1> DEFINE rank == [x \in S |-> Cardinality(Below(S, R, x))]
<1>1. n \in Nat
  BY FS_CardinalityType
<1>2. ASSUME NEW x \in S PROVE rank[x] \in 0 .. n - 1
  <2>1. Below(S, R, x) \in SUBSET (S \ {x})
    BY DEF Below, IsOrder
  <2>2. IsFiniteSet(S \ {x}) /\ Cardinality(S \ {x}) = n - 1
    BY FS_RemoveElement
  <2>3. IsFiniteSet(Below(S, R, x)) /\ Cardinality(Below(S, R, x)) <= n - 1
    BY <2>1, <2>2, FS_Subset
  <2>4. Cardinality(Below(S, R, x)) \in Nat
    BY <2>3, FS_CardinalityType
  <2> QED
    BY <1>1, <2>3, <2>4
<1>3. ASSUME NEW x \in S, NEW y \in S, rank[x] = rank[y] PROVE x = y
  <2>1. CASE <<x, y>> \in R
    BY <1>1, <1>2, <1>3, <2>1, RankGrows
  <2>2. CASE <<y, x>> \in R
    BY <1>1, <1>2, <1>3, <2>2, RankGrows
  <2> QED
    BY <2>1, <2>2 DEF IsOrder
<1>4. rank \in Injection(S, 0 .. n - 1)
  BY <1>2, <1>3 DEF Injection, IsInjective
<1>5. IsFiniteSet(0 .. n - 1) /\ Cardinality(0 .. n - 1) = n
  BY <1>1, FS_Interval
<1>6. rank \in Surjection(S, 0 .. n - 1)
  BY <1>4, <1>5, FS_Injection
<1>7. \A i \in 0 .. n - 1 : \E x \in S : rank[x] = i
  BY <1>6 DEF Surjection
<1> QED
  BY <1>1, <1>2, <1>3, <1>7

\* Max, of what has one.
LEMMA MaxIsMax ==
  ASSUME NEW S \in SUBSET Nat, IsFiniteSet(S), S # {}
  PROVE  Max(S) \in S /\ \A y \in S : y <= Max(S)
<1> DEFINE R == {p \in S \X S : p[1] < p[2]}
<1> DEFINE n == Cardinality(S)
<1>1. \A x, y \in S : <<x, y>> \in R <=> x < y
  OBVIOUS
<1>2. IsOrder(S, R)
  <2> HIDE DEF R
  <2> QED
    BY <1>1 DEF IsOrder
<1>3. n \in Nat /\ n # 0
  BY FS_CardinalityType, FS_EmptySet
<1> HIDE DEF R
<1>4. PICK x \in S : Cardinality(Below(S, R, x)) = n - 1
  BY <1>2, <1>3, RankIsOnto
<1>5. Below(S, R, x) = S \ {x}
  <2>1. IsFiniteSet(S \ {x}) /\ Cardinality(S \ {x}) = n - 1
    BY FS_RemoveElement
  <2>2. Below(S, R, x) \in SUBSET (S \ {x})
    BY <1>2 DEF Below, IsOrder
  <2> QED
    BY <1>4, <2>1, <2>2, FS_Subset
<1>6. ASSUME NEW y \in S PROVE x >= y
  <2>1. x \in Nat /\ y \in Nat
    OBVIOUS
  <2>2. CASE y = x
    BY <2>1, <2>2
  <2>3. CASE y # x
    <3>1. y \in Below(S, R, x)
      BY <1>5, <2>3
    <3>2. y < x
      BY <1>1, <3>1 DEF Below
    <3> QED
      BY <2>1, <3>2
  <2> QED
    BY <2>2, <2>3
<1> QED
  BY <1>6 DEF Max

\* InOrder has each frame once, behind all it follows.
LEMMA InOrderIsSorted ==
  ASSUME NEW S \in SUBSET Frames, IsFiniteSet(S),
         \A f, g \in S : f.session = g.session /\ f.pos = g.pos => f = g
  PROVE  /\ InOrder(S) \in Seq(S)
         /\ \A f \in S : \E i \in DOMAIN InOrder(S) : InOrder(S)[i] = f
         /\ \A i \in DOMAIN InOrder(S) : \A f \in S :
               SentBefore(f, InOrder(S)[i]) => \E j \in 1 .. i - 1 : InOrder(S)[j] = f
<1> DEFINE R == {p \in S \X S : SentBefore(p[1], p[2])}
<1> DEFINE n == Cardinality(S)
<1> DEFINE rank(f) == Cardinality({g \in S : SentBefore(g, f)})
<1> DEFINE q == InOrder(S)
<1>1. \A f, g \in S : <<f, g>> \in R <=> SentBefore(f, g)
  OBVIOUS
<1>2. \A f \in S : Below(S, R, f) = {g \in S : SentBefore(g, f)}
  BY <1>1 DEF Below
<1>3. \A f \in S : f.session \in Int /\ f.pos \in Int
  BY RunAssumption DEF Frames, Runs
<1> HIDE DEF R
<1>4. IsOrder(S, R)
  BY <1>1, <1>3 DEF IsOrder, SentBefore
<1>5. \A f \in S : rank(f) = Cardinality(Below(S, R, f))
  BY <1>2
<1>6. /\ n \in Nat
      /\ \A f \in S : rank(f) \in 0 .. n - 1
      /\ \A f, g \in S : rank(f) = rank(g) => f = g
      /\ \A i \in 0 .. n - 1 : \E f \in S : rank(f) = i
  BY <1>4, <1>5, RankIsOnto
<1>7. ASSUME NEW f \in S, NEW g \in S, SentBefore(f, g) PROVE rank(f) < rank(g)
  <2>1. <<f, g>> \in R
    BY <1>1, <1>7
  <2>2. Cardinality(Below(S, R, f)) < Cardinality(Below(S, R, g))
    BY <1>4, <2>1, RankGrows
  <2> QED
    BY <1>5, <2>2
<1>8. q = [i \in 1 .. n |-> CHOOSE f \in S : rank(f) = i - 1]
  BY DEF InOrder
<1> HIDE DEF q, rank, n
<1>9. \A i \in 1 .. n : q[i] \in S /\ rank(q[i]) = i - 1
  <2> SUFFICES ASSUME NEW i \in 1 .. n PROVE q[i] \in S /\ rank(q[i]) = i - 1
    OBVIOUS
  <2>1. i - 1 \in 0 .. n - 1
    BY <1>6
  <2>2. \E f \in S : rank(f) = i - 1
    BY <1>6, <2>1
  <2> QED
    BY <1>8, <2>2
<1>10. DOMAIN q = 1 .. n /\ q \in Seq(S)
  BY <1>6, <1>8, <1>9
<1>11. \A f \in S : rank(f) + 1 \in 1 .. n /\ q[rank(f) + 1] = f
  <2> SUFFICES ASSUME NEW f \in S PROVE rank(f) + 1 \in 1 .. n /\ q[rank(f) + 1] = f
    OBVIOUS
  <2>1. rank(f) + 1 \in 1 .. n /\ (rank(f) + 1) - 1 = rank(f)
    BY <1>6
  <2> QED
    BY <1>6, <1>9, <2>1
<1>12. \A i \in 1 .. n : \A f \in S : SentBefore(f, q[i]) => \E j \in 1 .. i - 1 : q[j] = f
  <2> SUFFICES ASSUME NEW i \in 1 .. n, NEW f \in S, SentBefore(f, q[i])
               PROVE  \E j \in 1 .. i - 1 : q[j] = f
    OBVIOUS
  <2>1. rank(f) < i - 1
    BY <1>7, <1>9
  <2>2. rank(f) + 1 \in 1 .. i - 1
    BY <1>6, <2>1
  <2> QED
    BY <1>11, <2>2
<1> QED
  BY <1>10, <1>11, <1>12 DEF q

\* What a non-empty set of frames begins with.
LEMMA EarliestExists ==
  ASSUME NEW S \in SUBSET Frames, IsFiniteSet(S), S # {},
         \A f, g \in S : f.session = g.session /\ f.pos = g.pos => f = g
  PROVE  \E f \in S : \A g \in S : f = g \/ SentBefore(f, g)
<1> DEFINE q == InOrder(S)
<1>1. /\ q \in Seq(S)
      /\ \A f \in S : \E i \in DOMAIN q : q[i] = f
      /\ \A i \in DOMAIN q : \A f \in S : SentBefore(f, q[i]) => \E j \in 1 .. i - 1 : q[j] = f
  BY InOrderIsSorted
<1> HIDE DEF q
<1>2. q # <<>>
  BY <1>1
<1>3. 1 \in DOMAIN q /\ q[1] \in S
  BY <1>1, <1>2
<1>4. \A f \in S : ~SentBefore(f, q[1])
  BY <1>1, <1>3
<1>5. \A f \in S : f.session \in Int /\ f.pos \in Int
  BY RunAssumption DEF Frames, Runs
<1> QED
  BY <1>3, <1>4, <1>5 DEF SentBefore

\* What a function takes on a finite set is a finite set.
LEMMA FiniteImage ==
  ASSUME NEW S, IsFiniteSet(S), NEW f, DOMAIN f = S
  PROVE  IsFiniteSet({f[x] : x \in S})
<1> DEFINE T == {f[x] : x \in S}
<1> DEFINE h == [x \in S |-> f[x]]
<1>1. h \in [S -> T] /\ \A y \in T : \E x \in S : h[x] = y
  OBVIOUS
<1>2. h \in Surjection(S, T)
  BY <1>1 DEF Surjection
<1> QED
  BY <1>2, FS_Surjection

-----------------------------------------------------------------------------
(* Queues and messages.                                                    *)

LEMMA TailFacts ==
  ASSUME NEW S, NEW q \in Seq(S), q # <<>>
  PROVE  /\ 1 \in DOMAIN q /\ Head(q) = q[1] /\ Head(q) \in S /\ Tail(q) \in Seq(S)
         /\ \A i \in DOMAIN Tail(q) :
               i \in Nat /\ i >= 1 /\ i + 1 \in DOMAIN q /\ Tail(q)[i] = q[i + 1]
<1> DEFINE p == Tail(q)
<1>1. /\ DOMAIN q = 1 .. Len(q) /\ DOMAIN p = 1 .. Len(q) - 1
      /\ Head(q) = q[1] /\ Head(q) \in S /\ p \in Seq(S)
      /\ \A i \in 1 .. Len(q) - 1 : p[i] = q[i + 1]
      /\ Len(q) \in Nat \ {0}
  OBVIOUS
<1> HIDE DEF p
<1>2. \A i \in DOMAIN p : i \in Nat /\ i >= 1 /\ i + 1 \in DOMAIN q /\ p[i] = q[i + 1]
  BY <1>1
<1> QED
  BY <1>1, <1>2 DEF p

\* What has been read is no longer ahead of what is left.
LEMMA TailAhead ==
  ASSUME NEW S, NEW q \in Seq(S), q # <<>>,
         NEW x, \E i \in DOMAIN q : q[i] = x
  PROVE  x = Head(q) \/ \E i \in DOMAIN Tail(q) : Tail(q)[i] = x
<1> DEFINE p == Tail(q)
<1>1. /\ DOMAIN q = 1 .. Len(q) /\ DOMAIN p = 1 .. Len(q) - 1
      /\ Head(q) = q[1]
      /\ \A i \in 1 .. Len(q) - 1 : p[i] = q[i + 1]
      /\ Len(q) \in Nat \ {0}
  OBVIOUS
<1> HIDE DEF p
<1>2. PICK i \in DOMAIN q : q[i] = x
  OBVIOUS
<1>3. CASE i = 1
  BY <1>1, <1>2, <1>3
<1>4. CASE i # 1
  <2>1. i - 1 \in DOMAIN p /\ (i - 1) + 1 = i
    BY <1>1, <1>4
  <2>2. p[i - 1] = x
    BY <1>1, <1>2, <2>1
  <2> QED
    BY <2>1, <2>2 DEF p
<1> QED
  BY <1>3, <1>4

LEMMA AppendFacts ==
  ASSUME NEW S, NEW q \in Seq(S), NEW x \in S
  PROVE  /\ Append(q, x) \in Seq(S)
         /\ Len(q) + 1 \in DOMAIN Append(q, x) /\ Append(q, x)[Len(q) + 1] = x
         /\ \A i \in DOMAIN q :
               i \in 1 .. Len(q) /\ i \in DOMAIN Append(q, x) /\ Append(q, x)[i] = q[i]
         /\ \A i \in DOMAIN Append(q, x) :
               \/ i \in DOMAIN q /\ Append(q, x)[i] = q[i]
               \/ i = Len(q) + 1 /\ Append(q, x)[i] = x
<1> DEFINE p == Append(q, x)
<1>1. /\ DOMAIN q = 1 .. Len(q) /\ DOMAIN p = 1 .. Len(q) + 1
      /\ p \in Seq(S) /\ p[Len(q) + 1] = x
      /\ \A i \in 1 .. Len(q) : p[i] = q[i]
      /\ Len(q) \in Nat
  OBVIOUS
<1> HIDE DEF p
<1>2. \A i \in DOMAIN p : \/ i \in DOMAIN q /\ p[i] = q[i]
                          \/ i = Len(q) + 1 /\ p[i] = x
  BY <1>1
<1>3. Len(q) + 1 \in DOMAIN p
  BY <1>1
<1>4. \A i \in DOMAIN q : i \in 1 .. Len(q) /\ i \in DOMAIN p /\ p[i] = q[i]
  BY <1>1
<1> QED
  BY <1>1, <1>2, <1>3, <1>4 DEF p

LEMMA ConcatFacts ==
  ASSUME NEW S, NEW p \in Seq(S), NEW q \in Seq(S)
  PROVE  /\ p \o q \in Seq(S)
         /\ \A i \in DOMAIN p :
               i \in 1 .. Len(p) /\ i \in DOMAIN (p \o q) /\ (p \o q)[i] = p[i]
         /\ \A i \in DOMAIN (p \o q) :
               \/ i \in DOMAIN p /\ (p \o q)[i] = p[i]
               \/ /\ 1 .. Len(p) \subseteq 1 .. i - 1
                  /\ \E j \in DOMAIN q : (p \o q)[i] = q[j]
<1> DEFINE r == p \o q
<1>1. /\ DOMAIN p = 1 .. Len(p) /\ DOMAIN q = 1 .. Len(q) /\ DOMAIN r = 1 .. Len(p) + Len(q)
      /\ Len(p) \in Nat /\ Len(q) \in Nat /\ r \in Seq(S)
      /\ \A i \in 1 .. Len(p) : r[i] = p[i]
      /\ \A i \in 1 .. Len(q) : r[i + Len(p)] = q[i]
  OBVIOUS
<1> HIDE DEF r
<1>2. ASSUME NEW i \in DOMAIN r, i \notin DOMAIN p
      PROVE  1 .. Len(p) \subseteq 1 .. i - 1 /\ \E j \in DOMAIN q : r[i] = q[j]
  <2>1. i - Len(p) \in DOMAIN q /\ (i - Len(p)) + Len(p) = i
    BY <1>1, <1>2
  <2>2. r[i] = q[i - Len(p)]
    BY <1>1, <2>1
  <2>3. 1 .. Len(p) \subseteq 1 .. i - 1
    BY <1>1, <1>2
  <2> QED
    BY <2>1, <2>2, <2>3
<1>3. \A i \in DOMAIN p : i \in 1 .. Len(p) /\ i \in DOMAIN r /\ r[i] = p[i]
  BY <1>1
<1> QED
  BY <1>1, <1>2, <1>3 DEF r

\* Messages are told apart by what they have.
LEMMA Kinds ==
  /\ \A m \in Frames : IsFrame(m)
  /\ \A m \in Requests : ~IsFrame(m)
  /\ \A m \in Acks : m.type = "JOURNAL_ACK"
  /\ \A m \in Assigns : m.type = "ASSIGN"
  /\ \A m \in Responses : m.type = "ASSIGN_RESPONSE"
BY DEF Frames, Requests, IsFrame, Acks, Assigns, Responses


-----------------------------------------------------------------------------
(* What is on record grows by the frames that are emitted, and never       *)
(* shrinks.                                                                *)

New(t, what) == Frame(t, step[t] + 1, what)

EffectOf(e) == [kind |-> "EFFECT", key |-> e, value |-> run]

LEMMA WhatIsWhat ==
  ASSUME TypeInv, run # 0
  PROVE  /\ \A e \in Effects : EffectOf(e) \in What
         /\ [kind |-> "REPORT"] \in What /\ [kind |-> "END"] \in What
BY RunAssumption DEF TypeInv, TypeOK, What, EffectOf, Runs

LEMMA FramesOnRecord ==
  ASSUME TypeInv
  PROVE  /\ OnRecord \in SUBSET Frames /\ IsFiniteSet(OnRecord)
         /\ \A f \in Frames : /\ f.session \in Runs /\ f.pos \in Nat \ {0} /\ f.task \in Tasks
                              /\ f.step \in Nat \ {0} /\ f.what \in What
<1>1. OnRecord \in SUBSET Frames
  BY DEF TypeInv, TypeOK, OnRecord
<1>2. IsFiniteSet(OnRecord)
  BY FS_Union DEF TypeInv, OnRecord
<1> QED
  BY <1>1, <1>2 DEF Frames

LEMMA Emitted ==
  ASSUME TypeInv, DeliveryInv, alive, NEW t \in Tasks, NEW what \in What,
         Emit(t, what), UNCHANGED <<run, projected>>
  PROVE  /\ New(t, what) \in Frames
         /\ OnRecord' = OnRecord \cup {New(t, what)}
         /\ New(t, what).session = run /\ New(t, what).pos = pos + 1
         /\ New(t, what).task = t /\ New(t, what).step = step[t] + 1
         /\ New(t, what).what = what
         /\ \A g \in OnRecord : SentBefore(g, New(t, what)) /\ g # New(t, what)
         /\ journal' = journal \cup {New(t, what)} /\ retained' = retained \cup {New(t, what)}
         /\ line' = Append(line, New(t, what))
<1>1. run \in Runs /\ pos \in Nat /\ step[t] \in Nat
  BY RunAssumption DEF TypeInv, TypeOK, DeliveryInv, ProcessInv, Runs
<1>2. /\ New(t, what).session = run /\ New(t, what).pos = pos + 1
      /\ New(t, what).task = t /\ New(t, what).step = step[t] + 1
      /\ New(t, what).what = what
  BY DEF New, Frame
<1>3. New(t, what) \in Frames
  BY <1>1 DEF New, Frame, Frames
<1>4. /\ journal' = journal \cup {New(t, what)} /\ retained' = retained \cup {New(t, what)}
      /\ line' = Append(line, New(t, what))
  BY DEF Emit, New
<1>5. OnRecord' = OnRecord \cup {New(t, what)}
  BY <1>4 DEF OnRecord
<1>6. ASSUME NEW g \in OnRecord PROVE SentBefore(g, New(t, what)) /\ g # New(t, what)
  <2>1. g.session \in Int /\ g.pos \in Int /\ run \in Int
    BY <1>1, FramesOnRecord DEF Runs
  <2>2. g.session <= run /\ (g.session = run => g.pos <= pos)
    BY DEF DeliveryInv, NumberedOnce
  <2>3. g.session < run \/ (g.session = run /\ g.pos < pos + 1)
    BY <1>1, <2>1, <2>2
  <2>4. g.session # run \/ g.pos # pos + 1
    BY <1>1, <2>1, <2>3
  <2> QED
    BY <1>2, <2>3, <2>4 DEF SentBefore
<1> QED
  BY <1>2, <1>3, <1>4, <1>5, <1>6

\* The message that is handled, and those behind it.
LEMMA Handled ==
  ASSUME TypeInv, inbox # <<>>
  PROVE  /\ 1 \in DOMAIN inbox /\ Head(inbox) = inbox[1]
         /\ Tail(inbox) \in Seq(Acks \cup Assigns \cup Responses)
         /\ \A i \in DOMAIN Tail(inbox) :
               i \in Nat /\ i >= 1 /\ i + 1 \in DOMAIN inbox /\ Tail(inbox)[i] = inbox[i + 1]
         /\ Head(inbox).type = "JOURNAL_ACK" => Head(inbox) \in Acks
         /\ Head(inbox).type = "ASSIGN" => Head(inbox) \in Assigns
         /\ Head(inbox).type = "ASSIGN_RESPONSE" => Head(inbox) \in Responses
<1> DEFINE S == Acks \cup Assigns \cup Responses
<1>1. inbox \in Seq(S)
  BY DEF TypeInv
<1> HIDE DEF S
<1>2. /\ 1 \in DOMAIN inbox /\ Head(inbox) = inbox[1] /\ Head(inbox) \in S
      /\ Tail(inbox) \in Seq(S)
      /\ \A i \in DOMAIN Tail(inbox) :
            i \in Nat /\ i >= 1 /\ i + 1 \in DOMAIN inbox /\ Tail(inbox)[i] = inbox[i + 1]
  BY <1>1, TailFacts
<1> QED
  BY <1>2, Kinds DEF S

\* The message the server reads, and those behind it.
LEMMA Read ==
  ASSUME TypeInv, line # <<>>
  PROVE  /\ 1 \in DOMAIN line /\ Head(line) = line[1]
         /\ Tail(line) \in Seq(Frames \cup Requests)
         /\ \A i \in DOMAIN Tail(line) :
               i \in Nat /\ i >= 1 /\ i + 1 \in DOMAIN line /\ Tail(line)[i] = line[i + 1]
         /\ IsFrame(Head(line)) => Head(line) \in Frames
         /\ ~IsFrame(Head(line)) => Head(line) \in Requests
<1> DEFINE S == Frames \cup Requests
<1>1. line \in Seq(S)
  BY DEF TypeInv
<1> HIDE DEF S
<1>2. /\ 1 \in DOMAIN line /\ Head(line) = line[1] /\ Head(line) \in S
      /\ Tail(line) \in Seq(S)
      /\ \A i \in DOMAIN Tail(line) :
            i \in Nat /\ i >= 1 /\ i + 1 \in DOMAIN line /\ Tail(line)[i] = line[i + 1]
  BY <1>1, TailFacts
<1> QED
  BY <1>2, Kinds DEF S

\* What an ack covers is projected, and on record without being retained.
LEMMA AckKeepsRecord ==
  ASSUME TypeInv, DeliveryInv, HandleAck
  PROVE  /\ OnRecord' = OnRecord /\ projected' = projected /\ Head(inbox) \in Acks
         /\ journal' = {f \in journal : ~Covers(Head(inbox), f)}
         /\ retained' = {f \in retained : ~Covers(Head(inbox), f)}
<1> DEFINE m == Head(inbox)
<1>1. 1 \in DOMAIN inbox /\ m = inbox[1] /\ m \in Acks
  BY Handled DEF HandleAck
<1>2. \A f \in OnRecord : Covers(m, f) => f \in projected
  BY <1>1, Kinds DEF DeliveryInv, AckInv
<1>3. projected' = projected
  BY DEF HandleAck, server
<1>4. /\ journal' = {f \in journal : ~Covers(m, f)}
      /\ retained' = {f \in retained : ~Covers(m, f)}
  BY DEF HandleAck, Covers
<1> HIDE DEF m
<1>5. OnRecord' = OnRecord
  BY <1>2, <1>3, <1>4 DEF OnRecord
<1> QED
  BY <1>1, <1>3, <1>4, <1>5 DEF m

\* What the server reads was on record already.
LEMMA ReadKeepsRecord ==
  ASSUME TypeInv, DeliveryInv, ServerReadFrame
  PROVE  /\ OnRecord' = OnRecord /\ Head(line) \in OnRecord
         /\ projected' = projected \cup {Head(line)}
<1>1. 1 \in DOMAIN line /\ Head(line) = line[1] /\ IsFrame(Head(line))
  BY Read DEF ServerReadFrame
<1>2. Head(line) \in OnRecord
  BY <1>1 DEF DeliveryInv, LineInv
<1>3. projected' = projected \cup {Head(line)} /\ journal' = journal
  BY DEF ServerReadFrame
<1> QED
  BY <1>2, <1>3 DEF OnRecord


-----------------------------------------------------------------------------
(* What the agent and the server make of a journal.                        *)

LEMMA EffectHasValue ==
  ASSUME NEW f \in Frames, f.what.kind = "EFFECT"
  PROVE  f.what.key \in Effects /\ f.what.value \in Runs /\ f.what.value # 0 /\ f.what.value \in 0 .. MaxRun
<1>1. f.what \in What
  BY DEF Frames
<1>2. f.what \in [kind : {"EFFECT"}, key : Effects, value : Runs]
  BY <1>1 DEF What
<1> QED
  BY <1>2, RunAssumption DEF Runs

\* The value the server keeps of an effect is one it was sent.
LEMMA ValueAtIs ==
  ASSUME TypeInv, DeliveryInv, NEW e \in Effects
  PROVE  /\ ValueAt(e) \in 0 .. MaxRun
         /\ ValueAt(e) = 0 => \A f \in projected : ~IsEffect(f, e)
         /\ ValueAt(e) # 0 => \E f \in projected : IsEffect(f, e) /\ f.what.value = ValueAt(e)
<1> DEFINE S == {f \in projected : f.what.kind = "EFFECT" /\ f.what.key = e}
<1>1. S \in SUBSET Frames /\ S \subseteq OnRecord
  BY DEF TypeInv, TypeOK, OnRecord
<1>2. IsFiniteSet(S)
  BY FS_Subset DEF TypeInv
<1>3. \A f, g \in S : f.session = g.session /\ f.pos = g.pos => f = g
  BY <1>1 DEF DeliveryInv, NumberedOnce
<1>4. \A f \in projected : f \in S <=> IsEffect(f, e)
  BY DEF IsEffect
<1>5. ValueAt(e) = IF S = {} THEN 0
                   ELSE (CHOOSE f \in S : \A g \in S : f = g \/ SentBefore(f, g)).what.value
  BY DEF ValueAt
<1>6. S \subseteq projected
  OBVIOUS
<1> HIDE DEF S
<1>7. CASE S = {}
  BY <1>4, <1>5, <1>7, RunAssumption
<1>8. CASE S # {}
  <2> DEFINE x == CHOOSE f \in S : \A g \in S : f = g \/ SentBefore(f, g)
  <2>1. \E f \in S : \A g \in S : f = g \/ SentBefore(f, g)
    BY <1>1, <1>2, <1>3, <1>8, EarliestExists
  <2>2. x \in S
    BY <2>1
  <2>3. ValueAt(e) = x.what.value
    BY <1>5, <1>8
  <2> HIDE DEF x
  <2>4. x \in Frames /\ x \in projected /\ IsEffect(x, e)
    BY <1>1, <1>4, <1>6, <2>2
  <2>5. x.what.value # 0 /\ x.what.value \in 0 .. MaxRun
    BY <2>4, EffectHasValue DEF IsEffect
  <2> QED
    BY <2>3, <2>4, <2>5
<1> QED
  BY <1>7, <1>8

\* The value a resumed workflow is given is one the server has or the agent retained.
LEMMA ReplayIs ==
  ASSUME TypeInv, NEW m \in Assigns
  PROVE  /\ Replay(m) \in [Effects -> 0 .. MaxRun]
         /\ \A e \in Effects :
               /\ Replay(m)[e] = 0 => /\ m.effects[e] = 0
                                      /\ \A f \in retained : f.task = m.task => ~IsEffect(f, e)
               /\ Replay(m)[e] # 0 => \/ m.effects[e] # 0 /\ m.effects[e] = Replay(m)[e]
                                      \/ \E f \in retained : IsEffect(f, e) /\ f.what.value = Replay(m)[e]
<1>1. m.effects \in [Effects -> 0 .. MaxRun]
  BY DEF Assigns
<1>2. ASSUME NEW e \in Effects
      PROVE  /\ Replay(m)[e] \in 0 .. MaxRun
             /\ Replay(m)[e] = 0 => /\ m.effects[e] = 0
                                    /\ \A f \in retained : f.task = m.task => ~IsEffect(f, e)
             /\ Replay(m)[e] # 0 => \/ m.effects[e] # 0 /\ m.effects[e] = Replay(m)[e]
                                    \/ \E f \in retained : IsEffect(f, e) /\ f.what.value = Replay(m)[e]
  <2>1. CASE \E f \in HeldEffects(m) : f.what.key = e
    <3> DEFINE x == CHOOSE f \in HeldEffects(m) : f.what.key = e
    <3>1. x \in HeldEffects(m) /\ x.what.key = e
      BY <2>1
    <3>2. Replay(m)[e] = x.what.value
      BY <2>1 DEF Replay
    <3> HIDE DEF x
    <3>3. x \in retained /\ x \in Frames /\ x.what.kind = "EFFECT"
      BY <3>1 DEF HeldEffects, TypeInv, TypeOK
    <3>4. x.what.value # 0 /\ x.what.value \in 0 .. MaxRun
      BY <3>3, EffectHasValue
    <3> QED
      BY <3>1, <3>2, <3>3, <3>4 DEF IsEffect
  <2>2. CASE ~ \E f \in HeldEffects(m) : f.what.key = e
    <3>1. Replay(m)[e] = m.effects[e]
      BY <2>2 DEF Replay
    <3>2. m.effects[e] = 0 => \A f \in retained : f.task = m.task => ~IsEffect(f, e)
      BY <2>2 DEF HeldEffects, IsEffect
    <3> QED
      BY <1>1, <3>1, <3>2
  <2> QED
    BY <2>1, <2>2
<1>3. Replay(m) \in [Effects -> 0 .. MaxRun]
  <2>1. Replay(m) = [e \in Effects |-> Replay(m)[e]]
    BY DEF Replay
  <2> QED
    BY <1>2, <2>1
<1> QED
  BY <1>2, <1>3

\* The steps a set of frames has are finitely many, and so are those of children.
LEMMA StepsAreFinite ==
  ASSUME TypeInv
  PROVE  /\ \A S \in SUBSET Frames : IsFiniteSet(S) =>
               {f.step : f \in S} \in SUBSET Nat /\ IsFiniteSet({f.step : f \in S})
         /\ \A S \in SUBSET Children : IsFiniteSet(S) =>
               {c.parent_step : c \in S} \in SUBSET Nat /\ IsFiniteSet({c.parent_step : c \in S})
<1>1. ASSUME NEW S \in SUBSET Frames, IsFiniteSet(S)
      PROVE  {f.step : f \in S} \in SUBSET Nat /\ IsFiniteSet({f.step : f \in S})
  <2> DEFINE steps == [f \in S |-> f.step]
  <2>1. IsFiniteSet({steps[f] : f \in S})
    BY <1>1, FiniteImage
  <2>2. {steps[f] : f \in S} = {f.step : f \in S}
    OBVIOUS
  <2> QED
    BY <2>1, <2>2 DEF Frames
<1>2. ASSUME NEW S \in SUBSET Children, IsFiniteSet(S)
      PROVE  {c.parent_step : c \in S} \in SUBSET Nat /\ IsFiniteSet({c.parent_step : c \in S})
  <2> DEFINE steps == [c \in S |-> c.parent_step]
  <2>1. IsFiniteSet({steps[c] : c \in S})
    BY <1>2, FiniteImage
  <2>2. {steps[c] : c \in S} = {c.parent_step : c \in S}
    OBVIOUS
  <2> QED
    BY <2>1, <2>2 DEF Children
<1> QED
  BY <1>1, <1>2

\* A resumed workflow goes on behind every step the server counted or the agent retained.
LEMMA LastStepIs ==
  ASSUME TypeInv, retained = journal, NEW m \in Assigns
  PROVE  /\ LastStep(m) \in Nat /\ m.last_step <= LastStep(m)
         /\ \A f \in retained : f.task = m.task => f.step <= LastStep(m)
<1> DEFINE S == {g \in retained : g.task = m.task}
<1> DEFINE T == {m.last_step} \cup {f.step : f \in S}
<1>1. S \in SUBSET Frames /\ IsFiniteSet(S)
  BY FS_Subset DEF TypeInv, TypeOK
<1>2. m.last_step \in Nat
  BY DEF Assigns
<1>3. \A f \in retained : f.task = m.task => f.step \in T
  OBVIOUS
<1>4. LastStep(m) = Max(T)
  BY DEF LastStep, RetainedSteps
<1> HIDE DEF S
<1>5. T \in SUBSET Nat /\ IsFiniteSet(T) /\ m.last_step \in T
  BY <1>1, <1>2, StepsAreFinite, FS_Singleton, FS_Union
<1> HIDE DEF T
<1>6. Max(T) \in T /\ \A y \in T : y <= Max(T)
  BY <1>5, MaxIsMax
<1> QED
  BY <1>3, <1>4, <1>5, <1>6

\* The step an Assign carries is that of the last frame or child the server has.
LEMMA StepsAtIs ==
  ASSUME TypeInv, NEW t \in Tasks
  PROVE  /\ Max({0} \cup StepsAt(t)) \in Nat
         /\ \A f \in projected : f.task = t => f.step <= Max({0} \cup StepsAt(t))
         /\ \A c \in children : c.parent = t => c.parent_step <= Max({0} \cup StepsAt(t))
<1> DEFINE A == {g \in projected : g.task = t}
<1> DEFINE B == {d \in children : d.parent = t}
<1> DEFINE T == {0} \cup StepsAt(t)
<1>1. A \in SUBSET Frames /\ IsFiniteSet(A) /\ B \in SUBSET Children /\ IsFiniteSet(B)
  BY FS_Subset DEF TypeInv, TypeOK
<1>2. StepsAt(t) = {f.step : f \in A} \cup {c.parent_step : c \in B}
  BY DEF StepsAt
<1>3. /\ \A f \in projected : f.task = t => f.step \in T
      /\ \A c \in children : c.parent = t => c.parent_step \in T
  BY <1>2
<1> HIDE DEF A, B
<1>4. {f.step : f \in A} \in SUBSET Nat /\ IsFiniteSet({f.step : f \in A})
  BY <1>1, StepsAreFinite
<1>5. {c.parent_step : c \in B} \in SUBSET Nat /\ IsFiniteSet({c.parent_step : c \in B})
  BY <1>1, StepsAreFinite
<1>6. T \in SUBSET Nat
  BY <1>2, <1>4, <1>5
<1>7. IsFiniteSet(StepsAt(t))
  BY <1>2, <1>4, <1>5, FS_Union
<1>8. IsFiniteSet(T) /\ T # {}
  BY <1>7, FS_Singleton, FS_Union
<1> HIDE DEF T
<1>9. Max(T) \in T /\ \A y \in T : y <= Max(T)
  BY <1>6, <1>8, MaxIsMax
<1>10. Max(T) \in Nat
  BY <1>6, <1>9
<1> QED
  BY <1>3, <1>9, <1>10 DEF T


-----------------------------------------------------------------------------
(* Requests and their answers.                                             *)

Response(c, child) == [type |-> "ASSIGN_RESPONSE", call |-> c, child |-> child]

\* A request is of a call that waits for it, and is answered with a child that
\* has its key: the one there is, or a new one.
LEMMA RequestRead ==
  ASSUME TypeInv, StepInv, CallInv, ServerReadRequest
  PROVE  \E c \in Calls, child \in Children :
            /\ Head(line) \in Requests /\ 1 \in DOMAIN line /\ line[1] = Head(line)
            /\ ~IsFrame(line[1]) /\ Head(line).call = c
            /\ Underway(c) /\ calls[c].stage = "sent" /\ TaskOf[c] \in running
            /\ child.parent = TaskOf[c] /\ child.call_key = Head(line).call_key
            /\ child.call_key[1] = Base[c]
            /\ line' = Tail(line)
            /\ children' = children \cup {child}
            /\ inbox' = Append(inbox, Response(c, child))
            /\ Response(c, child) \in Responses
            /\ child \notin children =>
                  /\ child.parent_step = calls[c].parent_step
                  /\ \A d \in children : ~(d.parent = child.parent /\ d.call_key = child.call_key)
<1> DEFINE m == Head(line)
<1> DEFINE c == m.call
<1> DEFINE new == [parent |-> m.parent, call_key |-> m.call_key, parent_step |-> m.parent_step]
<1> DEFINE known == {d \in children : d.parent = m.parent
                       /\ (d.call_key = m.call_key \/ d.parent_step = m.parent_step)}
<1>1. line # <<>> /\ ~IsFrame(m) /\ line' = Tail(line)
  BY DEF ServerReadRequest
<1>2. 1 \in DOMAIN line /\ m = line[1] /\ m \in Requests
  BY <1>1, Read
<1>3. c \in Calls /\ new \in Children
  BY <1>2 DEF Requests, Children
<1>4. PICK child \in IF known = {} THEN {new} ELSE known :
         /\ children' = children \cup {child}
         /\ inbox' = Append(inbox, Response(c, child))
  BY DEF ServerReadRequest, Response
<1>5. /\ calls[c].stage = "sent" /\ m.parent_step = calls[c].parent_step
      /\ m.parent = TaskOf[c] /\ m.call_key[1] = Base[c]
  BY <1>1, <1>2 DEF CallInv
<1>6. Underway(c) /\ TaskOf[c] \in running /\ Pending(c)
  BY <1>1, <1>2, <1>3, <1>5 DEF CallInv, Underway, Pending
<1>7. \A d \in children : d.parent = m.parent => d.parent_step # m.parent_step
  BY <1>3, <1>5, <1>6 DEF StepInv
<1>8. children \subseteq Children
  BY DEF TypeInv, TypeOK
<1>9. child.parent = m.parent /\ child.call_key = m.call_key /\ child \in Children
  <2>1. CASE known = {}
    BY <1>3, <1>4, <2>1
  <2>2. CASE known # {}
    BY <1>4, <1>7, <1>8, <2>2
  <2> QED
    BY <2>1, <2>2
<1>10. child \notin children =>
          /\ child.parent_step = calls[c].parent_step
          /\ \A d \in children : ~(d.parent = child.parent /\ d.call_key = child.call_key)
  <2>1. CASE known = {}
    <3>1. child = new
      BY <1>4, <2>1
    <3>2. \A d \in children : ~(d.parent = m.parent /\ d.call_key = m.call_key)
      BY <2>1
    <3> QED
      BY <1>5, <1>9, <3>1, <3>2
  <2>2. CASE known # {}
    BY <1>4, <2>2
  <2> QED
    BY <2>1, <2>2
<1>11. Response(c, child) \in Responses
  BY <1>3, <1>9 DEF Response, Responses
<1> HIDE DEF m, new, known
<1> QED
  BY <1>1, <1>2, <1>3, <1>4, <1>5, <1>6, <1>9, <1>10, <1>11 DEF m

-----------------------------------------------------------------------------
(* Types.                                                                  *)

LEMMA TypeInit == Init => TypeInv
<1> SUFFICES ASSUME Init PROVE TypeInv
  OBVIOUS
<1>1. TypeOK
  <2>1. 0 \in 0 .. Cardinality(Calls) /\ 0 \in 0 .. MaxRun
    BY ProgramAssumption, RunAssumption, FS_CardinalityType
  <2>2. NoCall \in CallStates
    BY DEF NoCall, CallStates
  <2>3. /\ replay \in [Effects -> 0 .. MaxRun] /\ given \in [Effects -> 0 .. MaxRun]
        /\ assigned \in [Tasks -> 0 .. MaxRun] /\ step \in [Tasks -> Nat]
        /\ occurrences \in [Tasks \X Bases -> 0 .. Cardinality(Calls)]
        /\ calls \in [Calls -> CallStates]
    BY <2>1, <2>2 DEF Init
  <2>4. /\ alive \in BOOLEAN /\ run \in 0 .. MaxRun /\ pos \in Nat
        /\ retained \subseteq Frames /\ journal \subseteq Frames /\ projected \subseteq Frames
        /\ running \subseteq Tasks /\ done \subseteq Points /\ children \subseteq Children
    BY <2>1 DEF Init
  <2> QED
    BY <2>3, <2>4 DEF TypeOK
<1>2. line \in Seq(Frames \cup Requests) /\ inbox \in Seq(Acks \cup Assigns \cup Responses)
  BY DEF Init
<1>3. IsFiniteSet(journal) /\ IsFiniteSet(projected) /\ IsFiniteSet(children)
  BY FS_EmptySet DEF Init
<1> QED
  BY <1>1, <1>2, <1>3 DEF TypeInv

\* A step of a running workflow that emits a frame.
LEMMA EmittedTypes ==
  ASSUME TypeInv, DeliveryInv, alive, NEW t \in Tasks, NEW what \in What,
         Emit(t, what), UNCHANGED <<run, projected, replay, calls, children, inbox, assigned, alive>>,
         running' \subseteq Tasks, done' \subseteq Points, given' \in [Effects -> 0 .. MaxRun],
         occurrences' \in [Tasks \X Bases -> 0 .. Cardinality(Calls)]
  PROVE  TypeInv'
<1>1. /\ New(t, what) \in Frames
      /\ journal' = journal \cup {New(t, what)} /\ retained' = retained \cup {New(t, what)}
      /\ line' = Append(line, New(t, what))
  BY Emitted
<1>2. line' \in Seq(Frames \cup Requests)
  BY <1>1, AppendFacts DEF TypeInv
<1>3. IsFiniteSet(journal')
  BY <1>1, FS_AddElement DEF TypeInv
<1>4. pos' \in Nat /\ step' \in [Tasks -> Nat]
  BY DEF TypeInv, TypeOK, Emit
<1>5. TypeOK'
  BY <1>1, <1>4 DEF TypeInv, TypeOK
<1> QED
  BY <1>2, <1>3, <1>5 DEF TypeInv


LEMMA TypeStart == ASSUME TypeInv, DeliveryInv, Start PROVE TypeInv'
<1>1. run' \in 0 .. MaxRun
  BY RunAssumption DEF TypeInv, TypeOK, Start
<1>2. InOrder(journal) \in Seq(journal)
  BY InOrderIsSorted DEF TypeInv, TypeOK, DeliveryInv, NumberedOnce, OnRecord
<1>3. line' \in Seq(Frames \cup Requests)
  BY <1>2 DEF TypeInv, TypeOK, Start
<1> QED
  BY <1>1, <1>3 DEF TypeInv, TypeOK, Start, workflow, server

LEMMA TypeCrash == ASSUME TypeInv, Crash PROVE TypeInv'
<1>1. 0 \in 0 .. Cardinality(Calls) /\ 0 \in 0 .. MaxRun /\ NoCall \in CallStates
  BY ProgramAssumption, RunAssumption, FS_CardinalityType DEF NoCall, CallStates
<1>2. /\ replay' \in [Effects -> 0 .. MaxRun] /\ given' \in [Effects -> 0 .. MaxRun]
      /\ step' \in [Tasks -> Nat] /\ calls' \in [Calls -> CallStates]
      /\ occurrences' \in [Tasks \X Bases -> 0 .. Cardinality(Calls)]
  BY <1>1 DEF Crash
<1>3. line' = <<>> /\ inbox' = <<>> /\ retained' = {} /\ running' = {} /\ done' = {} /\ alive' = FALSE
  BY DEF Crash
<1>4. UNCHANGED <<run, pos, journal, projected, children, assigned>>
  BY DEF Crash, server
<1>5. line' \in Seq(Frames \cup Requests) /\ inbox' \in Seq(Acks \cup Assigns \cup Responses)
  BY <1>3
<1>6. TypeOK'
  BY <1>2, <1>3, <1>4 DEF TypeInv, TypeOK
<1> QED
  BY <1>4, <1>5, <1>6 DEF TypeInv

LEMMA TypeHandle == ASSUME TypeInv, DeliveryInv, Handle PROVE TypeInv'
<1>1. CASE HandleAssign
  <2> DEFINE m == Head(inbox)
  <2>1. alive /\ m \in Assigns /\ inbox' \in Seq(Acks \cup Assigns \cup Responses)
    BY <1>1, Handled DEF HandleAssign
  <2>2. UNCHANGED <<process, done, given, calls, occurrences, journal, server>>
    BY <1>1 DEF HandleAssign
  <2>3. \/ line' = line \o InOrder(RetainedEnd(m.task)) /\ UNCHANGED <<running, replay, step>>
        \/ /\ running' = running \cup {m.task} /\ UNCHANGED line
           /\ replay' = [e \in Effects |-> IF TaskOf[e] = m.task THEN Replay(m)[e] ELSE replay[e]]
           /\ step' = [step EXCEPT ![m.task] = LastStep(m)]
    BY <1>1 DEF HandleAssign
  <2> HIDE DEF m
  <2>4. CASE line' = line \o InOrder(RetainedEnd(m.task)) /\ UNCHANGED <<running, replay, step>>
    <3>1. RetainedEnd(m.task) \in SUBSET journal /\ RetainedEnd(m.task) \in SUBSET Frames
      BY <2>1 DEF RetainedEnd, DeliveryInv, ProcessInv, TypeInv, TypeOK
    <3>2. IsFiniteSet(RetainedEnd(m.task))
      BY <3>1, FS_Subset DEF TypeInv
    <3>3. InOrder(RetainedEnd(m.task)) \in Seq(RetainedEnd(m.task))
      BY <3>1, <3>2, InOrderIsSorted DEF DeliveryInv, NumberedOnce, OnRecord
    <3>4. InOrder(RetainedEnd(m.task)) \in Seq(Frames \cup Requests)
      BY <3>1, <3>3
    <3>5. line' \in Seq(Frames \cup Requests)
      BY <2>4, <3>4, ConcatFacts DEF TypeInv
    <3> QED
      BY <2>1, <2>2, <2>4, <3>5 DEF TypeInv, TypeOK, process, server
  <2>5. CASE /\ running' = running \cup {m.task} /\ UNCHANGED line
             /\ replay' = [e \in Effects |-> IF TaskOf[e] = m.task THEN Replay(m)[e] ELSE replay[e]]
             /\ step' = [step EXCEPT ![m.task] = LastStep(m)]
    <3>1. Replay(m) \in [Effects -> 0 .. MaxRun]
      BY <2>1, ReplayIs
    <3>2. LastStep(m) \in Nat
      BY <2>1, LastStepIs DEF DeliveryInv, ProcessInv
    <3>3. m.task \in Tasks
      BY <2>1 DEF Assigns
    <3>4. replay' \in [Effects -> 0 .. MaxRun]
      BY <2>5, <3>1 DEF TypeInv, TypeOK
    <3>5. step' \in [Tasks -> Nat]
      BY <2>5, <3>2 DEF TypeInv, TypeOK
    <3> QED
      BY <2>1, <2>2, <2>5, <3>3, <3>4, <3>5 DEF TypeInv, TypeOK, process, server
  <2> QED
    BY <2>3, <2>4, <2>5
<1>2. CASE HandleAck
  <2>1. inbox' \in Seq(Acks \cup Assigns \cup Responses)
    BY <1>2, Handled DEF HandleAck
  <2>2. retained' \subseteq retained /\ journal' \subseteq journal
    BY <1>2, AckKeepsRecord
  <2>3. IsFiniteSet(journal')
    BY <2>2, FS_Subset DEF TypeInv
  <2>4. UNCHANGED <<alive, run, pos, workflow, line, server>>
    BY <1>2 DEF HandleAck
  <2> QED
    BY <2>1, <2>2, <2>3, <2>4 DEF TypeInv, TypeOK, workflow, server
<1>3. CASE HandleResponse
  <2> DEFINE m == Head(inbox)
  <2>1. m \in Responses /\ inbox' \in Seq(Acks \cup Assigns \cup Responses)
    BY <1>3, Handled DEF HandleResponse
  <2>2. calls' = [calls EXCEPT ![m.call] = [@ EXCEPT !.stage = "answered", !.child = {m.child}]]
    BY <1>3 DEF HandleResponse
  <2>3. done' = done \cup {m.call} /\ UNCHANGED <<process, running, replay, step, given, occurrences, journal, line, server>>
    BY <1>3 DEF HandleResponse
  <2> HIDE DEF m
  <2>4. m.call \in Calls /\ m.child \in Children
    BY <2>1 DEF Responses
  <2>5. calls' \in [Calls -> CallStates]
    BY <2>2, <2>4 DEF TypeInv, TypeOK, CallStates
  <2> QED
    BY <2>1, <2>3, <2>4, <2>5 DEF TypeInv, TypeOK, process, server, Points
<1> QED
  BY <1>1, <1>2, <1>3 DEF Handle

LEMMA TypeServer == ASSUME TypeInv, DeliveryInv, StepInv, CallInv, Server PROVE TypeInv'
<1> DEFINE S == Acks \cup Assigns \cup Responses
<1>0. inbox \in Seq(S)
  BY DEF TypeInv
<1>1. CASE ServerReadFrame
  <2> DEFINE ack == [type |-> "JOURNAL_ACK", session |-> Head(line).session, pos |-> Head(line).pos]
  <2>1. Head(line) \in Frames /\ line' \in Seq(Frames \cup Requests)
    BY <1>1, Read DEF ServerReadFrame
  <2>2. ack \in Acks
    BY <2>1 DEF Acks, Frames
  <2>3. inbox' = Append(inbox, ack)
    BY <1>1 DEF ServerReadFrame
  <2> HIDE DEF ack
  <2>4. inbox' \in Seq(S)
    BY <1>0, <2>2, <2>3, AppendFacts
  <2>5. projected' = projected \cup {Head(line)} /\ UNCHANGED <<process, workflow, journal, children, assigned>>
    BY <1>1 DEF ServerReadFrame
  <2>6. IsFiniteSet(projected')
    BY <2>5, FS_AddElement DEF TypeInv
  <2> QED
    BY <2>1, <2>4, <2>5, <2>6 DEF TypeInv, TypeOK, process, workflow
<1>2. CASE ServerReadRequest
  <2>1. PICK c \in Calls, child \in Children :
           /\ children' = children \cup {child}
           /\ inbox' = Append(inbox, Response(c, child)) /\ Response(c, child) \in Responses
    BY <1>2, RequestRead
  <2>2. line' \in Seq(Frames \cup Requests) /\ UNCHANGED <<process, workflow, journal, projected, assigned>>
    BY <1>2, Read DEF ServerReadRequest
  <2>3. inbox' \in Seq(S)
    BY <1>0, <2>1, AppendFacts
  <2>4. IsFiniteSet(children')
    BY <2>1, FS_AddElement DEF TypeInv
  <2> QED
    BY <2>1, <2>2, <2>3, <2>4 DEF TypeInv, TypeOK, process, workflow
<1>3. ASSUME NEW t \in Tasks, ServerAssign(t) PROVE TypeInv'
  <2> DEFINE m == [type |-> "ASSIGN", task |-> t,
                   effects |-> [e \in Effects |-> IF TaskOf[e] = t THEN ValueAt(e) ELSE 0],
                   last_step |-> Max({0} \cup StepsAt(t))]
  <2>1. \A e \in Effects : (IF TaskOf[e] = t THEN ValueAt(e) ELSE 0) \in 0 .. MaxRun
    BY ValueAtIs, RunAssumption
  <2>2. Max({0} \cup StepsAt(t)) \in Nat
    BY StepsAtIs
  <2>3. m \in Assigns
    BY <2>1, <2>2 DEF Assigns
  <2>4. inbox' = Append(inbox, m)
    BY <1>3 DEF ServerAssign
  <2>5. UNCHANGED <<process, workflow, journal, line, projected, children>>
    BY <1>3 DEF ServerAssign
  <2>6. assigned' \in [Tasks -> 0 .. MaxRun]
    BY <1>3, RunAssumption DEF ServerAssign, TypeInv, TypeOK
  <2> HIDE DEF m
  <2>7. inbox' \in Seq(S)
    BY <1>0, <2>3, <2>4, AppendFacts
  <2> QED
    BY <2>5, <2>6, <2>7 DEF TypeInv, TypeOK, process, workflow
<1> QED
  BY <1>1, <1>2, <1>3 DEF Server


\* A call that has not been sent leaves its target's counter below its bound.
LEMMA SentIsBounded ==
  ASSUME TypeInv, KeyInv, NEW c \in Calls, TaskOf[c] \in running
  PROVE  /\ occurrences[<<TaskOf[c], Base[c]>>] = Cardinality(Sent(TaskOf[c], Base[c]))
         /\ IsFiniteSet(Sent(TaskOf[c], Base[c])) /\ IsFiniteSet(CallsTo(TaskOf[c], Base[c]))
         /\ occurrences[<<TaskOf[c], Base[c]>>] <= Cardinality(CallsTo(TaskOf[c], Base[c]))
         /\ c \notin Sent(TaskOf[c], Base[c]) => occurrences[<<TaskOf[c], Base[c]>>] < Cardinality(Calls)
         /\ Cardinality(CallsTo(TaskOf[c], Base[c])) <= Cardinality(Calls)
         /\ Cardinality(Calls) \in Nat
<1> DEFINE t == TaskOf[c]
<1> DEFINE b == Base[c]
<1>1. t \in running /\ b \in Bases
  BY DEF Bases
<1>2. occurrences[<<t, b>>] = Cardinality(Sent(t, b))
  BY <1>1 DEF KeyInv
<1>3. Sent(t, b) \in SUBSET CallsTo(t, b) /\ CallsTo(t, b) \in SUBSET Calls
  BY DEF Sent, CallsTo
<1>4. /\ IsFiniteSet(CallsTo(t, b)) /\ Cardinality(CallsTo(t, b)) <= Cardinality(Calls)
      /\ Cardinality(Calls) \in Nat
  BY <1>3, ProgramAssumption, FS_Subset, FS_CardinalityType
<1>5. IsFiniteSet(Sent(t, b)) /\ Cardinality(Sent(t, b)) <= Cardinality(CallsTo(t, b))
  BY <1>3, <1>4, FS_Subset
<1>6. ASSUME c \notin Sent(t, b) PROVE Cardinality(Sent(t, b)) < Cardinality(Calls)
  <2>1. Cardinality(Sent(t, b)) <= Cardinality(Calls)
        /\ (Cardinality(Calls) = Cardinality(Sent(t, b)) => Calls = Sent(t, b))
    BY <1>3, ProgramAssumption, FS_Subset
  <2>2. Cardinality(Sent(t, b)) \in Nat
    BY <1>5, FS_CardinalityType
  <2> QED
    BY <1>4, <1>6, <2>1, <2>2
<1> QED
  BY <1>2, <1>4, <1>5, <1>6

LEMMA TypeWork == ASSUME TypeInv, DeliveryInv, CallInv, KeyInv, Work PROVE TypeInv'
<1>0. Tasks \X Bases # {} => 0 \in 0 .. Cardinality(Calls)
  BY ProgramAssumption, FS_CardinalityType
<1>1. ASSUME NEW e \in Effects, TakeEffect(e) PROVE TypeInv'
  <2> DEFINE what == EffectOf(e)
  <2>1. alive /\ run # 0 /\ TaskOf[e] \in Tasks
    BY <1>1, ProgramAssumption DEF TakeEffect, Ready, DeliveryInv, ProcessInv, Points
  <2>2. done' = done \cup {e}
    BY <1>1 DEF TakeEffect
  <2>3. UNCHANGED <<alive, run, running, replay, calls, occurrences, inbox, projected, children, assigned>>
    BY <1>1 DEF TakeEffect, server
  <2>4. \/ given' = [given EXCEPT ![e] = replay[e]] /\ UNCHANGED <<pos, retained, step, journal, line>>
        \/ given' = [given EXCEPT ![e] = run] /\ Emit(TaskOf[e], what)
    BY <1>1 DEF TakeEffect, EffectOf
  <2>5. running' \subseteq Tasks /\ done' \subseteq Points /\ given' \in [Effects -> 0 .. MaxRun]
    BY <2>2, <2>3, <2>4 DEF TypeInv, TypeOK, Points
  <2>6. CASE UNCHANGED <<pos, retained, step, journal, line>>
    BY <2>3, <2>5, <2>6 DEF TypeInv, TypeOK
  <2>7. CASE Emit(TaskOf[e], what)
    <3>1. what \in What
      BY <2>1, WhatIsWhat
    <3>2. occurrences' \in [Tasks \X Bases -> 0 .. Cardinality(Calls)]
      BY <2>3 DEF TypeInv, TypeOK
    <3> HIDE DEF what
    <3> QED
      BY <2>1, <2>3, <2>5, <2>7, <3>1, <3>2, EmittedTypes
  <2> QED
    BY <2>4, <2>6, <2>7
<1>2. ASSUME NEW p \in Reports, Report(p) PROVE TypeInv'
  <2>1. alive /\ run # 0 /\ TaskOf[p] \in Tasks
    BY <1>2, ProgramAssumption DEF Report, Ready, DeliveryInv, ProcessInv, Points
  <2>2. done' = done \cup {p} /\ Emit(TaskOf[p], [kind |-> "REPORT"])
    BY <1>2 DEF Report
  <2>3. UNCHANGED <<alive, run, running, replay, given, calls, occurrences, inbox, projected, children, assigned>>
    BY <1>2 DEF Report, server
  <2>4. running' \subseteq Tasks /\ done' \subseteq Points /\ given' \in [Effects -> 0 .. MaxRun]
        /\ occurrences' \in [Tasks \X Bases -> 0 .. Cardinality(Calls)]
    BY <2>2, <2>3 DEF TypeInv, TypeOK, Points
  <2>5. [kind |-> "REPORT"] \in What
    BY <2>1, WhatIsWhat
  <2> QED
    BY <2>1, <2>2, <2>3, <2>4, <2>5, EmittedTypes
<1>3. ASSUME NEW c \in Calls, ReserveStep(c) PROVE TypeInv'
  <2>1. step' = [step EXCEPT ![TaskOf[c]] = @ + 1]
    BY <1>3 DEF ReserveStep
  <2>2. calls' = [calls EXCEPT ![c] = [@ EXCEPT !.stage = "stepped", !.parent_step = step[TaskOf[c]] + 1]]
    BY <1>3 DEF ReserveStep
  <2>3. UNCHANGED <<process, running, replay, done, given, occurrences, journal, line, inbox, server>>
    BY <1>3 DEF ReserveStep
  <2>4. step \in [Tasks -> Nat] /\ calls \in [Calls -> CallStates]
    BY DEF TypeInv, TypeOK
  <2>5. step[TaskOf[c]] + 1 \in Nat
    BY <2>4, ProgramAssumption DEF Points
  <2>6. step' \in [Tasks -> Nat]
    BY <2>1, <2>4, <2>5
  <2>7. [calls[c] EXCEPT !.stage = "stepped", !.parent_step = step[TaskOf[c]] + 1] \in CallStates
    <3>1. calls[c] \in CallStates
      BY <2>4
    <3> QED
      BY <2>5, <3>1 DEF CallStates
  <2>8. calls' \in [Calls -> CallStates]
    BY <2>2, <2>4, <2>7
  <2> QED
    BY <2>3, <2>6, <2>8 DEF TypeInv, TypeOK, process, server
<1>4. ASSUME NEW c \in Calls, SendCall(c) PROVE TypeInv'
  <2> DEFINE o == <<TaskOf[c], Base[c]>>
  <2> DEFINE m == [call |-> c, parent |-> TaskOf[c], call_key |-> <<Base[c], Occurrence(c)>>,
                   parent_step |-> calls[c].parent_step]
  <2>1. /\ calls[c].stage = "stepped" /\ occurrences' = [occurrences EXCEPT ![o] = @ + 1]
        /\ calls' = [calls EXCEPT ![c].stage = "sent"] /\ line' = Append(line, m)
        /\ UNCHANGED <<process, running, replay, step, done, given, journal, inbox, server>>
    BY <1>4 DEF SendCall
  <2>2. TaskOf[c] \in running /\ calls[c].parent_step # 0
    BY <2>1 DEF CallInv, Underway
  <2>3. TaskOf[c] \in Tasks /\ Base[c] \in Bases /\ calls[c] \in CallStates
    BY <2>2 DEF TypeInv, TypeOK, Bases
  <2>4. c \notin Sent(TaskOf[c], Base[c])
    BY <2>1 DEF Sent
  <2>5. occurrences[o] \in Nat /\ occurrences[o] < Cardinality(Calls) /\ Cardinality(Calls) \in Nat
    <3>1. occurrences[o] < Cardinality(Calls) /\ Cardinality(Calls) \in Nat
      BY <2>2, <2>4, SentIsBounded
    <3>2. occurrences[o] \in 0 .. Cardinality(Calls)
      BY <2>3 DEF TypeInv, TypeOK
    <3> QED
      BY <3>1, <3>2
  <2>6. occurrences' \in [Tasks \X Bases -> 0 .. Cardinality(Calls)]
    <3>1. occurrences \in [Tasks \X Bases -> 0 .. Cardinality(Calls)]
      BY DEF TypeInv, TypeOK
    <3>2. occurrences[o] + 1 \in 0 .. Cardinality(Calls)
      BY <2>5
    <3> QED
      BY <2>1, <3>1, <3>2
  <2>7. calls' \in [Calls -> CallStates]
    BY <2>1, <2>3 DEF TypeInv, TypeOK, CallStates
  <2>8. m \in Requests
    <3>1. Occurrence(c) \in 1 .. Cardinality(Calls)
      BY <2>5 DEF Occurrence
    <3>2. calls[c].parent_step \in Nat \ {0}
      BY <2>2, <2>3 DEF CallStates
    <3> QED
      BY <2>3, <3>1, <3>2 DEF Requests, CallKeys
  <2> HIDE DEF m, o
  <2>9. line' \in Seq(Frames \cup Requests)
    BY <2>1, <2>8, AppendFacts DEF TypeInv
  <2> QED
    BY <2>1, <2>6, <2>7, <2>9 DEF TypeInv, TypeOK, process, server
<1>5. ASSUME NEW t \in Tasks, End(t) PROVE TypeInv'
  <2>1. alive /\ run # 0 /\ t \in running
    BY <1>5 DEF End, DeliveryInv, ProcessInv
  <2>2. running' = running \ {t} /\ Emit(t, [kind |-> "END"])
    BY <1>5 DEF End
  <2>3. occurrences' = [o \in Tasks \X Bases |-> IF o[1] = t THEN 0 ELSE occurrences[o]]
    BY <1>5 DEF End, TaskEnded
  <2>4. UNCHANGED <<alive, run, replay, done, given, calls, inbox, projected, children, assigned>>
    BY <1>5 DEF End, server
  <2>5. occurrences' \in [Tasks \X Bases -> 0 .. Cardinality(Calls)]
    BY <1>0, <2>3 DEF TypeInv, TypeOK
  <2>6. [kind |-> "END"] \in What
    BY <2>1, WhatIsWhat
  <2>7. running' \subseteq Tasks /\ done' \subseteq Points /\ given' \in [Effects -> 0 .. MaxRun]
    BY <2>2, <2>4 DEF TypeInv, TypeOK
  <2> QED
    BY <2>1, <2>2, <2>4, <2>5, <2>6, <2>7, EmittedTypes
<1> QED
  BY <1>1, <1>2, <1>3, <1>4, <1>5 DEF Work


-----------------------------------------------------------------------------
(* Steps.                                                                  *)

\* A running workflow emits a frame, or takes a value it is replayed.
Emits(t, what) ==
    /\ alive /\ run # 0 /\ t \in running /\ Emit(t, what)
    /\ UNCHANGED <<alive, run, projected, children, replay, calls, inbox, assigned>>

Replays(e) ==
    /\ Ready(e) /\ replay[e] # 0 /\ done' = done \cup {e}
    /\ given' = [given EXCEPT ![e] = replay[e]]
    /\ UNCHANGED <<process, journal, running, replay, step, calls, occurrences, line, inbox, server>>

\* So does every step of it, but those that make a call.
LEMMA WorkEmits ==
  ASSUME TypeInv, DeliveryInv
  PROVE  /\ \A e \in Effects : TakeEffect(e) =>
               \/ Replays(e)
               \/ /\ replay[e] = 0 /\ running' = running /\ TaskOf[e] \in Tasks
                  /\ EffectOf(e) \in What /\ Emits(TaskOf[e], EffectOf(e))
         /\ \A p \in Reports : Report(p) =>
               /\ running' = running /\ TaskOf[p] \in Tasks
               /\ [kind |-> "REPORT"] \in What /\ Emits(TaskOf[p], [kind |-> "REPORT"])
         /\ \A t \in Tasks : End(t) =>
               /\ running' = running \ {t}
               /\ [kind |-> "END"] \in What /\ Emits(t, [kind |-> "END"])
<1>1. alive => run # 0
  BY DEF DeliveryInv, ProcessInv
<1>2. ASSUME NEW e \in Effects, TakeEffect(e)
      PROVE  \/ Replays(e)
             \/ /\ replay[e] = 0 /\ running' = running /\ TaskOf[e] \in Tasks
                /\ EffectOf(e) \in What /\ Emits(TaskOf[e], EffectOf(e))
  <2>1. alive /\ TaskOf[e] \in running /\ TaskOf[e] \in Tasks
    BY <1>2, ProgramAssumption DEF TakeEffect, Ready, Points
  <2>2. EffectOf(e) \in What
    BY <1>1, <2>1, WhatIsWhat
  <2>3. Replays(e) \/ (replay[e] = 0 /\ Emit(TaskOf[e], EffectOf(e)))
    BY <1>2 DEF TakeEffect, Replays, EffectOf, process
  <2>4. UNCHANGED <<alive, run, running, projected, children, replay, calls, inbox, assigned>>
    BY <1>2 DEF TakeEffect, server
  <2> QED
    BY <1>1, <2>1, <2>2, <2>3, <2>4 DEF Emits
<1>3. ASSUME NEW p \in Reports, Report(p)
      PROVE  /\ running' = running /\ TaskOf[p] \in Tasks
             /\ [kind |-> "REPORT"] \in What /\ Emits(TaskOf[p], [kind |-> "REPORT"])
  <2>1. alive /\ TaskOf[p] \in running /\ TaskOf[p] \in Tasks
    BY <1>3, ProgramAssumption DEF Report, Ready, Points
  <2>2. [kind |-> "REPORT"] \in What /\ Emit(TaskOf[p], [kind |-> "REPORT"])
    BY <1>1, <1>3, <2>1, WhatIsWhat DEF Report
  <2>3. UNCHANGED <<alive, run, running, projected, children, replay, calls, inbox, assigned>>
    BY <1>3 DEF Report, server
  <2> QED
    BY <1>1, <2>1, <2>2, <2>3 DEF Emits
<1>4. ASSUME NEW t \in Tasks, End(t)
      PROVE  /\ running' = running \ {t}
             /\ [kind |-> "END"] \in What /\ Emits(t, [kind |-> "END"])
  <2>1. alive /\ t \in running /\ running' = running \ {t}
    BY <1>4 DEF End
  <2>2. [kind |-> "END"] \in What /\ Emit(t, [kind |-> "END"])
    BY <1>1, <1>4, <2>1, WhatIsWhat DEF End
  <2>3. UNCHANGED <<alive, run, projected, children, replay, calls, inbox, assigned>>
    BY <1>4 DEF End, server
  <2> QED
    BY <1>1, <2>1, <2>2, <2>3 DEF Emits
<1> QED
  BY <1>2, <1>3, <1>4

LEMMA Steps ==
  ASSUME TypeInv, DeliveryInv, Next
  PROVE  \/ Start \/ Crash \/ HandleAssign \/ HandleAck \/ HandleResponse
         \/ ServerReadFrame \/ ServerReadRequest \/ \E t \in Tasks : ServerAssign(t)
         \/ \E c \in Calls : ReserveStep(c) \/ SendCall(c)
         \/ \E e \in Effects : Replays(e)
         \/ \E t \in Tasks, what \in What : Emits(t, what)
BY WorkEmits DEF Next, Handle, Server, Work

LEMMA RecordStep ==
  ASSUME TypeInv, DeliveryInv, Next
  PROVE  \/ \E t \in Tasks, what \in What : Emits(t, what)
         \/ OnRecord' = OnRecord /\ ((run' = run /\ pos' = pos) \/ run' = run + 1)
<1>1. CASE Start \/ Crash
  BY <1>1 DEF Start, Crash, server, OnRecord
<1>2. CASE HandleAck
  BY <1>2, AckKeepsRecord DEF HandleAck
<1>3. CASE ServerReadFrame
  BY <1>3, ReadKeepsRecord DEF ServerReadFrame, process
<1>4. CASE HandleAssign \/ HandleResponse
  BY <1>4 DEF HandleAssign, HandleResponse, process, server, OnRecord
<1>5. CASE ServerReadRequest \/ \E t \in Tasks : ServerAssign(t)
  BY <1>5 DEF ServerReadRequest, ServerAssign, process, OnRecord
<1>6. CASE \E c \in Calls : ReserveStep(c) \/ SendCall(c)
  BY <1>6 DEF ReserveStep, SendCall, process, server, OnRecord
<1>7. CASE \E e \in Effects : Replays(e)
  BY <1>7 DEF Replays, process, server, OnRecord
<1> QED
  BY <1>1, <1>2, <1>3, <1>4, <1>5, <1>6, <1>7, Steps

-----------------------------------------------------------------------------
(* Delivery.                                                               *)

LEMMA NumberedStep ==
  ASSUME TypeInv, DeliveryInv, Next PROVE NumberedOnce'
<1>1. /\ \A f \in OnRecord : f.session <= run /\ (f.session = run => f.pos <= pos)
      /\ \A f, g \in OnRecord : f.session = g.session /\ f.pos = g.pos => f = g
  BY DEF DeliveryInv, NumberedOnce
<1>2. \A f \in OnRecord : f.session \in Int /\ f.pos \in Int
  BY FramesOnRecord, RunAssumption DEF Runs
<1>3. run \in Nat /\ pos \in Nat
  BY RunAssumption DEF TypeInv, TypeOK
<1>4. ASSUME NEW t \in Tasks, NEW what \in What, Emits(t, what) PROVE NumberedOnce'
  <2> DEFINE x == New(t, what)
  <2>0. alive /\ run' = run /\ pos' = pos + 1 /\ projected' = projected /\ Emit(t, what)
    BY <1>4 DEF Emits, Emit
  <2>1. /\ OnRecord' = OnRecord \cup {x} /\ x.session = run /\ x.pos = pos + 1
        /\ \A g \in OnRecord : SentBefore(g, x)
    BY <2>0, Emitted
  <2> HIDE DEF x
  <2>2. \A g \in OnRecord : ~(g.session = x.session /\ g.pos = x.pos)
    BY <1>1, <1>2, <1>3, <2>1
  <2>3. \A f \in OnRecord' : f.session <= run' /\ (f.session = run' => f.pos <= pos')
    BY <1>1, <1>2, <1>3, <2>0, <2>1
  <2>4. \A f, g \in OnRecord' : f.session = g.session /\ f.pos = g.pos => f = g
    BY <1>1, <2>1, <2>2
  <2> QED
    BY <2>3, <2>4 DEF NumberedOnce
<1>5. CASE OnRecord' = OnRecord /\ ((run' = run /\ pos' = pos) \/ run' = run + 1)
  <2>1. \A f \in OnRecord' : f.session <= run' /\ (f.session = run' => f.pos <= pos')
    BY <1>1, <1>2, <1>3, <1>5
  <2> QED
    BY <1>1, <1>5, <2>1 DEF NumberedOnce
<1> QED
  BY <1>4, <1>5, RecordStep

LEMMA ProcessStep ==
  ASSUME TypeInv, DeliveryInv, Next PROVE ProcessInv'
<1>1. /\ alive => run # 0 /\ retained = journal
      /\ ~alive => retained = {} /\ running = {} /\ line = <<>> /\ inbox = <<>>
  BY DEF DeliveryInv, ProcessInv
<1>2. CASE Start
  BY <1>2, RunAssumption DEF Start, ProcessInv, TypeInv, TypeOK
<1>3. CASE Crash
  BY <1>3 DEF Crash, ProcessInv
<1>4. CASE HandleAck
  <2>1. alive /\ UNCHANGED <<alive, run>>
    BY <1>4 DEF HandleAck
  <2> QED
    BY <1>1, <1>4, <2>1, AckKeepsRecord DEF ProcessInv
<1>5. CASE HandleAssign \/ HandleResponse
  BY <1>1, <1>5 DEF HandleAssign, HandleResponse, process, ProcessInv
<1>6. CASE ServerReadFrame \/ ServerReadRequest
  <2>1. alive
    BY <1>1, <1>6 DEF ServerReadFrame, ServerReadRequest
  <2> QED
    BY <1>1, <1>6, <2>1 DEF ServerReadFrame, ServerReadRequest, process, ProcessInv
<1>7. CASE \E t \in Tasks : ServerAssign(t)
  BY <1>1, <1>7 DEF ServerAssign, process, ProcessInv
<1>8. CASE \E c \in Calls : ReserveStep(c) \/ SendCall(c)
  <2>1. alive
    BY <1>8 DEF ReserveStep, SendCall, Ready
  <2> QED
    BY <1>1, <1>8, <2>1 DEF ReserveStep, SendCall, process, ProcessInv
<1>9. CASE \E e \in Effects : Replays(e)
  <2>1. alive
    BY <1>9 DEF Replays, Ready
  <2> QED
    BY <1>1, <1>9, <2>1 DEF Replays, process, ProcessInv
<1>10. ASSUME NEW t \in Tasks, NEW what \in What, Emits(t, what) PROVE ProcessInv'
  <2>1. alive /\ alive' = alive /\ run' = run
    BY <1>10 DEF Emits
  <2>2. journal' = journal \cup {New(t, what)} /\ retained' = retained \cup {New(t, what)}
    BY <1>10, Emitted DEF Emits
  <2> QED
    BY <1>1, <2>1, <2>2 DEF ProcessInv
<1> QED
  BY <1>2, <1>3, <1>4, <1>5, <1>6, <1>7, <1>8, <1>9, <1>10, Steps


LEMMA LineStep ==
  ASSUME TypeInv, DeliveryInv, Next PROVE LineInv'
<1>1. /\ \A i \in DOMAIN line : IsFrame(line[i]) =>
            /\ line[i] \in OnRecord
            /\ \A f \in OnRecord : f.session = line[i].session /\ f.pos < line[i].pos =>
                  f \in projected \/ \E j \in 1 .. i - 1 : line[j] = f
      /\ alive => \A f \in journal : f \in projected \/ \E j \in DOMAIN line : line[j] = f
  BY DEF DeliveryInv, LineInv
<1>2. line \in Seq(Frames \cup Requests) /\ OnRecord \in SUBSET Frames /\ DOMAIN line = 1 .. Len(line)
      /\ Len(line) \in Nat
  BY FramesOnRecord DEF TypeInv
<1>3. CASE Start
  <2>1. line' = InOrder(journal) /\ UNCHANGED <<journal, projected>> /\ OnRecord' = OnRecord
    BY <1>3 DEF Start, server, OnRecord
  <2>2. journal \in SUBSET Frames /\ IsFiniteSet(journal) /\ journal \subseteq OnRecord
    BY DEF TypeInv, TypeOK, OnRecord
  <2>3. \A f, g \in journal : f.session = g.session /\ f.pos = g.pos => f = g
    BY <2>2 DEF DeliveryInv, NumberedOnce
  <2>4. /\ line' \in Seq(journal)
        /\ \A f \in journal : \E i \in DOMAIN line' : line'[i] = f
        /\ \A i \in DOMAIN line' : \A f \in journal :
              SentBefore(f, line'[i]) => \E j \in 1 .. i - 1 : line'[j] = f
    BY <2>1, <2>2, <2>3, InOrderIsSorted
  <2>5. \A i \in DOMAIN line' : line'[i] \in OnRecord
    BY <2>2, <2>4
  <2>6. \A i \in DOMAIN line' : \A f \in OnRecord :
           f.session = line'[i].session /\ f.pos < line'[i].pos =>
              f \in projected \/ \E j \in 1 .. i - 1 : line'[j] = f
    BY <2>4 DEF SentBefore, OnRecord
  <2> QED
    BY <2>1, <2>4, <2>5, <2>6 DEF LineInv
<1>4. CASE Crash
  BY <1>4 DEF Crash, LineInv
<1>5. CASE HandleAssign
  <2> DEFINE ends == RetainedEnd(Head(inbox).task)
  <2>1. UNCHANGED <<alive, journal, projected>> /\ OnRecord' = OnRecord /\ alive
    BY <1>5 DEF HandleAssign, process, server, OnRecord
  <2>2. line' = line \o InOrder(ends) \/ line' = line
    BY <1>5 DEF HandleAssign
  <2>3. CASE line' = line
    BY <1>1, <2>1, <2>3 DEF LineInv
  <2>4. CASE line' = line \o InOrder(ends)
    <3>1. ends \in SUBSET journal /\ ends \in SUBSET Frames
      BY <2>1 DEF RetainedEnd, DeliveryInv, ProcessInv, TypeInv, TypeOK
    <3>2. IsFiniteSet(ends)
      BY <3>1, FS_Subset DEF TypeInv
    <3>3. \A f, g \in ends : f.session = g.session /\ f.pos = g.pos => f = g
      BY <3>1 DEF DeliveryInv, NumberedOnce, OnRecord
    <3> DEFINE q == InOrder(ends)
    <3>4. q \in Seq(ends)
      BY <3>1, <3>2, <3>3, InOrderIsSorted
    <3> HIDE DEF ends, q
    <3>5. q \in Seq(Frames \cup Requests)
      BY <3>1, <3>4
    <3>6. /\ \A i \in DOMAIN line : i \in 1 .. Len(line) /\ i \in DOMAIN line' /\ line'[i] = line[i]
          /\ \A i \in DOMAIN line' :
                \/ i \in DOMAIN line /\ line'[i] = line[i]
                \/ 1 .. Len(line) \subseteq 1 .. i - 1 /\ \E j \in DOMAIN q : line'[i] = q[j]
      BY <1>2, <2>4, <3>5, ConcatFacts DEF q
    <3>7. \A j \in DOMAIN q : q[j] \in journal
      BY <3>1, <3>4
    <3>8. ASSUME NEW i \in DOMAIN line', IsFrame(line'[i])
          PROVE  /\ line'[i] \in OnRecord
                 /\ \A f \in OnRecord : f.session = line'[i].session /\ f.pos < line'[i].pos =>
                       f \in projected \/ \E j \in 1 .. i - 1 : line'[j] = f
      <4>1. CASE i \in DOMAIN line /\ line'[i] = line[i]
        BY <1>1, <1>2, <3>6, <3>8, <4>1
      <4>2. CASE 1 .. Len(line) \subseteq 1 .. i - 1 /\ \E j \in DOMAIN q : line'[i] = q[j]
        <5>1. line'[i] \in OnRecord
          BY <3>7, <4>2 DEF OnRecord
        <5>2. \A f \in OnRecord : f \in projected \/ \E j \in DOMAIN line : line[j] = f
          BY <1>1, <2>1 DEF OnRecord
        <5>3. \A f \in OnRecord : f \in projected \/ \E j \in 1 .. i - 1 : line'[j] = f
          BY <1>2, <3>6, <4>2, <5>2
        <5> QED
          BY <5>1, <5>3
      <4> QED
        BY <3>6, <4>1, <4>2
    <3>9. \A f \in journal : f \in projected \/ \E j \in DOMAIN line' : line'[j] = f
      BY <1>1, <2>1, <3>6
    <3> QED
      BY <2>1, <3>8, <3>9 DEF LineInv
  <2> QED
    BY <2>2, <2>3, <2>4
<1>6. CASE HandleAck
  <2>1. OnRecord' = OnRecord /\ projected' = projected /\ journal' \subseteq journal
        /\ line' = line /\ alive' = alive
    BY <1>6, AckKeepsRecord DEF HandleAck
  <2> QED
    BY <1>1, <2>1 DEF LineInv
<1>7. CASE HandleResponse \/ (\E t \in Tasks : ServerAssign(t)) \/ (\E c \in Calls : ReserveStep(c)) \/ (\E e \in Effects : Replays(e))
  <2>1. UNCHANGED <<alive, journal, projected, line>> /\ OnRecord' = OnRecord
    BY <1>7 DEF HandleResponse, ServerAssign, ReserveStep, Replays, process, server, OnRecord
  <2> QED
    BY <1>1, <2>1 DEF LineInv
<1>8. ASSUME NEW c \in Calls, SendCall(c) PROVE LineInv'
  <2> DEFINE m == [call |-> c, parent |-> TaskOf[c], call_key |-> <<Base[c], Occurrence(c)>>,
                   parent_step |-> calls[c].parent_step]
  <2>1. line' = Append(line, m) /\ UNCHANGED <<alive, journal, projected>> /\ OnRecord' = OnRecord
    BY <1>8 DEF SendCall, process, server, OnRecord
  <2>2. ~IsFrame(m)
    BY DEF IsFrame
  <2> HIDE DEF m
  <2>3. /\ \A i \in DOMAIN line : i \in 1 .. Len(line) /\ i \in DOMAIN line' /\ line'[i] = line[i]
        /\ \A i \in DOMAIN line' : (i \in DOMAIN line /\ line'[i] = line[i]) \/ line'[i] = m
    BY <1>2, <2>1
  <2>4. ASSUME NEW i \in DOMAIN line', IsFrame(line'[i])
        PROVE  /\ line'[i] \in OnRecord
               /\ \A f \in OnRecord : f.session = line'[i].session /\ f.pos < line'[i].pos =>
                     f \in projected \/ \E j \in 1 .. i - 1 : line'[j] = f
    BY <1>1, <1>2, <2>2, <2>3, <2>4
  <2>5. alive => \A f \in journal : f \in projected \/ \E j \in DOMAIN line' : line'[j] = f
    BY <1>1, <2>3
  <2> QED
    BY <2>1, <2>4, <2>5 DEF LineInv
<1>9. ASSUME NEW t \in Tasks, NEW what \in What, Emits(t, what) PROVE LineInv'
  <2> DEFINE x == New(t, what)
  <2>1. alive /\ run' = run /\ projected' = projected /\ alive' = alive
        /\ Emit(t, what)
    BY <1>9 DEF Emits
  <2>2. /\ x \in Frames /\ OnRecord' = OnRecord \cup {x} /\ journal' = journal \cup {x}
        /\ \A g \in OnRecord : SentBefore(g, x)
        /\ line' = Append(line, x)
    BY <2>1, Emitted
  <2> HIDE DEF x
  <2>3. /\ \A i \in DOMAIN line : i \in 1 .. Len(line) /\ i \in DOMAIN line' /\ line'[i] = line[i]
        /\ Len(line) + 1 \in DOMAIN line' /\ line'[Len(line) + 1] = x
        /\ \A i \in DOMAIN line' :
              (i \in DOMAIN line /\ line'[i] = line[i]) \/ (i = Len(line) + 1 /\ line'[i] = x)
    <3> DEFINE S == Frames \cup Requests
    <3>1. line \in Seq(S) /\ x \in S
      BY <1>2, <2>2
    <3> HIDE DEF S
    <3> QED
      BY <2>2, <3>1, AppendFacts
  <2>4. \A f \in OnRecord : f \in projected \/ \E j \in DOMAIN line : line[j] = f
    BY <1>1, <2>1 DEF OnRecord
  <2>5. \A f \in Frames : f.session \in Int /\ f.pos \in Int
    BY FramesOnRecord, RunAssumption DEF Runs
  <2>6. ASSUME NEW i \in DOMAIN line', IsFrame(line'[i])
        PROVE  /\ line'[i] \in OnRecord'
               /\ \A f \in OnRecord' : f.session = line'[i].session /\ f.pos < line'[i].pos =>
                     f \in projected \/ \E j \in 1 .. i - 1 : line'[j] = f
    <3>1. CASE i \in DOMAIN line /\ line'[i] = line[i]
      <4>1. line[i] \in OnRecord /\ line[i] \in Frames
        BY <1>1, <1>2, <2>6, <3>1
      <4>2. ~(x.session = line[i].session /\ x.pos < line[i].pos)
        BY <2>2, <2>5, <4>1 DEF SentBefore
      <4>3. \A f \in OnRecord : f.session = line[i].session /\ f.pos < line[i].pos =>
               f \in projected \/ \E j \in 1 .. i - 1 : line[j] = f
        BY <1>1, <2>6, <3>1
      <4>4. \A j \in 1 .. i - 1 : line'[j] = line[j]
        BY <1>2, <2>3, <3>1
      <4> QED
        BY <2>2, <3>1, <4>1, <4>2, <4>3, <4>4
    <3>2. CASE i = Len(line) + 1 /\ line'[i] = x
      <4>1. \A f \in OnRecord : f \in projected \/ \E j \in 1 .. i - 1 : line'[j] = f
        BY <1>2, <2>3, <2>4, <3>2
      <4>2. ~(x.pos < x.pos)
        BY <2>2, <2>5
      <4> QED
        BY <2>2, <3>2, <4>1, <4>2
    <3> QED
      BY <2>3, <3>1, <3>2
  <2>7. \A f \in journal' : f \in projected \/ \E j \in DOMAIN line' : line'[j] = f
    BY <1>1, <2>1, <2>2, <2>3
  <2> QED
    BY <2>1, <2>6, <2>7 DEF LineInv
<1>10. ASSUME ServerReadFrame \/ ServerReadRequest PROVE LineInv'
  <2> DEFINE m == Head(line)
  <2>1. line # <<>> /\ line' = Tail(line) /\ UNCHANGED <<alive, journal>>
    BY <1>10 DEF ServerReadFrame, ServerReadRequest, process
  <2>2. OnRecord' = OnRecord /\ (projected' = projected \cup {m} \/ (projected' = projected /\ ~IsFrame(m)))
    <3>1. CASE ServerReadFrame
      BY <3>1, ReadKeepsRecord
    <3>2. CASE ServerReadRequest
      BY <3>2 DEF ServerReadRequest, OnRecord
    <3> QED
      BY <1>10, <3>1, <3>2
  <2>3. /\ m = line[1]
        /\ \A i \in DOMAIN line' : i \in Nat /\ i >= 1 /\ i + 1 \in DOMAIN line /\ line'[i] = line[i + 1]
    BY <2>1, Read
  <2>4. \A f \in OnRecord : f = m => f \in projected'
    BY <1>2, <2>2, Kinds
  <2>5. ASSUME NEW i \in DOMAIN line', IsFrame(line'[i])
        PROVE  /\ line'[i] \in OnRecord
               /\ \A f \in OnRecord : f.session = line'[i].session /\ f.pos < line'[i].pos =>
                     f \in projected' \/ \E j \in 1 .. i - 1 : line'[j] = f
    <3>1. line[i + 1] = line'[i] /\ i + 1 \in DOMAIN line /\ i \in Nat
      BY <2>3
    <3>2. line'[i] \in OnRecord
      BY <1>1, <2>5, <3>1
    <3>3. ASSUME NEW f \in OnRecord, f.session = line'[i].session, f.pos < line'[i].pos,
                 f \notin projected'
          PROVE  \E j \in 1 .. i - 1 : line'[j] = f
      <4>1. f \notin projected /\ f # m
        BY <2>2, <2>4, <3>3
      <4>2. PICK j \in 1 .. i : line[j] = f
        <5>1. (i + 1) - 1 = i
          BY <3>1
        <5> QED
          BY <1>1, <2>5, <3>1, <3>3, <4>1, <5>1
      <4>3. j # 1
        BY <2>3, <4>1, <4>2
      <4>4. j - 1 \in 1 .. i - 1 /\ (j - 1) + 1 = j /\ j - 1 \in DOMAIN line'
        <5>1. DOMAIN line' = 1 .. Len(line) - 1
          BY <1>2, <2>1
        <5> QED
          BY <4>2, <4>3, <5>1, <3>1
      <4>5. line'[j - 1] = f
        BY <2>3, <4>2, <4>4
      <4> QED
        BY <4>4, <4>5
    <3> QED
      BY <3>2, <3>3
  <2>6. ASSUME alive, NEW f \in journal, f \notin projected'
        PROVE  \E j \in DOMAIN line' : line'[j] = f
    <3>1. f \in OnRecord /\ f # m /\ f \notin projected
      BY <2>2, <2>4, <2>6 DEF OnRecord
    <3>2. \E j \in DOMAIN line : line[j] = f
      BY <1>1, <2>6, <3>1
    <3> QED
      BY <1>2, <2>1, <3>1, <3>2, TailAhead
  <2> QED
    BY <2>1, <2>2, <2>5, <2>6 DEF LineInv
<1> QED
  BY <1>3, <1>4, <1>5, <1>6, <1>7, <1>8, <1>9, <1>10, Steps


LEMMA AckStep ==
  ASSUME TypeInv, DeliveryInv, StepInv, CallInv, Next PROVE AckInv'
<1>1. \A i \in DOMAIN inbox : inbox[i].type = "JOURNAL_ACK" =>
         /\ \E f \in OnRecord : f.session = inbox[i].session /\ f.pos = inbox[i].pos
         /\ \A f \in OnRecord : Covers(inbox[i], f) => f \in projected
  BY DEF DeliveryInv, AckInv
<1> DEFINE S == Acks \cup Assigns \cup Responses
<1>2. inbox \in Seq(S)
  BY DEF TypeInv
<1> HIDE DEF S
<1>3. CASE Start
  <2>1. inbox = <<>> /\ inbox' = inbox
    BY <1>3 DEF Start, DeliveryInv, ProcessInv
  <2> QED
    BY <2>1 DEF AckInv
<1>4. CASE Crash
  BY <1>4 DEF Crash, AckInv
<1>5. CASE Handle
  <2>1. inbox # <<>> /\ inbox' = Tail(inbox)
    BY <1>5 DEF Handle, HandleAssign, HandleAck, HandleResponse
  <2>2. OnRecord' = OnRecord /\ projected' = projected
    <3>1. CASE HandleAck
      BY <3>1, AckKeepsRecord
    <3>2. CASE HandleAssign \/ HandleResponse
      BY <3>2 DEF HandleAssign, HandleResponse, server, OnRecord
    <3> QED
      BY <1>5, <3>1, <3>2 DEF Handle
  <2>3. \A i \in DOMAIN inbox' : i + 1 \in DOMAIN inbox /\ inbox'[i] = inbox[i + 1]
    BY <2>1, Handled
  <2> QED
    BY <1>1, <2>2, <2>3 DEF AckInv
<1>6. CASE ServerReadFrame
  <2> DEFINE m == Head(line)
  <2> DEFINE ack == [type |-> "JOURNAL_ACK", session |-> m.session, pos |-> m.pos]
  <2>1. inbox' = Append(inbox, ack) /\ IsFrame(m) /\ line # <<>>
    BY <1>6 DEF ServerReadFrame
  <2>2. OnRecord' = OnRecord /\ m \in OnRecord /\ projected' = projected \cup {m}
    BY <1>6, ReadKeepsRecord
  <2>3. 1 \in DOMAIN line /\ m = line[1]
    BY <2>1, Read
  <2>4. \A f \in OnRecord : f.session = m.session /\ f.pos < m.pos => f \in projected
    BY <2>1, <2>3 DEF DeliveryInv, LineInv
  <2>5. \A f \in OnRecord : f.session = m.session /\ f.pos = m.pos => f = m
    BY <2>2 DEF DeliveryInv, NumberedOnce
  <2>6. ack.session = m.session /\ ack.pos = m.pos
    OBVIOUS
  <2> HIDE DEF ack, m
  <2>7. \A f \in OnRecord : f.pos \in Int
    BY FramesOnRecord
  <2>8. \A f \in OnRecord : Covers(ack, f) => f \in projected'
    BY <2>2, <2>4, <2>5, <2>6, <2>7 DEF Covers
  <2>9. \A i \in DOMAIN inbox' : (i \in DOMAIN inbox /\ inbox'[i] = inbox[i]) \/ inbox'[i] = ack
    BY <1>2, <2>1
  <2> QED
    BY <1>1, <2>2, <2>6, <2>8, <2>9 DEF AckInv
<1>7. CASE ServerReadRequest \/ \E t \in Tasks : ServerAssign(t)
  <2>1. \E m : inbox' = Append(inbox, m) /\ m.type # "JOURNAL_ACK"
    <3>1. CASE ServerReadRequest
      <4>1. PICK c \in Calls, child \in Children : inbox' = Append(inbox, Response(c, child))
        BY <3>1, RequestRead
      <4>2. Response(c, child).type # "JOURNAL_ACK"
        BY DEF Response
      <4> QED
        BY <4>1, <4>2
    <3>2. ASSUME NEW t \in Tasks, ServerAssign(t)
          PROVE  \E m : inbox' = Append(inbox, m) /\ m.type # "JOURNAL_ACK"
      <4> DEFINE m == [type |-> "ASSIGN", task |-> t,
                       effects |-> [e \in Effects |-> IF TaskOf[e] = t THEN ValueAt(e) ELSE 0],
                       last_step |-> Max({0} \cup StepsAt(t))]
      <4>1. inbox' = Append(inbox, m)
        BY <3>2 DEF ServerAssign
      <4>2. m.type # "JOURNAL_ACK"
        OBVIOUS
      <4> QED
        BY <4>1, <4>2
    <3> QED
      BY <1>7, <3>1, <3>2
  <2>2. OnRecord' = OnRecord /\ projected' = projected
    BY <1>7 DEF ServerReadRequest, ServerAssign, OnRecord
  <2>3. \A i \in DOMAIN inbox' : (i \in DOMAIN inbox /\ inbox'[i] = inbox[i]) \/ inbox'[i].type # "JOURNAL_ACK"
    BY <1>2, <2>1
  <2> QED
    BY <1>1, <2>2, <2>3 DEF AckInv
<1>8. CASE (\E c \in Calls : ReserveStep(c) \/ SendCall(c)) \/ \E e \in Effects : Replays(e)
  <2>1. OnRecord' = OnRecord /\ projected' = projected /\ inbox' = inbox
    BY <1>8 DEF ReserveStep, SendCall, Replays, server, OnRecord
  <2> QED
    BY <1>1, <2>1 DEF AckInv
<1>9. ASSUME NEW t \in Tasks, NEW what \in What, Emits(t, what) PROVE AckInv'
  <2> DEFINE x == New(t, what)
  <2>1. alive /\ run' = run /\ projected' = projected /\ inbox' = inbox /\ Emit(t, what)
    BY <1>9 DEF Emits
  <2>2. OnRecord' = OnRecord \cup {x} /\ x \in Frames /\ \A g \in OnRecord : SentBefore(g, x)
    BY <2>1, Emitted
  <2> HIDE DEF x
  <2>3. \A f \in OnRecord \cup {x} : f.session \in Int /\ f.pos \in Int
    BY <2>2, FramesOnRecord, RunAssumption DEF Runs
  <2>4. ASSUME NEW i \in DOMAIN inbox, inbox[i].type = "JOURNAL_ACK" PROVE ~Covers(inbox[i], x)
    <3>1. PICK f \in OnRecord : f.session = inbox[i].session /\ f.pos = inbox[i].pos
      BY <1>1, <2>4
    <3> QED
      BY <2>2, <2>3, <3>1 DEF Covers, SentBefore
  <2> QED
    BY <1>1, <2>1, <2>2, <2>4 DEF AckInv
<1> QED
  BY <1>3, <1>4, <1>5, <1>6, <1>7, <1>8, <1>9, Steps DEF Handle

LEMMA DeliveryStep ==
  ASSUME TypeInv, DeliveryInv, StepInv, CallInv, Next PROVE DeliveryInv'
BY NumberedStep, LineStep, AckStep, ProcessStep DEF DeliveryInv


-----------------------------------------------------------------------------
(* Values.                                                                 *)

\* Nothing is done, given or recorded of a value.
LEMMA ValueSame ==
  ASSUME ValueInv, OnRecord \subseteq OnRecord',
         \A f \in OnRecord' : f \in OnRecord \/ f.what.kind # "EFFECT",
         UNCHANGED <<given, replay>>, running' \subseteq running,
         \A e \in Effects : e \in done' <=> e \in done
  PROVE  ValueInv'
<1>1. \A f \in OnRecord', e \in Effects : IsEffect(f, e) => f \in OnRecord
  BY DEF IsEffect
<1>2. \A f \in OnRecord' : f.what.kind = "EFFECT" => f.task = TaskOf[f.what.key]
  BY DEF ValueInv
<1>3. OnRecord \subseteq OnRecord'
  OBVIOUS
<1>4. ASSUME NEW e \in Effects
      PROVE  /\ \A f, g \in OnRecord' : IsEffect(f, e) /\ IsEffect(g, e) => f.what.value = g.what.value
             /\ given[e] # 0 => \E f \in OnRecord' : IsEffect(f, e) /\ f.what.value = given[e]
             /\ e \in done' => given[e] # 0
             /\ TaskOf[e] \in running' => IF replay[e] = 0
                   THEN e \in done' \/ \A f \in OnRecord' : ~IsEffect(f, e)
                   ELSE \E f \in OnRecord' : IsEffect(f, e) /\ f.what.value = replay[e]
  <2>1. /\ \A f, g \in OnRecord : IsEffect(f, e) /\ IsEffect(g, e) => f.what.value = g.what.value
        /\ given[e] # 0 => \E f \in OnRecord : IsEffect(f, e) /\ f.what.value = given[e]
        /\ e \in done => given[e] # 0
        /\ TaskOf[e] \in running => IF replay[e] = 0
              THEN e \in done \/ \A f \in OnRecord : ~IsEffect(f, e)
              ELSE \E f \in OnRecord : IsEffect(f, e) /\ f.what.value = replay[e]
    BY DEF ValueInv
  <2> QED
    BY <1>1, <1>3, <2>1
<1> QED
  BY <1>2, <1>4 DEF ValueInv, IsEffect

\* A value is taken where there was none: it is on record from now on.
LEMMA ValueTaken ==
  ASSUME TypeInv, DeliveryInv, ValueInv, NEW e \in Effects, TakeEffect(e), replay[e] = 0
  PROVE  ValueInv'
<1> DEFINE x == New(TaskOf[e], EffectOf(e))
<1>1. /\ TaskOf[e] \in running /\ e \notin done /\ done' = done \cup {e}
      /\ given' = [given EXCEPT ![e] = run] /\ UNCHANGED <<replay, running>>
  BY DEF TakeEffect, Ready
<1>2. /\ TaskOf[e] \in Tasks /\ EffectOf(e) \in What /\ Emits(TaskOf[e], EffectOf(e)) /\ run # 0
  BY WorkEmits DEF Replays, Emits
<1>3. OnRecord' = OnRecord \cup {x} /\ x.task = TaskOf[e] /\ x.what = EffectOf(e)
  BY <1>2, Emitted DEF Emits
<1>4. x.what.kind = "EFFECT" /\ x.what.key = e /\ x.what.value = run
  BY <1>3 DEF EffectOf
<1>5. given \in [Effects -> 0 .. MaxRun]
  BY DEF TypeInv, TypeOK
<1> HIDE DEF x
<1>6. \A f \in OnRecord : ~IsEffect(f, e)
  BY <1>1 DEF ValueInv
<1>7. \A f \in OnRecord' : f.what.kind = "EFFECT" => f.task = TaskOf[f.what.key]
  BY <1>3, <1>4 DEF ValueInv
<1>8. ASSUME NEW d \in Effects
      PROVE  /\ \A f, g \in OnRecord' : IsEffect(f, d) /\ IsEffect(g, d) => f.what.value = g.what.value
             /\ given'[d] # 0 => \E f \in OnRecord' : IsEffect(f, d) /\ f.what.value = given'[d]
             /\ d \in done' => given'[d] # 0
             /\ TaskOf[d] \in running' => IF replay'[d] = 0
                   THEN d \in done' \/ \A f \in OnRecord' : ~IsEffect(f, d)
                   ELSE \E f \in OnRecord' : IsEffect(f, d) /\ f.what.value = replay'[d]
  <2>1. /\ \A f, g \in OnRecord : IsEffect(f, d) /\ IsEffect(g, d) => f.what.value = g.what.value
        /\ given[d] # 0 => \E f \in OnRecord : IsEffect(f, d) /\ f.what.value = given[d]
        /\ d \in done => given[d] # 0
        /\ TaskOf[d] \in running => IF replay[d] = 0
              THEN d \in done \/ \A f \in OnRecord : ~IsEffect(f, d)
              ELSE \E f \in OnRecord : IsEffect(f, d) /\ f.what.value = replay[d]
    BY DEF ValueInv
  <2>2. CASE d = e
    <3>1. IsEffect(x, d) /\ given'[d] = run /\ x \in OnRecord'
      BY <1>1, <1>3, <1>4, <1>5, <2>2 DEF IsEffect
    <3>2. \A f \in OnRecord' : IsEffect(f, d) => f = x
      BY <1>3, <1>6, <2>2
    <3>3. d \in done' /\ replay'[d] = 0
      BY <1>1, <2>2
    <3> QED
      BY <1>1, <1>2, <1>4, <3>1, <3>2, <3>3
  <2>3. CASE d # e
    <3>1. ~IsEffect(x, d) /\ given'[d] = given[d] /\ (d \in done' <=> d \in done)
      BY <1>1, <1>4, <1>5, <2>3 DEF IsEffect
    <3> QED
      BY <1>1, <1>3, <2>1, <3>1
  <2> QED
    BY <2>2, <2>3
<1> QED
  BY <1>7, <1>8 DEF ValueInv, IsEffect

\* A value is replayed: it is on record already.
LEMMA ValueReplayed ==
  ASSUME TypeInv, ValueInv, NEW e \in Effects, Replays(e)
  PROVE  ValueInv'
<1>1. /\ TaskOf[e] \in running /\ done' = done \cup {e} /\ given' = [given EXCEPT ![e] = replay[e]]
      /\ replay[e] # 0 /\ UNCHANGED <<replay, running>> /\ OnRecord' = OnRecord
  BY DEF Replays, Ready, server, OnRecord
<1>2. given \in [Effects -> 0 .. MaxRun]
  BY DEF TypeInv, TypeOK
<1>3. \E f \in OnRecord : IsEffect(f, e) /\ f.what.value = replay[e]
  BY <1>1 DEF ValueInv
<1>4. ASSUME NEW d \in Effects
      PROVE  /\ \A f, g \in OnRecord' : IsEffect(f, d) /\ IsEffect(g, d) => f.what.value = g.what.value
             /\ given'[d] # 0 => \E f \in OnRecord' : IsEffect(f, d) /\ f.what.value = given'[d]
             /\ d \in done' => given'[d] # 0
             /\ TaskOf[d] \in running' => IF replay'[d] = 0
                   THEN d \in done' \/ \A f \in OnRecord' : ~IsEffect(f, d)
                   ELSE \E f \in OnRecord' : IsEffect(f, d) /\ f.what.value = replay'[d]
  <2>1. /\ \A f, g \in OnRecord : IsEffect(f, d) /\ IsEffect(g, d) => f.what.value = g.what.value
        /\ given[d] # 0 => \E f \in OnRecord : IsEffect(f, d) /\ f.what.value = given[d]
        /\ d \in done => given[d] # 0
        /\ TaskOf[d] \in running => IF replay[d] = 0
              THEN d \in done \/ \A f \in OnRecord : ~IsEffect(f, d)
              ELSE \E f \in OnRecord : IsEffect(f, d) /\ f.what.value = replay[d]
    BY DEF ValueInv
  <2>2. CASE d = e
    BY <1>1, <1>2, <1>3, <2>1, <2>2
  <2>3. CASE d # e
    <3>1. given'[d] = given[d] /\ (d \in done' <=> d \in done)
      BY <1>1, <1>2, <2>3
    <3> QED
      BY <1>1, <2>1, <3>1
  <2> QED
    BY <2>2, <2>3
<1>5. \A f \in OnRecord' : f.what.kind = "EFFECT" => f.task = TaskOf[f.what.key]
  BY <1>1 DEF ValueInv
<1> QED
  BY <1>4, <1>5 DEF ValueInv, IsEffect


\* An Assign that is handled starts a workflow this run has not touched; what its
\* journal lacks is retained.
LEMMA Resumed ==
  ASSUME TypeInv, AssignInv, HandleAssign
  PROVE  /\ alive /\ Head(inbox) \in Assigns /\ Head(inbox).task \in Tasks
         /\ OnRecord' = OnRecord /\ children' = children
         /\ assigned[Head(inbox).task] = run /\ Fresh(Head(inbox).task)
         /\ \A f \in OnRecord : f.task = Head(inbox).task => Knows(Head(inbox), f) \/ f \in retained
         /\ \A c \in children : c.parent = Head(inbox).task => c.parent_step <= Head(inbox).last_step
         /\ \A e \in Effects : Head(inbox).effects[e] # 0 =>
               \E f \in OnRecord : IsEffect(f, e) /\ f.what.value = Head(inbox).effects[e]
<1>1. 1 \in DOMAIN inbox /\ Head(inbox) = inbox[1] /\ Head(inbox) \in Assigns /\ inbox[1].type = "ASSIGN"
  BY Handled DEF HandleAssign
<1>2. alive /\ OnRecord' = OnRecord /\ children' = children
  BY DEF HandleAssign, server, OnRecord
<1>3. Head(inbox).task \in Tasks
  BY <1>1 DEF Assigns
<1> QED
  BY <1>1, <1>2, <1>3 DEF AssignInv, Carried

\* A workflow is given what is on record, by the server or by its own file.
LEMMA ValueResumed ==
  ASSUME TypeInv, DeliveryInv, ValueInv, AssignInv, HandleAssign
  PROVE  ValueInv'
<1> DEFINE m == Head(inbox)
<1>1. /\ m \in Assigns /\ OnRecord' = OnRecord
      /\ \A f \in OnRecord : f.task = m.task => Knows(m, f) \/ f \in retained
      /\ \A e \in Effects : m.effects[e] # 0 =>
               \E f \in OnRecord : IsEffect(f, e) /\ f.what.value = m.effects[e]
      /\ retained \subseteq OnRecord
  BY Resumed DEF DeliveryInv, ProcessInv, OnRecord
<1>2. UNCHANGED <<done, given>>
  BY DEF HandleAssign
<1>3. CASE UNCHANGED <<running, replay>>
  BY <1>1, <1>2, <1>3, ValueSame
<1>4. CASE /\ running' = running \cup {m.task}
           /\ replay' = [e \in Effects |-> IF TaskOf[e] = m.task THEN Replay(m)[e] ELSE replay[e]]
  <2> HIDE DEF m
  <2>1. ASSUME NEW e \in Effects, TaskOf[e] \in running'
        PROVE  IF replay'[e] = 0
                  THEN e \in done \/ \A f \in OnRecord : ~IsEffect(f, e)
                  ELSE \E f \in OnRecord : IsEffect(f, e) /\ f.what.value = replay'[e]
    <3>1. CASE TaskOf[e] = m.task
      <4>1. replay'[e] = Replay(m)[e]
        BY <1>4, <3>1
      <4>2. CASE replay'[e] = 0
        <5>1. m.effects[e] = 0 /\ \A f \in retained : f.task = m.task => ~IsEffect(f, e)
          BY <1>1, <4>1, <4>2, ReplayIs
        <5>2. \A f \in OnRecord : IsEffect(f, e) => f.task = m.task
          BY <3>1 DEF ValueInv, IsEffect
        <5>3. \A f \in OnRecord : ~IsEffect(f, e)
          BY <1>1, <5>1, <5>2 DEF Knows, IsEffect
        <5> QED
          BY <4>2, <5>3
      <4>3. CASE replay'[e] # 0
        <5>1. \/ m.effects[e] # 0 /\ m.effects[e] = Replay(m)[e]
              \/ \E f \in retained : IsEffect(f, e) /\ f.what.value = Replay(m)[e]
          BY <1>1, <4>1, <4>3, ReplayIs
        <5> QED
          BY <1>1, <4>1, <4>3, <5>1
      <4> QED
        BY <4>2, <4>3
    <3>2. CASE TaskOf[e] # m.task
      BY <1>4, <2>1, <3>2 DEF ValueInv
    <3> QED
      BY <3>1, <3>2
  <2>2. \A f \in OnRecord' : f.what.kind = "EFFECT" => f.task = TaskOf[f.what.key]
    BY <1>1 DEF ValueInv
  <2>3. \A e \in Effects :
           /\ \A f, g \in OnRecord' : IsEffect(f, e) /\ IsEffect(g, e) => f.what.value = g.what.value
           /\ given'[e] # 0 => \E f \in OnRecord' : IsEffect(f, e) /\ f.what.value = given'[e]
           /\ e \in done' => given'[e] # 0
    BY <1>1, <1>2 DEF ValueInv
  <2> QED
    BY <1>1, <1>2, <2>1, <2>2, <2>3 DEF ValueInv, IsEffect
<1> QED
  BY <1>3, <1>4 DEF HandleAssign

LEMMA ValueStep ==
  ASSUME TypeInv, DeliveryInv, ValueInv, AssignInv, Next
  PROVE  ValueInv'
<1>1. CASE Start
  <2>1. UNCHANGED <<given, replay, running, done>> /\ OnRecord' = OnRecord
    BY <1>1 DEF Start, workflow, server, OnRecord
  <2> QED
    BY <2>1, ValueSame
<1>2. CASE Crash
  <2>1. /\ \A e \in Effects : given'[e] = 0
        /\ done' = {} /\ running' = {} /\ OnRecord' = OnRecord
    BY <1>2 DEF Crash, server, OnRecord
  <2> QED
    BY <2>1 DEF ValueInv, IsEffect
<1>3. CASE HandleAck
  <2>1. UNCHANGED <<given, replay, running, done>> /\ OnRecord' = OnRecord
    BY <1>3, AckKeepsRecord DEF HandleAck, workflow
  <2> QED
    BY <2>1, ValueSame
<1>4. CASE HandleResponse
  <2>1. UNCHANGED <<given, replay, running>> /\ OnRecord' = OnRecord /\ done' = done \cup {Head(inbox).call}
    BY <1>4 DEF HandleResponse, server, OnRecord
  <2>2. Head(inbox).call \notin Effects
    BY <1>4, Handled, ProgramAssumption DEF HandleResponse, Responses
  <2> QED
    BY <2>1, <2>2, ValueSame
<1>5. ASSUME NEW p \in Reports, Report(p) PROVE ValueInv'
  <2>1. done' = done \cup {p} /\ p \notin Effects /\ UNCHANGED <<given, replay, running>>
    BY <1>5, ProgramAssumption DEF Report
  <2>2. TaskOf[p] \in Tasks /\ [kind |-> "REPORT"] \in What /\ Emits(TaskOf[p], [kind |-> "REPORT"])
    BY <1>5, WorkEmits
  <2>3. /\ OnRecord' = OnRecord \cup {New(TaskOf[p], [kind |-> "REPORT"])}
        /\ New(TaskOf[p], [kind |-> "REPORT"]).what = [kind |-> "REPORT"]
    BY <2>2, Emitted DEF Emits
  <2> QED
    BY <2>1, <2>3, ValueSame
<1>6. ASSUME NEW t \in Tasks, End(t) PROVE ValueInv'
  <2>1. running' \subseteq running /\ UNCHANGED <<given, replay, done>>
    BY <1>6 DEF End
  <2>2. [kind |-> "END"] \in What /\ Emits(t, [kind |-> "END"])
    BY <1>6, WorkEmits
  <2>3. /\ OnRecord' = OnRecord \cup {New(t, [kind |-> "END"])}
        /\ New(t, [kind |-> "END"]).what = [kind |-> "END"]
    BY <2>2, Emitted DEF Emits
  <2> QED
    BY <2>1, <2>3, ValueSame
<1>7. ASSUME NEW c \in Calls, ReserveStep(c) \/ SendCall(c) PROVE ValueInv'
  <2>1. UNCHANGED <<given, replay, running, done>> /\ OnRecord' = OnRecord
    BY <1>7 DEF ReserveStep, SendCall, server, OnRecord
  <2> QED
    BY <2>1, ValueSame
<1>8. CASE Server
  <2>1. UNCHANGED <<given, replay, running, done>>
    BY <1>8 DEF Server, ServerReadFrame, ServerReadRequest, ServerAssign, workflow
  <2>2. OnRecord' = OnRecord
    <3>1. CASE ServerReadFrame
      BY <3>1, ReadKeepsRecord
    <3>2. CASE ServerReadRequest \/ \E t \in Tasks : ServerAssign(t)
      BY <3>2 DEF ServerReadRequest, ServerAssign, OnRecord
    <3> QED
      BY <1>8, <3>1, <3>2 DEF Server
  <2> QED
    BY <2>1, <2>2, ValueSame
<1>9. ASSUME NEW e \in Effects, TakeEffect(e) PROVE ValueInv'
  BY <1>9, WorkEmits, ValueTaken, ValueReplayed
<1> QED
  BY <1>1, <1>2, <1>3, <1>4, <1>5, <1>6, <1>7, <1>8, <1>9, ValueResumed DEF Next, Handle, Work


-----------------------------------------------------------------------------
(* Calls.                                                                  *)

\* The requests and the responses on their way are those there were.
QuietLine(k) == \A i \in DOMAIN line' :
    \/ IsFrame(line'[i])
    \/ i \in Int /\ i + k \in DOMAIN line /\ line'[i] = line[i + k]

QuietInbox(k) == \A i \in DOMAIN inbox' :
    \/ inbox'[i].type # "ASSIGN_RESPONSE"
    \/ i \in Int /\ i + k \in DOMAIN inbox /\ inbox'[i] = inbox[i + k]

Quiet ==
    /\ UNCHANGED <<calls, children>> /\ \A c \in Calls : c \in done' <=> c \in done
    /\ \E k \in {0, 1} : QuietLine(k)
    /\ \E k \in {0, 1} : QuietInbox(k)

\* All but the steps of a call are.
LEMMA QuietSteps ==
  ASSUME TypeInv, DeliveryInv
  PROVE  /\ Start \/ HandleAssign \/ HandleAck \/ ServerReadFrame => Quiet
         /\ \A t \in Tasks : ServerAssign(t) => Quiet
         /\ \A e \in Effects : TakeEffect(e) => Quiet
         /\ \A p \in Reports : Report(p) => Quiet
         /\ \A t \in Tasks : End(t) => Quiet
<1>1. \A i \in DOMAIN line : i \in Int /\ i + 0 = i
  BY DEF TypeInv
<1>2. \A i \in DOMAIN inbox : i \in Int /\ i + 0 = i
  BY DEF TypeInv
<1>3. line' = line => QuietLine(0)
  BY <1>1 DEF QuietLine
<1>4. inbox' = inbox => QuietInbox(0)
  BY <1>2 DEF QuietInbox
<1>5. ASSUME inbox # <<>>, inbox' = Tail(inbox) PROVE QuietInbox(1)
  <2>1. \A i \in DOMAIN inbox' : i \in Int /\ i + 1 \in DOMAIN inbox /\ inbox'[i] = inbox[i + 1]
    BY <1>5, Handled
  <2> QED
    BY <2>1 DEF QuietInbox
<1>6. ASSUME NEW x \in Frames, line' = Append(line, x) PROVE QuietLine(0)
  <2> DEFINE S == Frames \cup Requests
  <2>1. line \in Seq(S) /\ x \in S
    BY DEF TypeInv
  <2> HIDE DEF S
  <2>2. \A i \in DOMAIN line' : (i \in DOMAIN line /\ line'[i] = line[i]) \/ line'[i] = x
    BY <1>6, <2>1, AppendFacts
  <2> QED
    BY <1>1, <2>2, Kinds DEF QuietLine
<1>7. ASSUME NEW m, m.type # "ASSIGN_RESPONSE", inbox' = Append(inbox, m) PROVE QuietInbox(0)
  <2> DEFINE S == Acks \cup Assigns \cup Responses
  <2>1. inbox \in Seq(S)
    BY DEF TypeInv
  <2> HIDE DEF S
  <2>2. \A i \in DOMAIN inbox' : (i \in DOMAIN inbox /\ inbox'[i] = inbox[i]) \/ inbox'[i] = m
    BY <1>7, <2>1
  <2> QED
    BY <1>2, <1>7, <2>2 DEF QuietInbox
<1>8. ASSUME Start PROVE Quiet
  <2>1. line' = InOrder(journal) /\ UNCHANGED <<calls, children, done, inbox>>
    BY <1>8 DEF Start, workflow, server
  <2>2. journal \in SUBSET Frames /\ IsFiniteSet(journal) /\ journal \subseteq OnRecord
    BY DEF TypeInv, TypeOK, OnRecord
  <2>3. \A f, g \in journal : f.session = g.session /\ f.pos = g.pos => f = g
    BY <2>2 DEF DeliveryInv, NumberedOnce
  <2>4. line' \in Seq(journal)
    BY <2>1, <2>2, <2>3, InOrderIsSorted
  <2>5. \A i \in DOMAIN line' : IsFrame(line'[i])
    BY <2>2, <2>4, Kinds
  <2>6. QuietLine(0)
    BY <2>5 DEF QuietLine
  <2> QED
    BY <1>4, <2>1, <2>6 DEF Quiet
<1>9. ASSUME HandleAssign PROVE Quiet
  <2> DEFINE ends == RetainedEnd(Head(inbox).task)
  <2>1. UNCHANGED <<calls, children, done>> /\ inbox # <<>> /\ inbox' = Tail(inbox) /\ retained = journal
    BY <1>9 DEF HandleAssign, server, DeliveryInv, ProcessInv
  <2>2. line' = line \o InOrder(ends) \/ line' = line
    BY <1>9 DEF HandleAssign
  <2>3. CASE line' = line \o InOrder(ends)
    <3>1. ends \in SUBSET journal /\ ends \in SUBSET Frames
      BY <2>1 DEF RetainedEnd, TypeInv, TypeOK
    <3>2. IsFiniteSet(ends)
      BY <3>1, FS_Subset DEF TypeInv
    <3>3. \A f, g \in ends : f.session = g.session /\ f.pos = g.pos => f = g
      BY <3>1 DEF DeliveryInv, NumberedOnce, OnRecord
    <3> DEFINE q == InOrder(ends)
    <3>4. q \in Seq(ends)
      BY <3>1, <3>2, <3>3, InOrderIsSorted
    <3> HIDE DEF ends, q
    <3>5. q \in Seq(Frames \cup Requests) /\ \A j \in DOMAIN q : IsFrame(q[j])
      BY <3>1, <3>4, Kinds
    <3>6. \A i \in DOMAIN line' :
             \/ i \in DOMAIN line /\ line'[i] = line[i]
             \/ \E j \in DOMAIN q : line'[i] = q[j]
      BY <2>3, <3>5, ConcatFacts DEF q, TypeInv
    <3>7. QuietLine(0)
      BY <1>1, <3>5, <3>6 DEF QuietLine
    <3> QED
      BY <1>5, <2>1, <3>7 DEF Quiet
  <2> QED
    BY <1>3, <1>5, <2>1, <2>2, <2>3 DEF Quiet
<1>10. ASSUME HandleAck PROVE Quiet
  <2>1. UNCHANGED <<calls, children, done, line>> /\ inbox # <<>> /\ inbox' = Tail(inbox)
    BY <1>10 DEF HandleAck, workflow, server
  <2> QED
    BY <1>3, <1>5, <2>1 DEF Quiet
<1>11. ASSUME ServerReadFrame PROVE Quiet
  <2> DEFINE ack == [type |-> "JOURNAL_ACK", session |-> Head(line).session, pos |-> Head(line).pos]
  <2>1. UNCHANGED <<calls, children, done>> /\ line # <<>> /\ line' = Tail(line)
        /\ inbox' = Append(inbox, ack)
    BY <1>11 DEF ServerReadFrame, workflow
  <2>2. ack.type # "ASSIGN_RESPONSE"
    OBVIOUS
  <2>3. \A i \in DOMAIN line' : i \in Int /\ i + 1 \in DOMAIN line /\ line'[i] = line[i + 1]
    BY <2>1, Read
  <2>4. QuietLine(1)
    BY <2>3 DEF QuietLine
  <2> QED
    BY <1>7, <2>1, <2>2, <2>4 DEF Quiet
<1>12. ASSUME NEW t \in Tasks, ServerAssign(t) PROVE Quiet
  <2> DEFINE m == [type |-> "ASSIGN", task |-> t,
                   effects |-> [e \in Effects |-> IF TaskOf[e] = t THEN ValueAt(e) ELSE 0],
                   last_step |-> Max({0} \cup StepsAt(t))]
  <2>1. UNCHANGED <<calls, children, done, line>> /\ inbox' = Append(inbox, m)
    BY <1>12 DEF ServerAssign, workflow
  <2>2. m.type # "ASSIGN_RESPONSE"
    OBVIOUS
  <2> QED
    BY <1>3, <1>7, <2>1, <2>2 DEF Quiet
<1>13. ASSUME NEW t \in Tasks, NEW what \in What, Emits(t, what),
              \A c \in Calls : c \in done' <=> c \in done
       PROVE  Quiet
  <2>1. New(t, what) \in Frames /\ line' = Append(line, New(t, what))
    BY <1>13, Emitted DEF Emits
  <2>2. UNCHANGED <<calls, children, inbox>>
    BY <1>13 DEF Emits
  <2> QED
    BY <1>4, <1>6, <1>13, <2>1, <2>2 DEF Quiet
<1>14. ASSUME NEW e \in Effects, TakeEffect(e) PROVE Quiet
  <2>1. \A c \in Calls : c \in done' <=> c \in done
    BY <1>14, ProgramAssumption DEF TakeEffect
  <2>2. CASE Replays(e)
    BY <1>3, <1>4, <2>1, <2>2 DEF Replays, server, Quiet
  <2> QED
    BY <1>13, <1>14, <2>1, <2>2, WorkEmits
<1>15. ASSUME NEW p \in Reports, Report(p) PROVE Quiet
  <2>1. \A c \in Calls : c \in done' <=> c \in done
    BY <1>15, ProgramAssumption DEF Report
  <2> QED
    BY <1>13, <1>15, <2>1, WorkEmits
<1>16. ASSUME NEW t \in Tasks, End(t) PROVE Quiet
  <2>1. \A c \in Calls : c \in done' <=> c \in done
    BY <1>16 DEF End
  <2> QED
    BY <1>13, <1>16, <2>1, WorkEmits
<1> QED
  BY <1>8, <1>9, <1>10, <1>11, <1>12, <1>14, <1>15, <1>16

\* Then no call asks, waits or finds anything new.
LEMMA QuietCalls ==
  ASSUME Quiet
  PROVE  /\ \A c \in Calls : Underway(c)' <=> Underway(c)
         /\ \A c \in Calls : Pending(c)' => Pending(c)
         /\ \A c \in Calls, n \in Nat : Holds(c, n)' => Holds(c, n)
         /\ \A t \in Tasks, b \in Bases : Sent(t, b)' = Sent(t, b)
<1>1. UNCHANGED <<calls, children>>
  BY DEF Quiet
<1>2. \A i \in DOMAIN line' : ~IsFrame(line'[i]) => \E j \in DOMAIN line : line[j] = line'[i]
  BY DEF Quiet, QuietLine
<1>3. \A i \in DOMAIN inbox' : inbox'[i].type = "ASSIGN_RESPONSE" => \E j \in DOMAIN inbox : inbox[j] = inbox'[i]
  BY DEF Quiet, QuietInbox
<1>4. \A c \in Calls : Pending(c)' => Pending(c)
  BY <1>1, <1>2 DEF Pending
<1>5. \A c \in Calls, n \in Nat : Holds(c, n)' => Holds(c, n)
  BY <1>1, <1>2, <1>3 DEF Holds
<1> QED
  BY <1>1, <1>4, <1>5 DEF Underway, Sent, CallsTo


LEMMA CallQuiet ==
  ASSUME CallInv, Quiet, \A c \in Calls : Underway(c) => TaskOf[c] \in running'
  PROVE  CallInv'
<1>1. UNCHANGED <<calls, children>> /\ \A c \in Calls : c \in done' <=> c \in done
  BY DEF Quiet
<1>2. PICK k \in {0, 1} : QuietLine(k)
  BY DEF Quiet
<1>3. PICK n \in {0, 1} : QuietInbox(n)
  BY DEF Quiet
<1>4. /\ \A i \in DOMAIN line' : ~IsFrame(line'[i]) =>
            i \in Int /\ i + k \in DOMAIN line /\ line'[i] = line[i + k]
      /\ \A i \in DOMAIN inbox' : inbox'[i].type = "ASSIGN_RESPONSE" =>
            i \in Int /\ i + n \in DOMAIN inbox /\ inbox'[i] = inbox[i + n]
  BY <1>2, <1>3 DEF QuietLine, QuietInbox
<1>5. \A c \in Calls :
          /\ Underway(c)' => TaskOf[c] \in running' /\ c \notin done' /\ calls'[c].parent_step # 0
          /\ c \in done' => calls'[c].stage = "answered"
          /\ calls'[c].stage = "answered" => calls'[c].child # {}
          /\ calls'[c].stage # "answered" => calls'[c].child = {}
          /\ \A child \in calls'[c].child :
                child \in children' /\ child.parent = TaskOf[c] /\ child.call_key[1] = Base[c]
  BY <1>1 DEF CallInv, Underway
<1>6. ASSUME NEW i \in DOMAIN line', ~IsFrame(line'[i])
      PROVE  /\ calls[line'[i].call].stage = "sent"
             /\ line'[i].parent_step = calls[line'[i].call].parent_step
             /\ line'[i].parent = TaskOf[line'[i].call] /\ line'[i].call_key[1] = Base[line'[i].call]
             /\ \A j \in DOMAIN line' : ~IsFrame(line'[j]) /\ line'[j].call = line'[i].call => i = j
  BY <1>2, <1>4, <1>6 DEF CallInv
<1>7. ASSUME NEW i \in DOMAIN inbox', inbox'[i].type = "ASSIGN_RESPONSE"
      PROVE  /\ calls[inbox'[i].call].stage = "sent" /\ inbox'[i].child \in children
             /\ inbox'[i].child.parent = TaskOf[inbox'[i].call]
             /\ inbox'[i].child.call_key[1] = Base[inbox'[i].call]
             /\ \A j \in DOMAIN inbox' : inbox'[j].type = "ASSIGN_RESPONSE"
                   /\ inbox'[j].call = inbox'[i].call => i = j
             /\ \A j \in DOMAIN line' : ~(~IsFrame(line'[j]) /\ line'[j].call = inbox'[i].call)
  BY <1>2, <1>3, <1>4, <1>7 DEF CallInv
<1> QED
  BY <1>1, <1>5, <1>6, <1>7 DEF CallInv

\* A call that is answered is no longer underway.
LEMMA ResponseCalls ==
  ASSUME TypeInv, CallInv, HandleResponse
  PROVE  /\ CallInv'
         /\ \A c \in Calls : Underway(c)' => Underway(c) /\ calls'[c].parent_step = calls[c].parent_step
         /\ \A c \in Calls : Pending(c)' => Pending(c)
         /\ \A c \in Calls, n \in Nat : Holds(c, n)' => Holds(c, n)
         /\ \A t \in Tasks, b \in Bases : Sent(t, b)' = Sent(t, b)
         /\ \E c \in Calls : /\ TaskOf[c] \in running /\ Underway(c) /\ done' = done \cup {c}
                             /\ \A d \in Calls : d # c => calls'[d] = calls[d]
<1> DEFINE m == Head(inbox)
<1>1. /\ m.type = "ASSIGN_RESPONSE" /\ inbox # <<>> /\ inbox' = Tail(inbox)
      /\ calls' = [calls EXCEPT ![m.call] = [@ EXCEPT !.stage = "answered", !.child = {m.child}]]
      /\ done' = done \cup {m.call}
      /\ UNCHANGED <<running, line, children>>
  BY DEF HandleResponse, server
<1>2. /\ 1 \in DOMAIN inbox /\ m = inbox[1] /\ m \in Responses
      /\ \A i \in DOMAIN inbox' : i \in Nat /\ i >= 1 /\ i + 1 \in DOMAIN inbox /\ inbox'[i] = inbox[i + 1]
  BY <1>1, Handled
<1>3. m.call \in Calls /\ m.child \in Children
  BY <1>2 DEF Responses
<1>4. calls \in [Calls -> CallStates]
  BY DEF TypeInv, TypeOK
<1>5. /\ calls[m.call].stage = "sent" /\ m.child \in children
      /\ m.child.parent = TaskOf[m.call] /\ m.child.call_key[1] = Base[m.call]
      /\ \A j \in DOMAIN inbox : inbox[j].type = "ASSIGN_RESPONSE" /\ inbox[j].call = m.call => j = 1
      /\ \A j \in DOMAIN line : ~(~IsFrame(line[j]) /\ line[j].call = m.call)
  BY <1>1, <1>2 DEF CallInv
<1> DEFINE c == m.call
<1> DEFINE x == m.child
<1> HIDE DEF m
<1>6. /\ calls'[c].stage = "answered" /\ calls'[c].child = {x}
      /\ calls'[c].parent_step = calls[c].parent_step
      /\ \A d \in Calls : d # c => calls'[d] = calls[d]
  BY <1>1, <1>3, <1>4 DEF CallStates
<1>7. Underway(c) /\ TaskOf[c] \in running
  BY <1>3, <1>5 DEF CallInv, Underway
<1> HIDE DEF c, x
<1>8. \A d \in Calls : Underway(d)' => d # c /\ Underway(d) /\ calls'[d] = calls[d]
  BY <1>6 DEF Underway
<1>9. \A d \in Calls : Pending(d)' => Pending(d)
  BY <1>1, <1>6 DEF Pending
<1>10. \A i \in DOMAIN inbox' : inbox'[i].type = "ASSIGN_RESPONSE" => \E j \in DOMAIN inbox : inbox[j] = inbox'[i]
  BY <1>2
<1>11. \A d \in Calls, n \in Nat : Holds(d, n)' => Holds(d, n)
  <2> SUFFICES ASSUME NEW d \in Calls, NEW n \in Nat, Holds(d, n)' PROVE Holds(d, n)
    OBVIOUS
  <2>1. CASE \E child \in calls'[d].child : child.call_key[2] = n
    <3>1. CASE d = c
      <4>1. x.call_key[2] = n
        BY <1>6, <2>1, <3>1
      <4>2. inbox[1].type = "ASSIGN_RESPONSE" /\ inbox[1].call = d /\ inbox[1].child = x
        BY <1>1, <1>2, <3>1 DEF c, x
      <4> QED
        BY <1>2, <4>1, <4>2 DEF Holds
    <3>2. CASE d # c
      BY <1>6, <2>1, <3>2 DEF Holds
    <3> QED
      BY <3>1, <3>2
  <2>2. CASE ~ \E child \in calls'[d].child : child.call_key[2] = n
    BY <1>1, <1>10, <2>2 DEF Holds
  <2> QED
    BY <2>1, <2>2
<1>12. \A t \in Tasks, b \in Bases : Sent(t, b)' = Sent(t, b)
  <2> SUFFICES ASSUME NEW t \in Tasks, NEW b \in Bases PROVE Sent(t, b)' = Sent(t, b)
    OBVIOUS
  <2>1. \A d \in Calls : calls'[d].stage \in {"sent", "answered"} <=> calls[d].stage \in {"sent", "answered"}
    BY <1>5, <1>6 DEF c
  <2> QED
    BY <2>1 DEF Sent, CallsTo
<1>13. CallInv'
  <2>1. ASSUME NEW d \in Calls
        PROVE  /\ Underway(d)' => TaskOf[d] \in running' /\ d \notin done' /\ calls'[d].parent_step # 0
               /\ d \in done' => calls'[d].stage = "answered"
               /\ calls'[d].stage = "answered" => calls'[d].child # {}
               /\ calls'[d].stage # "answered" => calls'[d].child = {}
               /\ \A child \in calls'[d].child :
                     child \in children' /\ child.parent = TaskOf[d] /\ child.call_key[1] = Base[d]
    <3>1. CASE d = c
      BY <1>1, <1>5, <1>6, <1>8, <3>1 DEF c, x
    <3>2. CASE d # c
      <4>1. calls'[d] = calls[d] /\ (d \in done' <=> d \in done) /\ (Underway(d)' => Underway(d))
        BY <1>1, <1>6, <1>8, <3>2 DEF c
      <4>2. /\ Underway(d) => TaskOf[d] \in running /\ d \notin done /\ calls[d].parent_step # 0
            /\ d \in done => calls[d].stage = "answered"
            /\ calls[d].stage = "answered" => calls[d].child # {}
            /\ calls[d].stage # "answered" => calls[d].child = {}
            /\ \A child \in calls[d].child :
                  child \in children /\ child.parent = TaskOf[d] /\ child.call_key[1] = Base[d]
        BY DEF CallInv
      <4>3. running' = running /\ children' = children
        BY <1>1
      <4> QED
        BY <4>1, <4>2, <4>3
    <3> QED
      BY <3>1, <3>2
  <2>2. ASSUME NEW i \in DOMAIN line', ~IsFrame(line'[i])
        PROVE  /\ calls'[line'[i].call].stage = "sent"
               /\ line'[i].parent_step = calls'[line'[i].call].parent_step
               /\ line'[i].parent = TaskOf[line'[i].call] /\ line'[i].call_key[1] = Base[line'[i].call]
               /\ \A j \in DOMAIN line' : ~IsFrame(line'[j]) /\ line'[j].call = line'[i].call => i = j
    <3>1. i \in DOMAIN line /\ line'[i] = line[i] /\ line' = line /\ line[i] \in Requests
      BY <1>1, <2>2, Kinds DEF TypeInv
    <3>2. line[i].call \in Calls /\ line[i].call # c
      BY <1>5, <2>2, <3>1 DEF Requests, c
    <3> QED
      BY <1>6, <2>2, <3>1, <3>2 DEF CallInv
  <2>3. ASSUME NEW i \in DOMAIN inbox', inbox'[i].type = "ASSIGN_RESPONSE"
        PROVE  /\ calls'[inbox'[i].call].stage = "sent" /\ inbox'[i].child \in children
               /\ inbox'[i].child.parent = TaskOf[inbox'[i].call]
               /\ inbox'[i].child.call_key[1] = Base[inbox'[i].call]
               /\ \A j \in DOMAIN inbox' : inbox'[j].type = "ASSIGN_RESPONSE"
                     /\ inbox'[j].call = inbox'[i].call => i = j
               /\ \A j \in DOMAIN line' : ~(~IsFrame(line'[j]) /\ line'[j].call = inbox'[i].call)
    <3>1. i + 1 \in DOMAIN inbox /\ inbox'[i] = inbox[i + 1] /\ i + 1 # 1
      BY <1>2
    <3>2. inbox[i + 1] \in Responses
      BY <2>3, <3>1, Kinds DEF TypeInv
    <3>3. inbox'[i].call \in Calls /\ inbox'[i].call # c
      BY <1>5, <2>3, <3>1, <3>2 DEF Responses, c
    <3>4. /\ calls[inbox[i + 1].call].stage = "sent" /\ inbox[i + 1].child \in children
          /\ inbox[i + 1].child.parent = TaskOf[inbox[i + 1].call]
          /\ inbox[i + 1].child.call_key[1] = Base[inbox[i + 1].call]
          /\ \A j \in DOMAIN inbox : inbox[j].type = "ASSIGN_RESPONSE"
                /\ inbox[j].call = inbox[i + 1].call => i + 1 = j
          /\ \A j \in DOMAIN line : ~(~IsFrame(line[j]) /\ line[j].call = inbox[i + 1].call)
      BY <2>3, <3>1 DEF CallInv
    <3>5. \A j \in DOMAIN inbox' : inbox'[j].type = "ASSIGN_RESPONSE"
             /\ inbox'[j].call = inbox'[i].call => i = j
      BY <1>2, <3>1, <3>4
    <3> QED
      BY <1>1, <1>6, <3>1, <3>3, <3>4, <3>5
  <2> QED
    BY <1>1, <2>1, <2>2, <2>3 DEF CallInv
<1> QED
  BY <1>1, <1>3, <1>6, <1>7, <1>8, <1>9, <1>11, <1>12, <1>13 DEF c


\* A step is reserved for a call: nothing is asked yet.
LEMMA ReserveCalls ==
  ASSUME TypeInv, CallInv, NEW c \in Calls, ReserveStep(c)
  PROVE  /\ CallInv'
         /\ TaskOf[c] \in Tasks /\ TaskOf[c] \in running /\ Underway(c)'
         /\ calls'[c].parent_step = step[TaskOf[c]] + 1
         /\ \A d \in Calls : d # c => calls'[d] = calls[d] /\ (Underway(d)' <=> Underway(d))
         /\ \A d \in Calls : d # c /\ Pending(d)' => Pending(d)
         /\ \A d \in Calls, n \in Nat : Holds(d, n)' => Holds(d, n)
         /\ \A t \in Tasks, b \in Bases : Sent(t, b)' = Sent(t, b)
<1>1. /\ TaskOf[c] \in running /\ c \notin done /\ calls[c].stage = "idle"
      /\ calls' = [calls EXCEPT ![c] = [@ EXCEPT !.stage = "stepped", !.parent_step = step[TaskOf[c]] + 1]]
      /\ UNCHANGED <<running, done, line, inbox, children>>
  BY DEF ReserveStep, Ready, server
<1>2. calls \in [Calls -> CallStates] /\ step \in [Tasks -> Nat] /\ TaskOf[c] \in Tasks
  BY ProgramAssumption DEF TypeInv, TypeOK, Points
<1>3. /\ calls'[c].stage = "stepped" /\ calls'[c].child = calls[c].child
      /\ calls'[c].parent_step = step[TaskOf[c]] + 1
      /\ \A d \in Calls : d # c => calls'[d] = calls[d]
  BY <1>1, <1>2 DEF CallStates
<1>4. calls'[c].parent_step # 0
  BY <1>2, <1>3
<1>5. Underway(c)' /\ \A d \in Calls : d # c => (Underway(d)' <=> Underway(d))
  BY <1>3 DEF Underway
<1>6. \A d \in Calls : d # c /\ Pending(d)' => Pending(d)
  BY <1>1, <1>3 DEF Pending
<1>7. \A d \in Calls, n \in Nat : Holds(d, n)' => Holds(d, n)
  <2>1. \A d \in Calls : calls'[d].child = calls[d].child
    BY <1>3
  <2> QED
    BY <1>1, <2>1 DEF Holds
<1>8. \A t \in Tasks, b \in Bases : Sent(t, b)' = Sent(t, b)
  <2>1. \A d \in Calls : calls'[d].stage \in {"sent", "answered"} <=> calls[d].stage \in {"sent", "answered"}
    BY <1>1, <1>3
  <2> QED
    BY <2>1 DEF Sent, CallsTo
<1>9. CallInv'
  <2>1. ASSUME NEW d \in Calls
        PROVE  /\ Underway(d)' => TaskOf[d] \in running' /\ d \notin done' /\ calls'[d].parent_step # 0
               /\ d \in done' => calls'[d].stage = "answered"
               /\ calls'[d].stage = "answered" => calls'[d].child # {}
               /\ calls'[d].stage # "answered" => calls'[d].child = {}
               /\ \A child \in calls'[d].child :
                     child \in children' /\ child.parent = TaskOf[d] /\ child.call_key[1] = Base[d]
    <3>1. /\ Underway(d) => TaskOf[d] \in running /\ d \notin done /\ calls[d].parent_step # 0
          /\ d \in done => calls[d].stage = "answered"
          /\ calls[d].stage = "answered" => calls[d].child # {}
          /\ calls[d].stage # "answered" => calls[d].child = {}
          /\ \A child \in calls[d].child :
                child \in children /\ child.parent = TaskOf[d] /\ child.call_key[1] = Base[d]
      BY DEF CallInv
    <3>2. running' = running /\ children' = children /\ done' = done
      BY <1>1
    <3>3. CASE d = c
      BY <1>1, <1>3, <1>4, <3>1, <3>2, <3>3
    <3>4. CASE d # c
      BY <1>3, <1>5, <3>1, <3>2, <3>4
    <3> QED
      BY <3>3, <3>4
  <2>2. ASSUME NEW i \in DOMAIN line, ~IsFrame(line[i])
        PROVE  /\ calls'[line[i].call].stage = "sent"
               /\ line[i].parent_step = calls'[line[i].call].parent_step
               /\ line[i].parent = TaskOf[line[i].call] /\ line[i].call_key[1] = Base[line[i].call]
               /\ \A j \in DOMAIN line : ~IsFrame(line[j]) /\ line[j].call = line[i].call => i = j
    <3>1. line[i] \in Requests
      BY <2>2, Kinds DEF TypeInv
    <3>2. calls[line[i].call].stage = "sent" /\ line[i].call \in Calls
      BY <2>2, <3>1 DEF CallInv, Requests
    <3>3. calls'[line[i].call] = calls[line[i].call]
      BY <1>1, <1>3, <3>2
    <3> QED
      BY <2>2, <3>3 DEF CallInv
  <2>3. ASSUME NEW i \in DOMAIN inbox, inbox[i].type = "ASSIGN_RESPONSE"
        PROVE  /\ calls'[inbox[i].call].stage = "sent" /\ inbox[i].child \in children
               /\ inbox[i].child.parent = TaskOf[inbox[i].call]
               /\ inbox[i].child.call_key[1] = Base[inbox[i].call]
               /\ \A j \in DOMAIN inbox : inbox[j].type = "ASSIGN_RESPONSE"
                     /\ inbox[j].call = inbox[i].call => i = j
               /\ \A j \in DOMAIN line : ~(~IsFrame(line[j]) /\ line[j].call = inbox[i].call)
    <3>1. inbox[i] \in Responses
      BY <2>3, Kinds DEF TypeInv
    <3>2. calls[inbox[i].call].stage = "sent" /\ inbox[i].call \in Calls
      BY <2>3, <3>1 DEF CallInv, Responses
    <3>3. calls'[inbox[i].call] = calls[inbox[i].call]
      BY <1>1, <1>3, <3>2
    <3> QED
      BY <2>3, <3>3 DEF CallInv
  <2> QED
    BY <1>1, <2>1, <2>2, <2>3 DEF CallInv
<1> QED
  BY <1>1, <1>2, <1>3, <1>5, <1>6, <1>7, <1>8, <1>9

\* A call is sent: it asks for the next of its target.
LEMMA SendCalls ==
  ASSUME TypeInv, CallInv, NEW c \in Calls, SendCall(c)
  PROVE  /\ CallInv'
         /\ TaskOf[c] \in Tasks /\ TaskOf[c] \in running /\ Base[c] \in Bases
         /\ c \notin Sent(TaskOf[c], Base[c])
         /\ \A d \in Calls : /\ Underway(d)' <=> Underway(d)
                             /\ calls'[d].parent_step = calls[d].parent_step
                             /\ d # c => calls'[d] = calls[d]
         /\ \A d \in Calls : Pending(d)' => Pending(d)
         /\ \A d \in Calls, n \in Nat : Holds(d, n)' => Holds(d, n) \/ (d = c /\ n = Occurrence(c))
         /\ Sent(TaskOf[c], Base[c])' = Sent(TaskOf[c], Base[c]) \cup {c}
         /\ \A t \in Tasks, b \in Bases : t # TaskOf[c] \/ b # Base[c] => Sent(t, b)' = Sent(t, b)
<1> DEFINE m == [call |-> c, parent |-> TaskOf[c], call_key |-> <<Base[c], Occurrence(c)>>,
                 parent_step |-> calls[c].parent_step]
<1>1. /\ calls[c].stage = "stepped" /\ calls' = [calls EXCEPT ![c].stage = "sent"]
      /\ line' = Append(line, m)
      /\ UNCHANGED <<running, done, inbox, children>>
  BY DEF SendCall, server
<1>2. calls \in [Calls -> CallStates] /\ TaskOf[c] \in Tasks /\ Base[c] \in Bases
  BY ProgramAssumption DEF TypeInv, TypeOK, Points, Bases
<1>3. /\ calls'[c].stage = "sent" /\ calls'[c].child = calls[c].child
      /\ calls'[c].parent_step = calls[c].parent_step
      /\ \A d \in Calls : d # c => calls'[d] = calls[d]
  BY <1>1, <1>2 DEF CallStates
<1>4. TaskOf[c] \in running
  BY <1>1 DEF CallInv, Underway
<1>5. /\ m.call = c /\ m.parent = TaskOf[c] /\ m.call_key[1] = Base[c] /\ m.call_key[2] = Occurrence(c)
      /\ m.parent_step = calls[c].parent_step /\ ~IsFrame(m)
  BY DEF IsFrame
<1> HIDE DEF m
<1>6. /\ \A i \in DOMAIN line : i \in 1 .. Len(line)
      /\ \A i \in DOMAIN line' :
            (i \in DOMAIN line /\ line'[i] = line[i]) \/ (i = Len(line) + 1 /\ line'[i] = m)
  BY <1>1 DEF TypeInv
<1>7. \A d \in Calls : /\ Underway(d)' <=> Underway(d)
                       /\ calls'[d].parent_step = calls[d].parent_step
                       /\ d # c => calls'[d] = calls[d]
  BY <1>1, <1>3 DEF Underway
<1>8. \A d \in Calls : Pending(d)' => Pending(d)
  <2> SUFFICES ASSUME NEW d \in Calls, Pending(d)' PROVE Pending(d)
    OBVIOUS
  <2>1. CASE d = c
    BY <1>1, <2>1 DEF Pending
  <2>2. CASE d # c
    BY <1>3, <1>5, <1>6, <2>2 DEF Pending
  <2> QED
    BY <2>1, <2>2
<1>9. \A d \in Calls, n \in Nat : Holds(d, n)' => Holds(d, n) \/ (d = c /\ n = Occurrence(c))
  <2>1. \A d \in Calls : calls'[d].child = calls[d].child
    BY <1>3
  <2> QED
    BY <1>1, <1>5, <1>6, <2>1 DEF Holds
<1>10. /\ c \notin Sent(TaskOf[c], Base[c])
       /\ Sent(TaskOf[c], Base[c])' = Sent(TaskOf[c], Base[c]) \cup {c}
       /\ \A t \in Tasks, b \in Bases : t # TaskOf[c] \/ b # Base[c] => Sent(t, b)' = Sent(t, b)
  BY <1>1, <1>3 DEF Sent, CallsTo
<1>11. CallInv'
  <2>1. ASSUME NEW d \in Calls
        PROVE  /\ Underway(d)' => TaskOf[d] \in running' /\ d \notin done' /\ calls'[d].parent_step # 0
               /\ d \in done' => calls'[d].stage = "answered"
               /\ calls'[d].stage = "answered" => calls'[d].child # {}
               /\ calls'[d].stage # "answered" => calls'[d].child = {}
               /\ \A child \in calls'[d].child :
                     child \in children' /\ child.parent = TaskOf[d] /\ child.call_key[1] = Base[d]
    <3>1. /\ Underway(d) => TaskOf[d] \in running /\ d \notin done /\ calls[d].parent_step # 0
          /\ d \in done => calls[d].stage = "answered"
          /\ calls[d].stage = "answered" => calls[d].child # {}
          /\ calls[d].stage # "answered" => calls[d].child = {}
          /\ \A child \in calls[d].child :
                child \in children /\ child.parent = TaskOf[d] /\ child.call_key[1] = Base[d]
      BY DEF CallInv
    <3>2. running' = running /\ children' = children /\ done' = done
      BY <1>1
    <3>3. CASE d = c
      BY <1>1, <1>3, <1>7, <3>1, <3>2, <3>3
    <3>4. CASE d # c
      BY <1>3, <1>7, <3>1, <3>2, <3>4
    <3> QED
      BY <3>3, <3>4
  <2>2. ASSUME NEW i \in DOMAIN line, ~IsFrame(line[i])
        PROVE  /\ line[i].call # c /\ line[i].call \in Calls
               /\ calls'[line[i].call] = calls[line[i].call]
    <3>1. line[i] \in Requests
      BY <2>2, Kinds DEF TypeInv
    <3>2. calls[line[i].call].stage = "sent" /\ line[i].call \in Calls
      BY <2>2, <3>1 DEF CallInv, Requests
    <3> QED
      BY <1>1, <1>3, <3>2
  <2>3. ASSUME NEW i \in DOMAIN line', ~IsFrame(line'[i])
        PROVE  /\ calls'[line'[i].call].stage = "sent"
               /\ line'[i].parent_step = calls'[line'[i].call].parent_step
               /\ line'[i].parent = TaskOf[line'[i].call] /\ line'[i].call_key[1] = Base[line'[i].call]
               /\ \A j \in DOMAIN line' : ~IsFrame(line'[j]) /\ line'[j].call = line'[i].call => i = j
    <3>1. CASE i \in DOMAIN line /\ line'[i] = line[i]
      <4>1. line[i].call # c /\ calls'[line[i].call] = calls[line[i].call]
        BY <2>2, <2>3, <3>1
      <4>2. /\ calls[line[i].call].stage = "sent"
            /\ line[i].parent_step = calls[line[i].call].parent_step
            /\ line[i].parent = TaskOf[line[i].call] /\ line[i].call_key[1] = Base[line[i].call]
            /\ \A j \in DOMAIN line : ~IsFrame(line[j]) /\ line[j].call = line[i].call => i = j
        BY <2>3, <3>1 DEF CallInv
      <4> QED
        BY <1>5, <1>6, <3>1, <4>1, <4>2
    <3>2. CASE i = Len(line) + 1 /\ line'[i] = m
      <4>1. \A j \in DOMAIN line' : ~IsFrame(line'[j]) /\ line'[j].call = c => i = j
        BY <1>6, <2>2, <3>2
      <4> QED
        BY <1>3, <1>5, <3>2, <4>1
    <3> QED
      BY <1>6, <3>1, <3>2
  <2>4. ASSUME NEW i \in DOMAIN inbox, inbox[i].type = "ASSIGN_RESPONSE"
        PROVE  /\ calls'[inbox[i].call].stage = "sent" /\ inbox[i].child \in children
               /\ inbox[i].child.parent = TaskOf[inbox[i].call]
               /\ inbox[i].child.call_key[1] = Base[inbox[i].call]
               /\ \A j \in DOMAIN inbox : inbox[j].type = "ASSIGN_RESPONSE"
                     /\ inbox[j].call = inbox[i].call => i = j
               /\ \A j \in DOMAIN line' : ~(~IsFrame(line'[j]) /\ line'[j].call = inbox[i].call)
    <3>1. inbox[i] \in Responses
      BY <2>4, Kinds DEF TypeInv
    <3>2. calls[inbox[i].call].stage = "sent" /\ inbox[i].call \in Calls
      BY <2>4, <3>1 DEF CallInv, Responses
    <3>3. inbox[i].call # c /\ calls'[inbox[i].call] = calls[inbox[i].call]
      BY <1>1, <1>3, <3>2
    <3> QED
      BY <1>5, <1>6, <2>4, <3>3 DEF CallInv
  <2> QED
    BY <1>1, <2>1, <2>3, <2>4 DEF CallInv
<1> QED
  BY <1>2, <1>4, <1>7, <1>8, <1>9, <1>10, <1>11


\* A request is read: its call waits for the answer instead.
LEMMA RequestCalls ==
  ASSUME TypeInv, StepInv, CallInv, ServerReadRequest
  PROVE  /\ CallInv'
         /\ \A d \in Calls : Underway(d)' <=> Underway(d)
         /\ \A d \in Calls, n \in Nat : Holds(d, n)' => Holds(d, n)
         /\ \A t \in Tasks, b \in Bases : Sent(t, b)' = Sent(t, b)
         /\ UNCHANGED <<calls, step, running, occurrences>> /\ OnRecord' = OnRecord
         /\ \E c \in Calls, child \in Children :
               /\ Underway(c) /\ Pending(c) /\ TaskOf[c] \in running
               /\ children' = children \cup {child}
               /\ child.parent = TaskOf[c] /\ child.call_key[1] = Base[c] /\ Holds(c, child.call_key[2])
               /\ child \notin children =>
                     /\ child.parent_step = calls[c].parent_step
                     /\ \A d \in children : ~(d.parent = child.parent /\ d.call_key = child.call_key)
               /\ \A d \in Calls : Pending(d)' => Pending(d) /\ d # c
<1>1. PICK c \in Calls, child \in Children :
         /\ Head(line) \in Requests /\ 1 \in DOMAIN line /\ line[1] = Head(line)
         /\ ~IsFrame(line[1]) /\ Head(line).call = c
         /\ Underway(c) /\ calls[c].stage = "sent" /\ TaskOf[c] \in running
         /\ child.parent = TaskOf[c] /\ child.call_key = Head(line).call_key
         /\ child.call_key[1] = Base[c]
         /\ line' = Tail(line)
         /\ children' = children \cup {child}
         /\ inbox' = Append(inbox, Response(c, child))
         /\ Response(c, child) \in Responses
         /\ child \notin children =>
               /\ child.parent_step = calls[c].parent_step
               /\ \A d \in children : ~(d.parent = child.parent /\ d.call_key = child.call_key)
  BY RequestRead
<1>2. UNCHANGED <<calls, step, running, occurrences, done>> /\ OnRecord' = OnRecord /\ line # <<>>
  BY DEF ServerReadRequest, workflow, OnRecord
<1>3. /\ \A i \in DOMAIN line' : i \in Int /\ i >= 1 /\ i + 1 \in DOMAIN line /\ line'[i] = line[i + 1]
  BY <1>1, <1>2, Read
<1> DEFINE r == Response(c, child)
<1>4. r.type = "ASSIGN_RESPONSE" /\ r.call = c /\ r.child = child
  BY DEF Response
<1>5. /\ inbox' = Append(inbox, r) /\ r \in Responses
  BY <1>1
<1> HIDE DEF r
<1>6. /\ \A i \in DOMAIN inbox : i \in 1 .. Len(inbox)
      /\ Len(inbox) + 1 \in DOMAIN inbox' /\ inbox'[Len(inbox) + 1] = r
      /\ \A i \in DOMAIN inbox' :
            (i \in DOMAIN inbox /\ inbox'[i] = inbox[i]) \/ (i = Len(inbox) + 1 /\ inbox'[i] = r)
  <2> DEFINE S == Acks \cup Assigns \cup Responses
  <2>1. inbox \in Seq(S) /\ r \in S
    BY <1>5 DEF TypeInv
  <2> HIDE DEF S
  <2> QED
    BY <1>5, <2>1, AppendFacts
<1>7. \A j \in DOMAIN line : ~IsFrame(line[j]) /\ line[j].call = c => j = 1
  BY <1>1 DEF CallInv
<1>8. \A i \in DOMAIN line' : ~IsFrame(line'[i]) => line'[i].call # c
  BY <1>3, <1>7
<1>9. \A d \in Calls : Pending(d)' => Pending(d) /\ d # c
  <2> SUFFICES ASSUME NEW d \in Calls, Pending(d)' PROVE Pending(d) /\ d # c
    OBVIOUS
  <2>1. CASE calls'[d].stage = "stepped"
    BY <1>1, <1>2, <2>1 DEF Pending
  <2>2. CASE calls'[d].stage # "stepped"
    <3>1. PICK i \in DOMAIN line' : ~IsFrame(line'[i]) /\ line'[i].call = d
      BY <2>2 DEF Pending
    <3> QED
      BY <1>3, <1>8, <3>1 DEF Pending
  <2> QED
    BY <2>1, <2>2
<1>10. Holds(c, child.call_key[2])
  BY <1>1 DEF Holds
<1>11. \A d \in Calls, n \in Nat : Holds(d, n)' => Holds(d, n)
  <2> SUFFICES ASSUME NEW d \in Calls, NEW n \in Nat, Holds(d, n)' PROVE Holds(d, n)
    OBVIOUS
  <2>1. ASSUME NEW i \in DOMAIN line', ~IsFrame(line'[i]), line'[i].call = d, line'[i].call_key[2] = n
        PROVE  Holds(d, n)
    BY <1>3, <2>1 DEF Holds
  <2>2. ASSUME NEW i \in DOMAIN inbox', inbox'[i].type = "ASSIGN_RESPONSE", inbox'[i].call = d,
               inbox'[i].child.call_key[2] = n
        PROVE  Holds(d, n)
    <3>1. CASE i \in DOMAIN inbox /\ inbox'[i] = inbox[i]
      BY <2>2, <3>1 DEF Holds
    <3>2. CASE inbox'[i] = r
      BY <1>4, <1>10, <2>2, <3>2
    <3> QED
      BY <1>6, <3>1, <3>2
  <2>3. ASSUME NEW x \in calls'[d].child, x.call_key[2] = n PROVE Holds(d, n)
    BY <1>2, <2>3 DEF Holds
  <2> QED
    BY <2>1, <2>2, <2>3 DEF Holds
<1>12. CallInv'
  <2>1. \A d \in Calls :
          /\ Underway(d)' => TaskOf[d] \in running' /\ d \notin done' /\ calls'[d].parent_step # 0
          /\ d \in done' => calls'[d].stage = "answered"
          /\ calls'[d].stage = "answered" => calls'[d].child # {}
          /\ calls'[d].stage # "answered" => calls'[d].child = {}
          /\ \A x \in calls'[d].child :
                x \in children' /\ x.parent = TaskOf[d] /\ x.call_key[1] = Base[d]
    BY <1>1, <1>2 DEF CallInv, Underway
  <2>2. ASSUME NEW i \in DOMAIN line', ~IsFrame(line'[i])
        PROVE  /\ calls[line'[i].call].stage = "sent"
               /\ line'[i].parent_step = calls[line'[i].call].parent_step
               /\ line'[i].parent = TaskOf[line'[i].call] /\ line'[i].call_key[1] = Base[line'[i].call]
               /\ \A j \in DOMAIN line' : ~IsFrame(line'[j]) /\ line'[j].call = line'[i].call => i = j
    BY <1>3, <2>2 DEF CallInv
  <2>3. ASSUME NEW i \in DOMAIN inbox', inbox'[i].type = "ASSIGN_RESPONSE"
        PROVE  /\ calls[inbox'[i].call].stage = "sent" /\ inbox'[i].child \in children'
               /\ inbox'[i].child.parent = TaskOf[inbox'[i].call]
               /\ inbox'[i].child.call_key[1] = Base[inbox'[i].call]
               /\ \A j \in DOMAIN inbox' : inbox'[j].type = "ASSIGN_RESPONSE"
                     /\ inbox'[j].call = inbox'[i].call => i = j
               /\ \A j \in DOMAIN line' : ~(~IsFrame(line'[j]) /\ line'[j].call = inbox'[i].call)
    <3>1. \A j \in DOMAIN inbox : inbox[j].type = "ASSIGN_RESPONSE" => inbox[j].call # c
      BY <1>1 DEF CallInv
    <3>2. CASE i \in DOMAIN inbox /\ inbox'[i] = inbox[i]
      <4>1. /\ calls[inbox[i].call].stage = "sent" /\ inbox[i].child \in children
            /\ inbox[i].child.parent = TaskOf[inbox[i].call]
            /\ inbox[i].child.call_key[1] = Base[inbox[i].call]
            /\ \A j \in DOMAIN inbox : inbox[j].type = "ASSIGN_RESPONSE"
                  /\ inbox[j].call = inbox[i].call => i = j
            /\ \A j \in DOMAIN line : ~(~IsFrame(line[j]) /\ line[j].call = inbox[i].call)
        BY <2>3, <3>2 DEF CallInv
      <4>2. inbox[i].call # c
        BY <2>3, <3>1, <3>2
      <4>3. \A j \in DOMAIN inbox' : inbox'[j].type = "ASSIGN_RESPONSE"
               /\ inbox'[j].call = inbox[i].call => i = j
        BY <1>4, <1>6, <4>1, <4>2
      <4>4. \A j \in DOMAIN line' : ~(~IsFrame(line'[j]) /\ line'[j].call = inbox[i].call)
        BY <1>3, <4>1
      <4> QED
        BY <1>1, <3>2, <4>1, <4>3, <4>4
    <3>3. CASE i = Len(inbox) + 1 /\ inbox'[i] = r
      <4>1. \A j \in DOMAIN inbox' : inbox'[j].type = "ASSIGN_RESPONSE" /\ inbox'[j].call = c => i = j
        BY <1>6, <3>1, <3>3
      <4> QED
        BY <1>1, <1>4, <1>8, <3>3, <4>1
    <3> QED
      BY <1>6, <3>2, <3>3
  <2> QED
    BY <1>2, <2>1, <2>2, <2>3 DEF CallInv
<1>13. Pending(c)
  BY <1>1 DEF Pending
<1>14. /\ \A d \in Calls : Underway(d)' <=> Underway(d)
       /\ \A t \in Tasks, b \in Bases : Sent(t, b)' = Sent(t, b)
  BY <1>2 DEF Underway, Sent, CallsTo
<1> QED
  BY <1>1, <1>2, <1>9, <1>10, <1>11, <1>12, <1>13, <1>14

LEMMA CallStep ==
  ASSUME TypeInv, DeliveryInv, StepInv, CallInv, Next
  PROVE  CallInv'
<1>1. ASSUME Start \/ HandleAssign \/ HandleAck \/ ServerReadFrame PROVE CallInv'
  <2>1. running \subseteq running'
    BY <1>1 DEF Start, HandleAssign, HandleAck, ServerReadFrame, workflow
  <2>2. \A c \in Calls : Underway(c) => TaskOf[c] \in running'
    BY <2>1 DEF CallInv
  <2> QED
    BY <1>1, <2>2, QuietSteps, CallQuiet
<1>2. ASSUME NEW t \in Tasks, ServerAssign(t) PROVE CallInv'
  <2>1. \A c \in Calls : Underway(c) => TaskOf[c] \in running'
    BY <1>2 DEF ServerAssign, workflow, CallInv
  <2> QED
    BY <1>2, <2>1, QuietSteps, CallQuiet
<1>3. ASSUME NEW e \in Effects, TakeEffect(e) PROVE CallInv'
  <2>1. \A c \in Calls : Underway(c) => TaskOf[c] \in running'
    BY <1>3 DEF TakeEffect, CallInv
  <2> QED
    BY <1>3, <2>1, QuietSteps, CallQuiet
<1>4. ASSUME NEW p \in Reports, Report(p) PROVE CallInv'
  <2>1. \A c \in Calls : Underway(c) => TaskOf[c] \in running'
    BY <1>4 DEF Report, CallInv
  <2> QED
    BY <1>4, <2>1, QuietSteps, CallQuiet
<1>5. ASSUME NEW t \in Tasks, End(t) PROVE CallInv'
  <2>1. running' = running \ {t} /\ PointsOf(t) \subseteq done
    BY <1>5 DEF End
  <2>2. \A c \in Calls : Underway(c) => TaskOf[c] \in running'
    BY <2>1 DEF CallInv, PointsOf, Points
  <2> QED
    BY <1>5, <2>2, QuietSteps, CallQuiet
<1>6. CASE Crash
  <2>1. /\ \A c \in Calls : calls'[c].stage = "idle" /\ calls'[c].child = {}
        /\ done' = {} /\ line' = <<>> /\ inbox' = <<>>
    BY <1>6 DEF Crash, NoCall
  <2> QED
    BY <2>1 DEF CallInv, Underway
<1>7. ASSUME NEW c \in Calls, ReserveStep(c) \/ SendCall(c) PROVE CallInv'
  BY <1>7, ReserveCalls, SendCalls
<1> QED
  BY <1>1, <1>2, <1>3, <1>4, <1>5, <1>6, <1>7, ResponseCalls, RequestCalls DEF Next, Handle, Server, Work


-----------------------------------------------------------------------------
(* Steps of frames, calls and children.                                    *)

LEMMA PendingIsUnderway ==
  ASSUME CallInv, NEW c \in Calls, Pending(c)
  PROVE  Underway(c)
BY DEF CallInv, Pending, Underway

LEMMA PendingIsUnderwayNext ==
  ASSUME CallInv', NEW c \in Calls, Pending(c)'
  PROVE  Underway(c)'
BY DEF CallInv, Pending, Underway

\* No step is handed out.
LEMMA StepSame ==
  ASSUME StepInv, CallInv', OnRecord' = OnRecord, UNCHANGED <<children, step>>, running' \subseteq running,
         \A c \in Calls : Underway(c)' => Underway(c) /\ calls'[c].parent_step = calls[c].parent_step,
         \A c \in Calls : Pending(c)' => Pending(c)
  PROVE  StepInv'
<1>1. /\ \A f, g \in OnRecord' : f.task = g.task /\ f.step = g.step => f = g
      /\ \A c, d \in children' : c.parent = d.parent /\ c.parent_step = d.parent_step => c = d
      /\ \A f \in OnRecord', c \in children' : f.task = c.parent => f.step # c.parent_step
      /\ \A t \in running' :
            /\ \A f \in OnRecord' : f.task = t => f.step <= step'[t]
            /\ \A c \in children' : c.parent = t => c.parent_step <= step'[t]
  BY DEF StepInv
<1>2. \A c \in Calls : Underway(c)' =>
          /\ calls'[c].parent_step <= step'[TaskOf[c]]
          /\ \A f \in OnRecord' : f.task = TaskOf[c] => f.step # calls'[c].parent_step
          /\ \A d \in Calls : Underway(d)' /\ TaskOf[d] = TaskOf[c]
                /\ calls'[d].parent_step = calls'[c].parent_step => d = c
  BY DEF StepInv
<1>3. ASSUME NEW c \in Calls, Pending(c)'
      PROVE  \A child \in children' : child.parent = TaskOf[c] => child.parent_step # calls'[c].parent_step
  <2>1. Pending(c) /\ calls'[c].parent_step = calls[c].parent_step
    BY <1>3, PendingIsUnderwayNext
  <2> QED
    BY <2>1 DEF StepInv
<1> QED
  BY <1>1, <1>2, <1>3 DEF StepInv

\* A frame is numbered behind everything of its task.
LEMMA StepEmits ==
  ASSUME TypeInv, DeliveryInv, StepInv, CallInv, Quiet, NEW t \in Tasks, NEW what \in What,
         Emits(t, what), running' \subseteq running
  PROVE  StepInv'
<1> DEFINE x == New(t, what)
<1>1. alive /\ run' = run /\ projected' = projected /\ t \in running /\ Emit(t, what)
      /\ UNCHANGED <<calls, children>>
  BY DEF Emits
<1>2. OnRecord' = OnRecord \cup {x} /\ x.task = t /\ x.step = step[t] + 1
  BY <1>1, Emitted
<1>3. step \in [Tasks -> Nat]
  BY DEF TypeInv, TypeOK
<1>4. step' = [step EXCEPT ![t] = @ + 1]
  BY <1>1 DEF Emit
<1>5. step'[t] = step[t] + 1 /\ step[t] \in Nat /\ \A s \in Tasks : s # t => step'[s] = step[s]
  BY <1>3, <1>4
<1> HIDE DEF x
<1>6. \A f \in OnRecord : f.step \in Nat
  BY FramesOnRecord
<1>7. \A c \in children : c.parent_step \in Nat
  BY DEF TypeInv, TypeOK, Children
<1>8. running \subseteq Tasks
  BY DEF TypeInv, TypeOK
<1>9. /\ \A f \in OnRecord : f.task = t => f.step <= step[t] /\ f.step < x.step
      /\ \A c \in children : c.parent = t => c.parent_step <= step[t] /\ c.parent_step < x.step
  BY <1>1, <1>2, <1>5, <1>6, <1>7 DEF StepInv
<1>10. \A f, g \in OnRecord' : f.task = g.task /\ f.step = g.step => f = g
  BY <1>2, <1>5, <1>6, <1>9 DEF StepInv
<1>11. /\ \A c, d \in children' : c.parent = d.parent /\ c.parent_step = d.parent_step => c = d
       /\ \A f \in OnRecord', c \in children' : f.task = c.parent => f.step # c.parent_step
  BY <1>1, <1>2, <1>5, <1>7, <1>9 DEF StepInv
<1>12. ASSUME NEW s \in running'
       PROVE  /\ \A f \in OnRecord' : f.task = s => f.step <= step'[s]
              /\ \A c \in children' : c.parent = s => c.parent_step <= step'[s]
  <2>1. CASE s = t
    BY <1>1, <1>2, <1>5, <1>6, <1>7, <1>9, <2>1
  <2>2. CASE s # t
    BY <1>1, <1>2, <1>5, <1>8, <2>2 DEF StepInv
  <2> QED
    BY <2>1, <2>2
<1>13. ASSUME NEW c \in Calls, Underway(c)'
       PROVE  /\ calls'[c].parent_step <= step'[TaskOf[c]]
              /\ \A f \in OnRecord' : f.task = TaskOf[c] => f.step # calls'[c].parent_step
              /\ \A d \in Calls : Underway(d)' /\ TaskOf[d] = TaskOf[c]
                    /\ calls'[d].parent_step = calls'[c].parent_step => d = c
  <2>1. Underway(c) /\ \A d \in Calls : Underway(d)' => Underway(d)
    BY <1>13, QuietCalls
  <2>2. calls[c].parent_step \in Nat /\ TaskOf[c] \in Tasks
    BY ProgramAssumption DEF TypeInv, TypeOK, CallStates, Points
  <2>3. /\ calls[c].parent_step <= step[TaskOf[c]]
        /\ \A f \in OnRecord : f.task = TaskOf[c] => f.step # calls[c].parent_step
        /\ \A d \in Calls : Underway(d) /\ TaskOf[d] = TaskOf[c]
                    /\ calls[d].parent_step = calls[c].parent_step => d = c
    BY <2>1 DEF StepInv
  <2>4. calls[c].parent_step <= step'[TaskOf[c]]
    <3>1. step[TaskOf[c]] \in Nat /\ (step'[TaskOf[c]] = step[TaskOf[c]] \/ step'[TaskOf[c]] = step[TaskOf[c]] + 1)
      BY <1>3, <1>5, <2>2
    <3> QED
      BY <2>2, <2>3, <3>1
  <2>5. TaskOf[c] = t => x.step # calls[c].parent_step
    BY <1>2, <1>5, <2>2, <2>3
  <2> QED
    BY <1>1, <1>2, <2>1, <2>3, <2>4, <2>5
<1>14. \A c \in Calls : Pending(c)' => \A child \in children' :
          child.parent = TaskOf[c] => child.parent_step # calls'[c].parent_step
  BY <1>1, QuietCalls DEF StepInv
<1> QED
  BY <1>10, <1>11, <1>12, <1>13, <1>14 DEF StepInv

\* A resumed workflow goes on behind everything of its task.
LEMMA StepResumed ==
  ASSUME TypeInv, DeliveryInv, StepInv, CallInv, AssignInv, HandleAssign
  PROVE  StepInv'
<1> DEFINE m == Head(inbox)
<1>1. /\ m \in Assigns /\ m.task \in Tasks /\ OnRecord' = OnRecord /\ children' = children
      /\ Fresh(m.task)
      /\ \A f \in OnRecord : f.task = m.task => Knows(m, f) \/ f \in retained
      /\ \A c \in children : c.parent = m.task => c.parent_step <= m.last_step
  BY Resumed
<1>2. Quiet /\ CallInv'
  BY QuietSteps, CallStep DEF Next, Handle
<1>3. calls' = calls
  BY <1>2 DEF Quiet
<1>4. \/ UNCHANGED <<running, step>>
      \/ running' = running \cup {m.task} /\ step' = [step EXCEPT ![m.task] = LastStep(m)]
  BY DEF HandleAssign
<1> HIDE DEF m
<1>5. CASE UNCHANGED <<running, step>>
  BY <1>1, <1>2, <1>3, <1>5, QuietCalls, StepSame
<1>6. CASE running' = running \cup {m.task} /\ step' = [step EXCEPT ![m.task] = LastStep(m)]
  <2>1. /\ LastStep(m) \in Nat /\ m.last_step <= LastStep(m)
        /\ \A f \in retained : f.task = m.task => f.step <= LastStep(m)
    BY <1>1, LastStepIs DEF HandleAssign, DeliveryInv, ProcessInv
  <2>2. step \in [Tasks -> Nat] /\ running \subseteq Tasks /\ m.last_step \in Nat
    BY <1>1 DEF TypeInv, TypeOK, Assigns
  <2>3. step'[m.task] = LastStep(m) /\ \A t \in Tasks : t # m.task => step'[t] = step[t]
    BY <1>1, <1>6, <2>2
  <2>4. \A f \in OnRecord : f.step \in Nat
    BY FramesOnRecord
  <2>5. \A c \in children : c.parent_step \in Nat
    BY DEF TypeInv, TypeOK, Children
  <2>6. /\ \A f \in OnRecord : f.task = m.task => f.step <= LastStep(m)
        /\ \A c \in children : c.parent = m.task => c.parent_step <= LastStep(m)
    BY <1>1, <2>1, <2>2, <2>4, <2>5 DEF Knows
  <2>7. ASSUME NEW t \in running'
        PROVE  /\ \A f \in OnRecord' : f.task = t => f.step <= step'[t]
               /\ \A c \in children' : c.parent = t => c.parent_step <= step'[t]
    <3>1. CASE t = m.task
      BY <1>1, <2>3, <2>6, <3>1
    <3>2. CASE t # m.task
      BY <1>1, <1>6, <2>2, <2>3, <3>2 DEF StepInv
    <3> QED
      BY <3>1, <3>2
  <2>8. \A c \in Calls : Underway(c)' => Underway(c) /\ step'[TaskOf[c]] = step[TaskOf[c]]
    <3> SUFFICES ASSUME NEW c \in Calls, Underway(c)' PROVE Underway(c) /\ step'[TaskOf[c]] = step[TaskOf[c]]
      OBVIOUS
    <3>1. Underway(c)
      BY <1>2, QuietCalls
    <3>2. TaskOf[c] # m.task
      BY <1>1, <3>1 DEF Fresh, Underway, NoCall
    <3> QED
      BY <2>2, <2>3, <3>1, <3>2 DEF CallInv
  <2>9. /\ \A f, g \in OnRecord' : f.task = g.task /\ f.step = g.step => f = g
        /\ \A c, d \in children' : c.parent = d.parent /\ c.parent_step = d.parent_step => c = d
        /\ \A f \in OnRecord', c \in children' : f.task = c.parent => f.step # c.parent_step
    BY <1>1 DEF StepInv
  <2>10. \A c \in Calls : Underway(c)' =>
          /\ calls'[c].parent_step <= step'[TaskOf[c]]
          /\ \A f \in OnRecord' : f.task = TaskOf[c] => f.step # calls'[c].parent_step
          /\ \A d \in Calls : Underway(d)' /\ TaskOf[d] = TaskOf[c]
                /\ calls'[d].parent_step = calls'[c].parent_step => d = c
    BY <1>1, <1>3, <2>8 DEF StepInv
  <2>11. \A c \in Calls : Pending(c)' => \A child \in children' :
          child.parent = TaskOf[c] => child.parent_step # calls'[c].parent_step
    BY <1>1, <1>2, <1>3, QuietCalls DEF StepInv
  <2> QED
    BY <2>7, <2>9, <2>10, <2>11 DEF StepInv
<1> QED
  BY <1>4, <1>5, <1>6


\* The step reserved for a call is behind everything of its task.
LEMMA StepReserved ==
  ASSUME TypeInv, StepInv, CallInv, NEW c \in Calls, ReserveStep(c)
  PROVE  StepInv'
<1> DEFINE t == TaskOf[c]
<1>1. /\ CallInv' /\ t \in Tasks /\ t \in running /\ Underway(c)'
      /\ calls'[c].parent_step = step[t] + 1
      /\ \A d \in Calls : d # c => calls'[d] = calls[d] /\ (Underway(d)' <=> Underway(d))
      /\ \A d \in Calls : d # c /\ Pending(d)' => Pending(d)
  BY ReserveCalls
<1>2. /\ step' = [step EXCEPT ![t] = @ + 1] /\ UNCHANGED <<children, running>> /\ OnRecord' = OnRecord
  BY DEF ReserveStep, server, OnRecord
<1>3. step \in [Tasks -> Nat] /\ running \subseteq Tasks
  BY DEF TypeInv, TypeOK
<1>4. step'[t] = step[t] + 1 /\ step[t] \in Nat /\ \A s \in Tasks : s # t => step'[s] = step[s]
  BY <1>1, <1>2, <1>3
<1>5. \A f \in OnRecord : f.step \in Nat
  BY FramesOnRecord
<1>6. \A d \in children : d.parent_step \in Nat
  BY DEF TypeInv, TypeOK, Children
<1>7. \A d \in Calls : TaskOf[d] \in Tasks /\ calls[d].parent_step \in Nat
  BY ProgramAssumption DEF TypeInv, TypeOK, CallStates, Points
<1> HIDE DEF t
<1>8. /\ \A f \in OnRecord : f.task = t => f.step < step[t] + 1
      /\ \A d \in children : d.parent = t => d.parent_step < step[t] + 1
  BY <1>1, <1>4, <1>5, <1>6 DEF StepInv
<1>9. ASSUME NEW s \in running'
      PROVE  /\ \A f \in OnRecord' : f.task = s => f.step <= step'[s]
             /\ \A d \in children' : d.parent = s => d.parent_step <= step'[s]
  <2>1. CASE s = t
    BY <1>2, <1>4, <1>5, <1>6, <1>8, <2>1
  <2>2. CASE s # t
    BY <1>2, <1>3, <1>4, <1>9, <2>2 DEF StepInv
  <2> QED
    BY <2>1, <2>2
<1>10. ASSUME NEW d \in Calls, d # c, Underway(d)'
       PROVE  /\ calls'[d].parent_step <= step'[TaskOf[d]]
              /\ TaskOf[d] = t => calls'[d].parent_step < step[t] + 1
  <2>1. calls[d].parent_step <= step[TaskOf[d]] /\ calls'[d] = calls[d]
    BY <1>1, <1>10 DEF StepInv
  <2>2. step[TaskOf[d]] \in Nat /\ (step'[TaskOf[d]] = step[TaskOf[d]] \/ step'[TaskOf[d]] = step[TaskOf[d]] + 1)
    BY <1>3, <1>4, <1>7
  <2>3. calls[d].parent_step <= step'[TaskOf[d]]
    BY <1>7, <2>1, <2>2
  <2>4. TaskOf[d] = t => calls[d].parent_step < step[t] + 1
    BY <1>7, <2>1, <2>2
  <2> QED
    BY <2>1, <2>3, <2>4
<1>11. ASSUME NEW d \in Calls, Underway(d)'
       PROVE  /\ calls'[d].parent_step <= step'[TaskOf[d]]
              /\ \A f \in OnRecord' : f.task = TaskOf[d] => f.step # calls'[d].parent_step
              /\ \A b \in Calls : Underway(b)' /\ TaskOf[b] = TaskOf[d]
                    /\ calls'[b].parent_step = calls'[d].parent_step => b = d
  <2>1. CASE d = c
    <3>1. calls'[d].parent_step <= step'[TaskOf[d]]
      BY <1>1, <1>4, <2>1 DEF t
    <3>2. \A f \in OnRecord' : f.task = TaskOf[d] => f.step # calls'[d].parent_step
      BY <1>1, <1>2, <1>4, <1>5, <1>8, <2>1 DEF t
    <3>3. ASSUME NEW b \in Calls, Underway(b)', TaskOf[b] = TaskOf[d],
                 calls'[b].parent_step = calls'[d].parent_step
          PROVE  b = d
      <4>1. CASE b # c
        <5>1. calls'[b].parent_step < step[t] + 1 /\ calls'[b].parent_step \in Nat
          BY <1>1, <1>7, <1>10, <2>1, <3>3, <4>1 DEF t
        <5> QED
          BY <1>1, <1>4, <2>1, <3>3, <5>1
      <4> QED
        BY <2>1, <4>1
    <3> QED
      BY <3>1, <3>2, <3>3
  <2>2. CASE d # c
    <3>1. Underway(d) /\ calls'[d] = calls[d]
      BY <1>1, <1>11, <2>2
    <3>2. calls'[d].parent_step <= step'[TaskOf[d]]
      BY <1>10, <1>11, <2>2
    <3>3. \A f \in OnRecord' : f.task = TaskOf[d] => f.step # calls'[d].parent_step
      BY <1>2, <3>1 DEF StepInv
    <3>4. ASSUME NEW b \in Calls, Underway(b)', TaskOf[b] = TaskOf[d],
                 calls'[b].parent_step = calls'[d].parent_step
          PROVE  b = d
      <4>1. CASE b = c
        <5>1. calls'[d].parent_step < step[t] + 1 /\ calls'[d].parent_step \in Nat
          BY <1>7, <1>10, <1>11, <2>2, <3>1, <3>4, <4>1 DEF t
        <5> QED
          BY <1>1, <1>4, <3>4, <4>1, <5>1
      <4>2. CASE b # c
        <5>1. Underway(b) /\ calls'[b] = calls[b]
          BY <1>1, <3>4, <4>2
        <5> QED
          BY <3>1, <3>4, <5>1 DEF StepInv
      <4> QED
        BY <4>1, <4>2
    <3> QED
      BY <3>2, <3>3, <3>4
  <2> QED
    BY <2>1, <2>2
<1>12. ASSUME NEW d \in Calls, Pending(d)'
       PROVE  \A child \in children' : child.parent = TaskOf[d] => child.parent_step # calls'[d].parent_step
  <2>1. CASE d = c
    BY <1>1, <1>2, <1>4, <1>6, <1>8, <2>1 DEF t
  <2>2. CASE d # c
    BY <1>1, <1>2, <1>12, <2>2 DEF StepInv
  <2> QED
    BY <2>1, <2>2
<1>13. /\ \A f, g \in OnRecord' : f.task = g.task /\ f.step = g.step => f = g
       /\ \A a, b \in children' : a.parent = b.parent /\ a.parent_step = b.parent_step => a = b
       /\ \A f \in OnRecord', b \in children' : f.task = b.parent => f.step # b.parent_step
  BY <1>2 DEF StepInv
<1> QED
  BY <1>9, <1>11, <1>12, <1>13 DEF StepInv

\* A new child has the step of the call it answers, which nothing else has.
LEMMA StepRequested ==
  ASSUME TypeInv, DeliveryInv, StepInv, CallInv, ServerReadRequest
  PROVE  StepInv'
<1>1. /\ CallInv'
      /\ \A d \in Calls : Underway(d)' <=> Underway(d)
      /\ UNCHANGED <<calls, step, running>> /\ OnRecord' = OnRecord
  BY RequestCalls
<1>2. PICK c \in Calls, child \in Children :
         /\ Underway(c) /\ Pending(c) /\ TaskOf[c] \in running
         /\ children' = children \cup {child} /\ child.parent = TaskOf[c]
         /\ child \notin children => child.parent_step = calls[c].parent_step
         /\ \A d \in Calls : Pending(d)' => Pending(d) /\ d # c
  BY RequestCalls
<1>3. CASE child \in children
  <2>1. children' = children
    BY <1>2, <1>3
  <2> QED
    BY <1>1, <1>2, <2>1, StepSame
<1>4. CASE child \notin children
  <2>1. /\ calls[c].parent_step <= step[TaskOf[c]]
        /\ \A f \in OnRecord : f.task = TaskOf[c] => f.step # calls[c].parent_step
        /\ \A d \in Calls : Underway(d) /\ TaskOf[d] = TaskOf[c]
                    /\ calls[d].parent_step = calls[c].parent_step => d = c
        /\ \A d \in children : d.parent = TaskOf[c] => d.parent_step # calls[c].parent_step
    BY <1>2 DEF StepInv
  <2>2. child.parent = TaskOf[c] /\ child.parent_step = calls[c].parent_step
    BY <1>2, <1>4
  <2>3. \A a, b \in children' : a.parent = b.parent /\ a.parent_step = b.parent_step => a = b
    BY <1>2, <2>1, <2>2 DEF StepInv
  <2>4. \A f \in OnRecord', b \in children' : f.task = b.parent => f.step # b.parent_step
    BY <1>1, <1>2, <2>1, <2>2 DEF StepInv
  <2>5. \A t \in running' :
            /\ \A f \in OnRecord' : f.task = t => f.step <= step'[t]
            /\ \A b \in children' : b.parent = t => b.parent_step <= step'[t]
    BY <1>1, <1>2, <2>1, <2>2 DEF StepInv
  <2>6. ASSUME NEW d \in Calls, Pending(d)'
        PROVE  \A b \in children' : b.parent = TaskOf[d] => b.parent_step # calls'[d].parent_step
    <3>1. Pending(d) /\ d # c /\ Underway(d) /\ calls' = calls
      BY <1>1, <1>2, <2>6, PendingIsUnderway
    <3>2. ~(TaskOf[d] = TaskOf[c] /\ calls[d].parent_step = calls[c].parent_step)
      BY <2>1, <3>1
    <3> QED
      BY <1>2, <2>2, <3>1, <3>2 DEF StepInv
  <2>7. \A f, g \in OnRecord' : f.task = g.task /\ f.step = g.step => f = g
    BY <1>1 DEF StepInv
  <2>8. \A d \in Calls : Underway(d)' =>
          /\ calls'[d].parent_step <= step'[TaskOf[d]]
          /\ \A f \in OnRecord' : f.task = TaskOf[d] => f.step # calls'[d].parent_step
          /\ \A b \in Calls : Underway(b)' /\ TaskOf[b] = TaskOf[d]
                /\ calls'[b].parent_step = calls'[d].parent_step => b = d
    BY <1>1 DEF StepInv
  <2> QED
    BY <2>3, <2>4, <2>5, <2>6, <2>7, <2>8 DEF StepInv
<1> QED
  BY <1>3, <1>4

LEMMA StepStep ==
  ASSUME TypeInv, DeliveryInv, StepInv, CallInv, AssignInv, Next
  PROVE  StepInv'
<1>0. CallInv'
  BY CallStep
<1>1. ASSUME Start \/ HandleAck \/ ServerReadFrame PROVE StepInv'
  <2>1. UNCHANGED <<children, step, running>>
    BY <1>1 DEF Start, HandleAck, ServerReadFrame, workflow, server
  <2>2. OnRecord' = OnRecord
    <3>1. CASE Start
      BY <3>1 DEF Start, server, OnRecord
    <3> QED
      BY <1>1, <3>1, AckKeepsRecord, ReadKeepsRecord
  <2>3. Quiet
    BY <1>1, QuietSteps
  <2> QED
    BY <1>0, <2>1, <2>2, <2>3, QuietCalls, StepSame DEF Quiet
<1>2. ASSUME NEW t \in Tasks, ServerAssign(t) PROVE StepInv'
  <2>1. UNCHANGED <<children, step, running>> /\ OnRecord' = OnRecord
    BY <1>2 DEF ServerAssign, workflow, OnRecord
  <2>2. Quiet
    BY <1>2, QuietSteps
  <2> QED
    BY <1>0, <2>1, <2>2, QuietCalls, StepSame DEF Quiet
<1>3. CASE Crash
  <2>1. /\ \A c \in Calls : calls'[c].stage = "idle"
        /\ running' = {} /\ line' = <<>> /\ children' = children /\ OnRecord' = OnRecord
    BY <1>3 DEF Crash, NoCall, server, OnRecord
  <2> QED
    BY <2>1 DEF StepInv, Underway, Pending
<1>4. CASE HandleResponse
  <2>1. UNCHANGED <<children, step, running>> /\ OnRecord' = OnRecord
    BY <1>4 DEF HandleResponse, server, OnRecord
  <2> QED
    BY <1>0, <1>4, <2>1, ResponseCalls, StepSame
<1>5. ASSUME NEW c \in Calls, SendCall(c) PROVE StepInv'
  <2>1. UNCHANGED <<children, step, running>> /\ OnRecord' = OnRecord
    BY <1>5 DEF SendCall, server, OnRecord
  <2> QED
    BY <1>0, <1>5, <2>1, SendCalls, StepSame
<1>6. ASSUME NEW e \in Effects, TakeEffect(e) PROVE StepInv'
  <2>1. Quiet
    BY <1>6, QuietSteps
  <2>2. CASE Replays(e)
    <3>1. UNCHANGED <<children, step, running>> /\ OnRecord' = OnRecord
      BY <2>2 DEF Replays, server, OnRecord
    <3> QED
      BY <1>0, <2>1, <3>1, QuietCalls, StepSame DEF Quiet
  <2> QED
    BY <1>6, <2>1, <2>2, WorkEmits, StepEmits
<1>7. ASSUME NEW p \in Reports, Report(p) PROVE StepInv'
  BY <1>7, QuietSteps, WorkEmits, StepEmits
<1>8. ASSUME NEW t \in Tasks, End(t) PROVE StepInv'
  BY <1>8, QuietSteps, WorkEmits, StepEmits
<1> QED
  BY <1>1, <1>2, <1>3, <1>4, <1>5, <1>6, <1>7, <1>8, StepResumed, StepReserved, StepRequested
  DEF Next, Handle, Server, Work


-----------------------------------------------------------------------------
(* Keys.                                                                   *)

\* No call is sent, and no child created.
LEMMA KeySame ==
  ASSUME KeyInv, children' = children, running' \subseteq running,
         \A t \in running', b \in Bases : occurrences'[<<t, b>>] = occurrences[<<t, b>>],
         \A c \in Calls, n \in Nat : Holds(c, n)' => Holds(c, n),
         \A t \in Tasks, b \in Bases : Sent(t, b)' = Sent(t, b), running' \subseteq Tasks
  PROVE  KeyInv'
<1>1. Cardinality(Calls) \in Nat
  BY ProgramAssumption, FS_CardinalityType
<1>2. \A c \in Calls, n \in 1 .. Cardinality(Calls) : Holds(c, n)' => Holds(c, n)
  BY <1>1
<1>3. \A c, d \in Calls : TaskOf[c] = TaskOf[d] /\ Base[c] = Base[d] =>
          \A n \in 1 .. Cardinality(Calls) : Holds(c, n)' /\ Holds(d, n)' => c = d
  BY <1>2 DEF KeyInv
<1>4. \A c \in Calls : TaskOf[c] \in running' => \A n \in 1 .. Cardinality(Calls) :
          Holds(c, n)' => n <= occurrences'[<<TaskOf[c], Base[c]>>]
  BY <1>2 DEF KeyInv, Bases
<1>5. \A t \in running', b \in Bases : occurrences'[<<t, b>>] = Cardinality(Sent(t, b)')
  BY DEF KeyInv
<1>6. /\ \A c, d \in children' : c.parent = d.parent /\ c.call_key = d.call_key => c = d
      /\ \A c \in children' : c.call_key[2] <= Cardinality(CallsTo(c.parent, c.call_key[1])')
  BY DEF KeyInv, CallsTo
<1> QED
  BY <1>3, <1>4, <1>5, <1>6 DEF KeyInv

\* A call that waits for nothing, and has found nothing, has no key.
LEMMA IdleHoldsNothing ==
  ASSUME TypeInv, CallInv, NEW c \in Calls, calls[c] = NoCall, NEW n \in Nat
  PROVE  ~Holds(c, n)
<1>1. calls[c].stage = "idle" /\ calls[c].child = {}
  BY DEF NoCall
<1>2. ASSUME NEW i \in DOMAIN line, ~IsFrame(line[i]), line[i].call = c PROVE FALSE
  BY <1>1, <1>2 DEF CallInv
<1>3. ASSUME NEW i \in DOMAIN inbox, inbox[i].type = "ASSIGN_RESPONSE", inbox[i].call = c PROVE FALSE
  BY <1>1, <1>3 DEF CallInv
<1> QED
  BY <1>1, <1>2, <1>3 DEF Holds

\* A call asks for one more than its task has asked for of its target.
LEMMA KeySent ==
  ASSUME TypeInv, CallInv, KeyInv, NEW c \in Calls, SendCall(c)
  PROVE  KeyInv'
<1> DEFINE t == TaskOf[c]
<1> DEFINE b == Base[c]
<1>1. /\ t \in Tasks /\ t \in running /\ b \in Bases /\ c \notin Sent(t, b)
      /\ \A d \in Calls, n \in Nat : Holds(d, n)' => Holds(d, n) \/ (d = c /\ n = Occurrence(c))
      /\ Sent(t, b)' = Sent(t, b) \cup {c}
      /\ \A s \in Tasks, a \in Bases : s # t \/ a # b => Sent(s, a)' = Sent(s, a)
  BY SendCalls
<1>2. /\ occurrences' = [occurrences EXCEPT ![<<t, b>>] = @ + 1] /\ UNCHANGED <<running, children>>
      /\ Occurrence(c) = occurrences[<<t, b>>] + 1
  BY DEF SendCall, server, Occurrence
<1>3. /\ occurrences \in [Tasks \X Bases -> 0 .. Cardinality(Calls)] /\ running \subseteq Tasks
      /\ Cardinality(Calls) \in Nat
  BY ProgramAssumption, FS_CardinalityType DEF TypeInv, TypeOK
<1>4. occurrences[<<t, b>>] = Cardinality(Sent(t, b)) /\ IsFiniteSet(Sent(t, b))
  BY <1>1, SentIsBounded
<1>5. /\ occurrences[<<t, b>>] \in Nat
      /\ occurrences'[<<t, b>>] = occurrences[<<t, b>>] + 1
      /\ \A s \in Tasks, a \in Bases : s # t \/ a # b => occurrences'[<<s, a>>] = occurrences[<<s, a>>]
  BY <1>1, <1>2, <1>3
<1>6. \A d \in Calls, n \in 1 .. Cardinality(Calls) :
         Holds(d, n)' => Holds(d, n) \/ (d = c /\ n = occurrences[<<t, b>>] + 1)
  BY <1>1, <1>2, <1>3
<1>7. \A d \in Calls, n \in 1 .. Cardinality(Calls) : TaskOf[d] = t /\ Base[d] = b =>
         (Holds(d, n) => n <= occurrences[<<t, b>>])
  BY <1>1 DEF KeyInv
<1>8. \A d, e \in Calls : TaskOf[d] = TaskOf[e] /\ Base[d] = Base[e] =>
          \A n \in 1 .. Cardinality(Calls) : Holds(d, n)' /\ Holds(e, n)' => d = e
  <2> SUFFICES ASSUME NEW d \in Calls, NEW e \in Calls, TaskOf[d] = TaskOf[e], Base[d] = Base[e],
                      NEW n \in 1 .. Cardinality(Calls), Holds(d, n)', Holds(e, n)'
               PROVE  d = e
    OBVIOUS
  <2>1. CASE Holds(d, n) /\ Holds(e, n)
    BY <2>1 DEF KeyInv
  <2>2. CASE n = occurrences[<<t, b>>] + 1 /\ TaskOf[d] = t /\ Base[d] = b
    <3>0. n \in Nat /\ ~(n <= occurrences[<<t, b>>])
      BY <1>5, <2>2
    <3>1. ~Holds(d, n)
      BY <1>7, <2>2, <3>0
    <3>2. ~Holds(e, n)
      <4>1. TaskOf[e] = t /\ Base[e] = b
        BY <2>2
      <4> QED
        BY <1>7, <3>0, <4>1
    <3> QED
      BY <1>6, <3>1, <3>2
  <2>3. \/ Holds(d, n) /\ Holds(e, n)
        \/ n = occurrences[<<t, b>>] + 1 /\ TaskOf[d] = t /\ Base[d] = b
    BY <1>6
  <2> QED
    BY <2>1, <2>2, <2>3
<1>9. ASSUME NEW d \in Calls, TaskOf[d] \in running', NEW n \in 1 .. Cardinality(Calls), Holds(d, n)'
      PROVE  n <= occurrences'[<<TaskOf[d], Base[d]>>]
  <2>1. TaskOf[d] \in running /\ TaskOf[d] \in Tasks /\ Base[d] \in Bases /\ n \in Nat
    BY <1>2, <1>3, <1>9 DEF Bases
  <2>2. CASE TaskOf[d] = t /\ Base[d] = b
    BY <1>5, <1>6, <1>7, <1>9, <2>1, <2>2
  <2>3. CASE TaskOf[d] # t \/ Base[d] # b
    <3>1. Holds(d, n)
      BY <1>6, <1>9, <2>3
    <3> QED
      BY <1>5, <2>1, <2>3, <3>1 DEF KeyInv
  <2> QED
    BY <2>2, <2>3
<1>10. ASSUME NEW s \in running', NEW a \in Bases
       PROVE  occurrences'[<<s, a>>] = Cardinality(Sent(s, a)')
  <2>1. s \in running /\ s \in Tasks
    BY <1>2, <1>3, <1>10
  <2>2. CASE s = t /\ a = b
    <3>1. Cardinality(Sent(t, b) \cup {c}) = Cardinality(Sent(t, b)) + 1
      BY <1>1, <1>4, FS_AddElement
    <3> QED
      BY <1>1, <1>4, <1>5, <2>2, <3>1
  <2>3. CASE s # t \/ a # b
    BY <1>1, <1>5, <2>1, <2>3 DEF KeyInv
  <2> QED
    BY <2>2, <2>3
<1>11. /\ \A d, e \in children' : d.parent = e.parent /\ d.call_key = e.call_key => d = e
       /\ \A d \in children' : d.call_key[2] <= Cardinality(CallsTo(d.parent, d.call_key[1])')
  BY <1>2 DEF KeyInv, CallsTo
<1> QED
  BY <1>8, <1>9, <1>10, <1>11 DEF KeyInv

\* A child is created for a key no child has, of a call its task makes.
LEMMA KeyRequested ==
  ASSUME TypeInv, DeliveryInv, StepInv, CallInv, KeyInv, ServerReadRequest
  PROVE  KeyInv'
<1>1. /\ \A d \in Calls, n \in Nat : Holds(d, n)' => Holds(d, n)
      /\ \A t \in Tasks, b \in Bases : Sent(t, b)' = Sent(t, b)
      /\ UNCHANGED <<running, occurrences>>
  BY RequestCalls
<1>2. PICK c \in Calls, child \in Children :
         /\ TaskOf[c] \in running /\ children' = children \cup {child}
         /\ child.parent = TaskOf[c] /\ child.call_key[1] = Base[c] /\ Holds(c, child.call_key[2])
         /\ child \notin children =>
               \A d \in children : ~(d.parent = child.parent /\ d.call_key = child.call_key)
  BY RequestCalls
<1>3. running \subseteq Tasks /\ Cardinality(Calls) \in Nat
  BY ProgramAssumption, FS_CardinalityType DEF TypeInv, TypeOK
<1>4. child.call_key[2] \in 1 .. Cardinality(Calls)
  BY DEF Children, CallKeys
<1>5. child.call_key[2] <= Cardinality(CallsTo(child.parent, child.call_key[1]))
  <2>1. child.call_key[2] <= occurrences[<<TaskOf[c], Base[c]>>]
    BY <1>2, <1>4 DEF KeyInv
  <2>2. /\ occurrences[<<TaskOf[c], Base[c]>>] = Cardinality(Sent(TaskOf[c], Base[c]))
        /\ occurrences[<<TaskOf[c], Base[c]>>] <= Cardinality(CallsTo(TaskOf[c], Base[c]))
        /\ IsFiniteSet(Sent(TaskOf[c], Base[c])) /\ IsFiniteSet(CallsTo(TaskOf[c], Base[c]))
    BY <1>2, SentIsBounded
  <2>3. occurrences[<<TaskOf[c], Base[c]>>] \in Nat /\ Cardinality(CallsTo(TaskOf[c], Base[c])) \in Nat
    BY <2>2, FS_CardinalityType
  <2> QED
    BY <1>2, <1>4, <2>1, <2>2, <2>3
<1>6. /\ \A d, e \in children' : d.parent = e.parent /\ d.call_key = e.call_key => d = e
      /\ \A d \in children' : d.call_key[2] <= Cardinality(CallsTo(d.parent, d.call_key[1])')
  BY <1>2, <1>5 DEF KeyInv, CallsTo
<1>7. \A d, e \in Calls : TaskOf[d] = TaskOf[e] /\ Base[d] = Base[e] =>
          \A n \in 1 .. Cardinality(Calls) : Holds(d, n)' /\ Holds(e, n)' => d = e
  BY <1>1, <1>3 DEF KeyInv
<1>8. \A d \in Calls : TaskOf[d] \in running' => \A n \in 1 .. Cardinality(Calls) :
          Holds(d, n)' => n <= occurrences'[<<TaskOf[d], Base[d]>>]
  BY <1>1, <1>3 DEF KeyInv
<1>9. \A t \in running', b \in Bases : occurrences'[<<t, b>>] = Cardinality(Sent(t, b)')
  BY <1>1, <1>3 DEF KeyInv
<1> QED
  BY <1>6, <1>7, <1>8, <1>9 DEF KeyInv

\* A resumed workflow has made no call yet.
LEMMA KeyResumed ==
  ASSUME TypeInv, DeliveryInv, CallInv, KeyInv, AssignInv, HandleAssign
  PROVE  KeyInv'
<1> DEFINE m == Head(inbox)
<1>1. m.task \in Tasks /\ Fresh(m.task) /\ children' = children /\ occurrences' = occurrences
  BY Resumed DEF HandleAssign
<1>2. /\ \A c \in Calls, n \in Nat : Holds(c, n)' => Holds(c, n)
      /\ \A t \in Tasks, b \in Bases : Sent(t, b)' = Sent(t, b)
  BY QuietSteps, QuietCalls
<1>3. running \subseteq Tasks /\ Cardinality(Calls) \in Nat
  BY ProgramAssumption, FS_CardinalityType DEF TypeInv, TypeOK
<1>4. running' = running \/ running' = running \cup {m.task}
  BY DEF HandleAssign
<1> HIDE DEF m
<1>5. CASE running' = running
  BY <1>1, <1>2, <1>3, <1>5, KeySame
<1>6. CASE running' = running \cup {m.task}
  <2>1. \A c \in Calls : TaskOf[c] = m.task => calls[c] = NoCall /\ \A n \in Nat : ~Holds(c, n)
    BY <1>1, IdleHoldsNothing DEF Fresh
  <2>2. ASSUME NEW c \in Calls, TaskOf[c] \in running', NEW n \in 1 .. Cardinality(Calls), Holds(c, n)'
        PROVE  n <= occurrences'[<<TaskOf[c], Base[c]>>]
    <3>1. n \in Nat /\ Holds(c, n)
      BY <1>2, <1>3, <2>2
    <3>2. TaskOf[c] \in running
      BY <1>6, <2>1, <2>2, <3>1
    <3> QED
      BY <1>1, <3>1, <3>2 DEF KeyInv
  <2>3. ASSUME NEW t \in running', NEW b \in Bases
        PROVE  occurrences'[<<t, b>>] = Cardinality(Sent(t, b)')
    <3>1. CASE t = m.task
      <4>1. Sent(t, b) = {}
        BY <2>1, <3>1 DEF Sent, CallsTo, NoCall
      <4>2. occurrences[<<t, b>>] = 0
        BY <1>1, <3>1 DEF Fresh
      <4> QED
        BY <1>1, <1>2, <3>1, <4>1, <4>2, FS_EmptySet
    <3>2. CASE t # m.task
      BY <1>1, <1>2, <1>3, <1>6, <2>3, <3>2 DEF KeyInv
    <3> QED
      BY <3>1, <3>2
  <2>4. \A d, e \in Calls : TaskOf[d] = TaskOf[e] /\ Base[d] = Base[e] =>
          \A n \in 1 .. Cardinality(Calls) : Holds(d, n)' /\ Holds(e, n)' => d = e
    BY <1>2, <1>3 DEF KeyInv
  <2>5. /\ \A d, e \in children' : d.parent = e.parent /\ d.call_key = e.call_key => d = e
        /\ \A d \in children' : d.call_key[2] <= Cardinality(CallsTo(d.parent, d.call_key[1])')
    BY <1>1 DEF KeyInv, CallsTo
  <2> QED
    BY <2>2, <2>3, <2>4, <2>5 DEF KeyInv
<1> QED
  BY <1>4, <1>5, <1>6

LEMMA KeyStep ==
  ASSUME TypeInv, DeliveryInv, StepInv, CallInv, KeyInv, AssignInv, Next
  PROVE  KeyInv'
<1>0. running \subseteq Tasks
  BY DEF TypeInv, TypeOK
<1>1. ASSUME Quiet, running' \subseteq running, occurrences' = occurrences PROVE KeyInv'
  BY <1>0, <1>1, QuietCalls, KeySame DEF Quiet
<1>2. CASE Start \/ HandleAck \/ ServerReadFrame
  <2>1. UNCHANGED <<running, occurrences>>
    BY <1>2 DEF Start, HandleAck, ServerReadFrame, workflow
  <2> QED
    BY <1>1, <1>2, <2>1, QuietSteps
<1>3. ASSUME NEW t \in Tasks, ServerAssign(t) PROVE KeyInv'
  <2>1. UNCHANGED <<running, occurrences>>
    BY <1>3 DEF ServerAssign, workflow
  <2> QED
    BY <1>1, <1>3, <2>1, QuietSteps
<1>4. ASSUME NEW e \in Effects, TakeEffect(e) PROVE KeyInv'
  <2>1. UNCHANGED <<running, occurrences>>
    BY <1>4 DEF TakeEffect
  <2> QED
    BY <1>1, <1>4, <2>1, QuietSteps
<1>5. ASSUME NEW p \in Reports, Report(p) PROVE KeyInv'
  <2>1. UNCHANGED <<running, occurrences>>
    BY <1>5 DEF Report
  <2> QED
    BY <1>1, <1>5, <2>1, QuietSteps
<1>6. ASSUME NEW t \in Tasks, End(t) PROVE KeyInv'
  <2>1. running' = running \ {t} /\ Quiet
        /\ occurrences' = [o \in Tasks \X Bases |-> IF o[1] = t THEN 0 ELSE occurrences[o]]
    BY <1>6, QuietSteps DEF End, TaskEnded
  <2>2. \A s \in running', b \in Bases : occurrences'[<<s, b>>] = occurrences[<<s, b>>]
    BY <1>0, <2>1
  <2> QED
    BY <1>0, <2>1, <2>2, QuietCalls, KeySame DEF Quiet
<1>7. CASE Crash
  <2>1. /\ \A c \in Calls : calls'[c].child = {}
        /\ running' = {} /\ line' = <<>> /\ inbox' = <<>> /\ children' = children
    BY <1>7 DEF Crash, NoCall, server
  <2>2. \A c \in Calls, n \in Nat : ~Holds(c, n)'
    BY <2>1 DEF Holds
  <2>3. Cardinality(Calls) \in Nat
    BY ProgramAssumption, FS_CardinalityType
  <2> QED
    BY <2>1, <2>2, <2>3 DEF KeyInv, CallsTo
<1>8. CASE HandleResponse
  <2>1. UNCHANGED <<running, occurrences, children>>
    BY <1>8 DEF HandleResponse, server
  <2> QED
    BY <1>0, <1>8, <2>1, ResponseCalls, KeySame
<1>9. ASSUME NEW c \in Calls, ReserveStep(c) PROVE KeyInv'
  <2>1. UNCHANGED <<running, occurrences, children>>
    BY <1>9 DEF ReserveStep, server
  <2> QED
    BY <1>0, <1>9, <2>1, ReserveCalls, KeySame
<1> QED
  BY <1>2, <1>3, <1>4, <1>5, <1>6, <1>7, <1>8, <1>9, KeySent, KeyRequested, KeyResumed
  DEF Next, Handle, Server, Work



-----------------------------------------------------------------------------
(* The end of a workflow.                                                  *)

LEMMA EndSame ==
  ASSUME EndInv, OnRecord' = OnRecord, running' \subseteq running
  PROVE  EndInv'
BY DEF EndInv, NothingAfterTheEnd, SentBefore

\* What a workflow emits is behind all on record; and it is none that has ended.
LEMMA EndEmits ==
  ASSUME TypeInv, DeliveryInv, EndInv, NEW t \in Tasks, NEW what \in What, Emits(t, what),
         running' \subseteq running, what.kind = "END" => t \notin running'
  PROVE  EndInv'
<1> DEFINE x == New(t, what)
<1>1. /\ OnRecord' = OnRecord \cup {x} /\ x.task = t /\ x.what = what
      /\ \A g \in OnRecord : SentBefore(g, x)
  BY Emitted DEF Emits
<1> HIDE DEF x
<1>2. /\ \A f, g \in OnRecord : f.task = g.task /\ f.what.kind = "END" => f = g \/ SentBefore(g, f)
      /\ \A f \in OnRecord : f.what.kind = "END" => f.task \notin running
  BY DEF EndInv, NothingAfterTheEnd
<1>3. \A f \in OnRecord : f.what.kind = "END" => f.task # x.task
  BY <1>1, <1>2 DEF Emits
<1>4. \A f, g \in OnRecord' : f.task = g.task /\ f.what.kind = "END" => f = g \/ SentBefore(g, f)
  BY <1>1, <1>2, <1>3
<1>5. \A f \in OnRecord' : f.what.kind = "END" => f.task \notin running'
  BY <1>1, <1>2
<1> QED
  BY <1>4, <1>5 DEF EndInv, NothingAfterTheEnd, SentBefore

LEMMA EndStep ==
  ASSUME TypeInv, DeliveryInv, AssignInv, EndInv, Next
  PROVE  EndInv'
<1>1. CASE Start \/ Crash
  <2>1. OnRecord' = OnRecord /\ running' \subseteq running
    BY <1>1 DEF Start, Crash, server, workflow, OnRecord
  <2> QED
    BY <2>1, EndSame
<1>2. CASE HandleAssign
  <2> DEFINE m == Head(inbox)
  <2>1. /\ OnRecord' = OnRecord
        /\ \A f \in OnRecord : f.task = m.task => Knows(m, f) \/ f \in retained
    BY <1>2, Resumed
  <2>2. \/ running' = running
        \/ RetainedEnd(m.task) = {} /\ running' = running \cup {m.task}
    BY <1>2 DEF HandleAssign
  <2> HIDE DEF m
  <2>3. CASE running' = running
    BY <2>1, <2>3, EndSame
  <2>4. CASE RetainedEnd(m.task) = {} /\ running' = running \cup {m.task}
    <3>1. \A f \in OnRecord : f.what.kind = "END" => f.task # m.task
      BY <2>1, <2>4 DEF Knows, RetainedEnd
    <3> QED
      BY <2>1, <2>4, <3>1 DEF EndInv, NothingAfterTheEnd, SentBefore
  <2> QED
    BY <2>2, <2>3, <2>4
<1>3. CASE HandleAck
  <2>1. running' = running
    BY <1>3 DEF HandleAck, workflow
  <2> QED
    BY <1>3, <2>1, AckKeepsRecord, EndSame
<1>4. CASE HandleResponse
  <2>1. OnRecord' = OnRecord /\ running' = running
    BY <1>4 DEF HandleResponse, server, OnRecord
  <2> QED
    BY <2>1, EndSame
<1>5. CASE ServerReadFrame
  <2>1. running' = running
    BY <1>5 DEF ServerReadFrame, workflow
  <2> QED
    BY <1>5, <2>1, ReadKeepsRecord, EndSame
<1>6. CASE ServerReadRequest \/ \E t \in Tasks : ServerAssign(t)
  <2>1. OnRecord' = OnRecord /\ running' = running
    BY <1>6 DEF ServerReadRequest, ServerAssign, workflow, OnRecord
  <2> QED
    BY <2>1, EndSame
<1>7. ASSUME NEW c \in Calls, ReserveStep(c) \/ SendCall(c) PROVE EndInv'
  <2>1. OnRecord' = OnRecord /\ running' = running
    BY <1>7 DEF ReserveStep, SendCall, server, OnRecord
  <2> QED
    BY <2>1, EndSame
<1>8. ASSUME NEW e \in Effects, TakeEffect(e) PROVE EndInv'
  <2>1. CASE Replays(e)
    <3>1. OnRecord' = OnRecord /\ running' = running
      BY <2>1 DEF Replays, server, OnRecord
    <3> QED
      BY <3>1, EndSame
  <2>2. EffectOf(e).kind # "END"
    BY DEF EffectOf
  <2> QED
    BY <1>8, <2>1, <2>2, WorkEmits, EndEmits
<1>9. ASSUME NEW p \in Reports, Report(p) PROVE EndInv'
  <2>1. [kind |-> "REPORT"].kind # "END"
    OBVIOUS
  <2> QED
    BY <1>9, <2>1, WorkEmits, EndEmits
<1>10. ASSUME NEW t \in Tasks, End(t) PROVE EndInv'
  <2>1. t \notin running' /\ running' \subseteq running
    BY <1>10 DEF End
  <2> QED
    BY <1>10, <2>1, WorkEmits, EndEmits
<1> QED
  BY <1>1, <1>2, <1>3, <1>4, <1>5, <1>6, <1>7, <1>8, <1>9, <1>10 DEF Next, Handle, Server, Work


-----------------------------------------------------------------------------
(* Assigns.                                                                *)

\* Nothing is done but by workflows in S.
Touches(S) ==
    /\ \A t \in Tasks \ S : t \in running' => t \in running
    /\ \A p \in Points : p \in done' => p \in done \/ TaskOf[p] \in S
    /\ \A c \in Calls : calls'[c] = calls[c] \/ TaskOf[c] \in S
    /\ \A t \in Tasks \ S, b \in Bases : occurrences'[<<t, b>>] = occurrences[<<t, b>>]
    /\ \A f \in OnRecord' : f \in OnRecord \/ f.task \in S
    /\ \A c \in children' : c \in children \/ c.parent \in S

\* An Assign for none of them, k places behind.
Behind(i, k, S) ==
    /\ i \in Nat \ {0} /\ i + k \in DOMAIN inbox /\ inbox'[i] = inbox[i + k]
    /\ inbox'[i].task \notin S
    /\ \A j \in 1 .. i - 1 : inbox'[j].type = "JOURNAL_ACK" => inbox'[j] = inbox[j + k]

Keeps(k) == \A f \in retained :
    f \in retained' \/ (k = 1 /\ inbox[1].type = "JOURNAL_ACK" /\ Covers(inbox[1], f))

LEMMA FreshSame ==
  ASSUME NEW S \in SUBSET Tasks, Touches(S), NEW t \in Tasks \ S, Fresh(t)
  PROVE  Fresh(t)'
BY DEF Touches, Fresh, Points

LEMMA CarriedSame ==
  ASSUME TypeInv, NEW S \in SUBSET Tasks, NEW k \in {0, 1}, Touches(S), Keeps(k),
         UNCHANGED run, \A t \in Tasks \ S : assigned'[t] = assigned[t],
         OnRecord \subseteq OnRecord',
         NEW i \in DOMAIN inbox', Behind(i, k, S), Carried(i + k), inbox[i + k] \in Assigns
  PROVE  Carried(i)'
<1>0. PICK m \in Assigns : m = inbox[i + k]
  OBVIOUS
<1>1. inbox'[i] = m /\ m.task \in Tasks \ S
  BY <1>0 DEF Behind, Assigns
<1>2. /\ assigned[m.task] = run /\ Fresh(m.task)
      /\ \A f \in OnRecord : f.task = m.task => Knows(m, f) \/ (f \in retained
            /\ \A j \in 1 .. (i + k) - 1 : inbox[j].type = "JOURNAL_ACK" => ~Covers(inbox[j], f))
      /\ \A c \in children : c.parent = m.task => c.parent_step <= m.last_step
      /\ \A e \in Effects : m.effects[e] # 0 =>
            \E f \in OnRecord : IsEffect(f, e) /\ f.what.value = m.effects[e]
  BY <1>0 DEF Carried
<1>3. assigned'[m.task] = run' /\ Fresh(m.task)'
  <2>1. Fresh(m.task)'
    BY <1>1, <1>2, FreshSame
  <2> QED
    BY <1>1, <1>2, <2>1
<1>4. ASSUME NEW f \in OnRecord', f.task = m.task
      PROVE  Knows(m, f) \/ (f \in retained'
                /\ \A j \in 1 .. i - 1 : inbox'[j].type = "JOURNAL_ACK" => ~Covers(inbox'[j], f))
  <2>1. f \in OnRecord
    BY <1>1, <1>4 DEF Touches
  <2>2. k = 0 \/ 1 \in 1 .. (i + k) - 1
    BY DEF Behind
  <2>3. ASSUME ~Knows(m, f)
        PROVE  f \in retained'
               /\ \A j \in 1 .. i - 1 : inbox'[j].type = "JOURNAL_ACK" => ~Covers(inbox'[j], f)
    <3>1. /\ f \in retained
          /\ \A j \in 1 .. (i + k) - 1 : inbox[j].type = "JOURNAL_ACK" => ~Covers(inbox[j], f)
      BY <1>2, <1>4, <2>1, <2>3
    <3>2. f \in retained'
      BY <2>2, <3>1 DEF Keeps
    <3>3. \A j \in 1 .. i - 1 : j + k \in 1 .. (i + k) - 1
      BY DEF Behind
    <3>4. \A j \in 1 .. i - 1 : inbox'[j].type = "JOURNAL_ACK" => ~Covers(inbox'[j], f)
      BY <3>1, <3>3 DEF Behind
    <3> QED
      BY <3>2, <3>4
  <2> QED
    BY <2>3
<1>5. \A c \in children' : c.parent = m.task => c.parent_step <= m.last_step
  BY <1>1, <1>2 DEF Touches
<1>6. \A e \in Effects : m.effects[e] # 0 =>
         \E f \in OnRecord' : IsEffect(f, e) /\ f.what.value = m.effects[e]
  BY <1>2
<1> QED
  BY <1>1, <1>3, <1>4, <1>5, <1>6 DEF Carried, Knows, Covers, IsEffect

\* Who runs has its Assign from this run.
LEMMA RunningIsAssigned ==
  ASSUME AssignInv, TypeInv, NEW t \in Tasks, t \in running
  PROVE  alive /\ assigned[t] = run
<1>1. assigned[t] <= run /\ ~(assigned[t] < run) /\ alive
  BY DEF AssignInv, Fresh
<1>2. assigned[t] \in Int /\ run \in Int
  BY RunAssumption DEF TypeInv, TypeOK
<1> QED
  BY <1>1, <1>2

LEMMA AssignSame ==
  ASSUME TypeInv, AssignInv, NEW S \in SUBSET Tasks, NEW k \in {0, 1}, Touches(S), Keeps(k),
         UNCHANGED <<alive, run, assigned>>, \A t \in S : alive /\ assigned[t] = run,
         OnRecord \subseteq OnRecord',
         \A i \in DOMAIN inbox' : inbox'[i].type = "ASSIGN" => Behind(i, k, S)
  PROVE  AssignInv'
<1>1. ASSUME NEW t \in Tasks
      PROVE  assigned'[t] <= run' /\ (assigned'[t] < run' \/ ~alive' => Fresh(t)')
  <2>1. assigned[t] <= run /\ (assigned[t] < run \/ ~alive => Fresh(t))
    BY DEF AssignInv
  <2>2. CASE t \in S
    <3>1. run \in Nat
      BY RunAssumption DEF TypeInv, TypeOK
    <3> QED
      BY <2>2, <3>1
  <2>3. CASE t \notin S
    BY <2>1, <2>3, FreshSame
  <2> QED
    BY <2>2, <2>3
<1>2. ASSUME NEW i \in DOMAIN inbox', inbox'[i].type = "ASSIGN"
      PROVE  Carried(i)'
  <2>1. Behind(i, k, S) /\ i + k \in DOMAIN inbox /\ inbox'[i] = inbox[i + k]
    BY <1>2 DEF Behind
  <2>2. inbox[i + k] \in Acks \cup Assigns \cup Responses
    BY <2>1 DEF TypeInv
  <2>3. inbox[i + k] \in Assigns
    BY <1>2, <2>1, <2>2, Kinds
  <2>4. Carried(i + k)
    BY <1>2, <2>1 DEF AssignInv
  <2> QED
    BY <2>1, <2>3, <2>4, CarriedSame
<1>3. ASSUME NEW i \in DOMAIN inbox', NEW j \in DOMAIN inbox',
             inbox'[i].type = "ASSIGN", inbox'[j].type = "ASSIGN", inbox'[j].task = inbox'[i].task
      PROVE  i = j
  <2>1. Behind(i, k, S) /\ Behind(j, k, S)
    BY <1>3
  <2>2. /\ i + k \in DOMAIN inbox /\ inbox'[i] = inbox[i + k] /\ i \in Nat
        /\ j + k \in DOMAIN inbox /\ inbox'[j] = inbox[j + k] /\ j \in Nat
    BY <2>1 DEF Behind
  <2>3. i + k = j + k
    BY <1>3, <2>2 DEF AssignInv
  <2> QED
    BY <2>2, <2>3
<1> QED
  BY <1>1, <1>2, <1>3 DEF AssignInv


\* An Assign carries all the server has, and what it lacks the agent retained.
LEMMA AssignSent ==
  ASSUME TypeInv, DeliveryInv, ValueInv, AssignInv, NEW t \in Tasks, ServerAssign(t)
  PROVE  AssignInv'
<1>0. PICK m : m = [type |-> "ASSIGN", task |-> t,
                    effects |-> [e \in Effects |-> IF TaskOf[e] = t THEN ValueAt(e) ELSE 0],
                    last_step |-> Max({0} \cup StepsAt(t))]
  OBVIOUS
<1>1. /\ inbox' = Append(inbox, m) /\ alive /\ ~EndedAt(t) /\ assigned[t] < run
      /\ assigned' = [assigned EXCEPT ![t] = run]
      /\ UNCHANGED <<process, workflow, journal, line, projected, children>>
  BY <1>0 DEF ServerAssign
<1>2. /\ UNCHANGED <<alive, run, retained, running, done, calls, occurrences, children, projected>>
      /\ OnRecord' = OnRecord
  BY <1>1 DEF process, workflow, OnRecord
<1>3. assigned \in [Tasks -> 0 .. MaxRun] /\ run \in Nat
  BY RunAssumption DEF TypeInv, TypeOK
<1>4. assigned'[t] = run /\ \A s \in Tasks \ {t} : assigned'[s] = assigned[s]
  BY <1>1, <1>3
<1> DEFINE S == Acks \cup Assigns \cup Responses
<1>5. inbox \in Seq(S)
  BY DEF TypeInv
<1> HIDE DEF S
<1>6. \A i \in DOMAIN inbox' :
         \/ i \in DOMAIN inbox /\ inbox'[i] = inbox[i] /\ i \in Nat \ {0}
            /\ \A j \in 1 .. i - 1 : j \in DOMAIN inbox /\ inbox'[j] = inbox[j]
         \/ i = Len(inbox) + 1 /\ inbox'[i] = m
            /\ \A j \in 1 .. i - 1 : j \in DOMAIN inbox /\ inbox'[j] = inbox[j]
  BY <1>1, <1>5
<1>7. Touches({t}) /\ Keeps(0)
  BY <1>2 DEF Touches, Keeps
<1>8. Fresh(t)'
  <2>1. Fresh(t)
    BY <1>1 DEF AssignInv
  <2> QED
    BY <1>2, <2>1 DEF Fresh
<1>9. ASSUME NEW s \in Tasks
      PROVE  assigned'[s] <= run' /\ (assigned'[s] < run' \/ ~alive' => Fresh(s)')
  <2>1. CASE s = t
    BY <1>2, <1>3, <1>4, <1>8, <2>1
  <2>2. CASE s # t
    <3>1. assigned[s] <= run /\ (assigned[s] < run \/ ~alive => Fresh(s))
      BY DEF AssignInv
    <3>2. Fresh(s) => Fresh(s)'
      BY <1>2 DEF Fresh
    <3> QED
      BY <1>2, <1>4, <2>2, <3>1, <3>2
  <2> QED
    BY <2>1, <2>2
<1>10. \A i \in DOMAIN inbox : inbox[i].type = "ASSIGN" =>
          inbox[i] \in Assigns /\ inbox[i].task # t /\ Carried(i)
  <2> SUFFICES ASSUME NEW i \in DOMAIN inbox, inbox[i].type = "ASSIGN"
               PROVE  inbox[i] \in Assigns /\ inbox[i].task # t /\ Carried(i)
    OBVIOUS
  <2>1. inbox[i] \in Assigns
    BY <1>5, Kinds DEF S
  <2>2. Carried(i)
    BY DEF AssignInv
  <2>3. assigned[inbox[i].task] = run
    BY <2>2 DEF Carried
  <2> QED
    BY <1>1, <1>3, <2>1, <2>2, <2>3
<1>11. ASSUME NEW i \in DOMAIN inbox', i \in DOMAIN inbox, inbox[i].type = "ASSIGN",
              inbox'[i] = inbox[i], i \in Nat \ {0},
              \A j \in 1 .. i - 1 : j \in DOMAIN inbox /\ inbox'[j] = inbox[j]
       PROVE  Carried(i)'
  <2>1. Behind(i, 0, {t})
    BY <1>10, <1>11 DEF Behind
  <2>2. Carried(i + 0) /\ inbox[i + 0] \in Assigns
    BY <1>10, <1>11
  <2> QED
    BY <1>2, <1>4, <1>7, <2>1, <2>2, CarriedSame
<1>12. ASSUME NEW i \in DOMAIN inbox', inbox'[i] = m,
              \A j \in 1 .. i - 1 : j \in DOMAIN inbox /\ inbox'[j] = inbox[j]
       PROVE  Carried(i)'
  <2>1. m.task = t /\ m.last_step = Max({0} \cup StepsAt(t))
        /\ m.effects = [e \in Effects |-> IF TaskOf[e] = t THEN ValueAt(e) ELSE 0]
    BY <1>0
  <2>2. ASSUME NEW f \in OnRecord, f.task = t
        PROVE  Knows(m, f) \/ (f \in retained'
                  /\ \A j \in 1 .. i - 1 : inbox'[j].type = "JOURNAL_ACK" => ~Covers(inbox'[j], f))
    <3>1. CASE f \in projected
      <4>1. f.step <= m.last_step
        BY <2>1, <2>2, <3>1, StepsAtIs
      <4>2. f.what.kind # "END"
        BY <1>1, <2>2, <3>1 DEF EndedAt
      <4>3. ASSUME f.what.kind = "EFFECT" PROVE m.effects[f.what.key] # 0
        <5>1. f.what.key \in Effects /\ TaskOf[f.what.key] = t
          BY <2>2, <4>3, FramesOnRecord, EffectHasValue DEF ValueInv
        <5>2. ValueAt(f.what.key) # 0
          BY <3>1, <4>3, <5>1, ValueAtIs DEF IsEffect
        <5> QED
          BY <2>1, <5>1, <5>2
      <4> QED
        BY <4>1, <4>2, <4>3 DEF Knows
    <3>2. CASE f \notin projected
      <4>1. f \in retained'
        BY <1>1, <1>2, <3>2 DEF DeliveryInv, ProcessInv, OnRecord
      <4>2. \A j \in DOMAIN inbox : inbox[j].type = "JOURNAL_ACK" => ~Covers(inbox[j], f)
        BY <3>2 DEF DeliveryInv, AckInv
      <4> QED
        BY <1>12, <4>1, <4>2
    <3> QED
      BY <3>1, <3>2
  <2>3. \A c \in children : c.parent = t => c.parent_step <= m.last_step
    BY <2>1, StepsAtIs
  <2>4. ASSUME NEW e \in Effects, m.effects[e] # 0
        PROVE  \E f \in OnRecord : IsEffect(f, e) /\ f.what.value = m.effects[e]
    <3>1. m.effects[e] = ValueAt(e) /\ ValueAt(e) # 0
      BY <2>1, <2>4
    <3> QED
      BY <3>1, ValueAtIs DEF OnRecord
  <2> QED
    BY <1>2, <1>4, <1>8, <1>12, <2>1, <2>2, <2>3, <2>4 DEF Carried, Knows, Covers, IsEffect
<1>13. \A i \in DOMAIN inbox' : inbox'[i].type = "ASSIGN" => Carried(i)'
  BY <1>6, <1>11, <1>12
<1>14. \A i, j \in DOMAIN inbox' :
          inbox'[i].type = "ASSIGN" /\ inbox'[j].type = "ASSIGN" /\ inbox'[j].task = inbox'[i].task => i = j
  <2>1. m.task = t
    BY <1>0
  <2>2. \A i \in DOMAIN inbox' : inbox'[i].type = "ASSIGN" =>
           \/ i \in DOMAIN inbox /\ inbox'[i] = inbox[i] /\ inbox[i].type = "ASSIGN" /\ inbox'[i].task # t
           \/ i = Len(inbox) + 1 /\ inbox'[i].task = t
    BY <1>6, <1>10, <2>1
  <2> QED
    BY <2>2 DEF AssignInv
<1> QED
  BY <1>9, <1>13, <1>14 DEF AssignInv


LEMMA AssignStep ==
  ASSUME TypeInv, DeliveryInv, ValueInv, StepInv, CallInv, AssignInv, Next
  PROVE  AssignInv'
<1> DEFINE S == Acks \cup Assigns \cup Responses
<1>1. inbox \in Seq(S)
  BY DEF TypeInv
<1> HIDE DEF S
<1>2. /\ \A i \in DOMAIN inbox : i \in Nat \ {0} /\ i + 0 = i
      /\ \A i \in DOMAIN inbox : \A j \in 1 .. i - 1 : j \in DOMAIN inbox /\ j + 0 = j
      /\ 0 \in {0, 1} /\ 1 \in {0, 1} /\ {} \in SUBSET Tasks
  BY <1>1
<1>3. ASSUME retained' = retained PROVE Keeps(0) /\ Keeps(1)
  BY <1>3 DEF Keeps
<1>4. ASSUME NEW U \in SUBSET Tasks, inbox' = inbox,
             \A i \in DOMAIN inbox : inbox[i].type = "ASSIGN" => inbox[i].task \notin U
      PROVE  \A i \in DOMAIN inbox' : inbox'[i].type = "ASSIGN" => Behind(i, 0, U)
  BY <1>2, <1>4 DEF Behind
<1>5. ASSUME NEW U \in SUBSET Tasks, NEW m \in S, inbox' = Append(inbox, m), m.type # "ASSIGN",
             \A i \in DOMAIN inbox : inbox[i].type = "ASSIGN" => inbox[i].task \notin U
      PROVE  \A i \in DOMAIN inbox' : inbox'[i].type = "ASSIGN" => Behind(i, 0, U)
  <2>1. /\ \A i \in DOMAIN inbox : inbox'[i] = inbox[i]
        /\ \A i \in DOMAIN inbox' : i \in DOMAIN inbox \/ inbox'[i] = m
    BY <1>1, <1>5
  <2> QED
    BY <1>2, <1>5, <2>1 DEF Behind
<1>6. ASSUME NEW U \in SUBSET Tasks, inbox # <<>>, inbox' = Tail(inbox),
             \A i \in DOMAIN inbox : inbox[i].type = "ASSIGN" => inbox[i].task \notin U \/ i = 1
      PROVE  \A i \in DOMAIN inbox' : inbox'[i].type = "ASSIGN" => Behind(i, 1, U)
  <2>1. \A i \in DOMAIN inbox' : /\ i \in Nat \ {0} /\ i + 1 \in DOMAIN inbox /\ inbox'[i] = inbox[i + 1]
                                 /\ i + 1 # 1
    BY <1>1, <1>6
  <2>2. \A i \in DOMAIN inbox' : \A j \in 1 .. i - 1 : inbox'[j] = inbox[j + 1]
    BY <1>1, <1>6
  <2> QED
    BY <1>6, <2>1, <2>2 DEF Behind
\* What runs has no Assign on its way.
<1>7. ASSUME NEW t \in Tasks, t \in running
      PROVE  /\ \A i \in DOMAIN inbox : inbox[i].type = "ASSIGN" => inbox[i].task \notin {t}
             /\ alive /\ assigned[t] = run
  <2>1. \A i \in DOMAIN inbox : inbox[i].type = "ASSIGN" => Fresh(inbox[i].task)
    BY DEF AssignInv, Carried
  <2> QED
    BY <1>7, <2>1, RunningIsAssigned DEF Fresh
<1>8. CASE Start
  <2>1. /\ inbox' = <<>> /\ assigned' = assigned /\ run' = run + 1 /\ ~alive
        /\ UNCHANGED <<running, done, calls, occurrences>>
    BY <1>8 DEF Start, workflow, server, DeliveryInv, ProcessInv
  <2>2. \A t \in Tasks : Fresh(t)' /\ assigned'[t] <= run'
    <3>1. \A t \in Tasks : assigned[t] <= run /\ Fresh(t)
      BY <2>1 DEF AssignInv
    <3>2. \A t \in Tasks : assigned[t] \in Int /\ run \in Int
      BY RunAssumption DEF TypeInv, TypeOK
    <3> QED
      BY <2>1, <3>1, <3>2 DEF Fresh
  <2> QED
    BY <2>1, <2>2 DEF AssignInv
<1>9. CASE Crash
  <2>1. /\ inbox' = <<>> /\ assigned' = assigned /\ run' = run
        /\ running' = {} /\ done' = {} /\ calls' = [c \in Calls |-> NoCall]
        /\ occurrences' = [o \in Tasks \X Bases |-> 0]
    BY <1>9 DEF Crash, server
  <2>2. \A t \in Tasks : Fresh(t)'
    BY <2>1 DEF Fresh
  <2> QED
    BY <2>1, <2>2 DEF AssignInv
<1>10. CASE HandleAssign
  <2>0. PICK m : m = Head(inbox)
    OBVIOUS
  <2>1. /\ m.task \in Tasks /\ alive /\ assigned[m.task] = run /\ OnRecord' = OnRecord
        /\ children' = children
    BY <1>10, <2>0, Resumed
  <2>2. /\ inbox # <<>> /\ inbox' = Tail(inbox) /\ running' \subseteq running \cup {m.task}
        /\ UNCHANGED <<alive, run, retained, done, calls, occurrences, assigned>>
        /\ m.type = "ASSIGN"
    BY <1>10, <2>0 DEF HandleAssign, process, server
  <2>3. Touches({m.task})
    BY <2>1, <2>2 DEF Touches
  <2>4. \A i \in DOMAIN inbox : inbox[i].type = "ASSIGN" => inbox[i].task \notin {m.task} \/ i = 1
    BY <2>0, <2>2, Handled DEF AssignInv
  <2>5. {m.task} \in SUBSET Tasks
    BY <2>1
  <2>6. \A i \in DOMAIN inbox' : inbox'[i].type = "ASSIGN" => Behind(i, 1, {m.task})
    BY <1>6, <2>2, <2>4, <2>5
  <2> QED
    BY <1>2, <1>3, <2>1, <2>2, <2>3, <2>5, <2>6, AssignSame
<1>11. CASE HandleAck
  <2>1. /\ OnRecord' = OnRecord /\ retained' = {f \in retained : ~Covers(Head(inbox), f)}
        /\ inbox # <<>> /\ inbox' = Tail(inbox) /\ Head(inbox).type = "JOURNAL_ACK"
        /\ Head(inbox) = inbox[1]
    BY <1>11, AckKeepsRecord, Handled DEF HandleAck
  <2>2. UNCHANGED <<alive, run, running, done, calls, occurrences, assigned, children>>
    BY <1>11 DEF HandleAck, workflow, server
  <2>3. Touches({}) /\ Keeps(1)
    BY <2>1, <2>2 DEF Touches, Keeps
  <2>4. \A i \in DOMAIN inbox' : inbox'[i].type = "ASSIGN" => Behind(i, 1, {})
    BY <1>2, <1>6, <2>1
  <2> QED
    BY <1>2, <2>1, <2>2, <2>3, <2>4, AssignSame
<1>12. CASE HandleResponse
  <2>1. PICK c \in Calls : /\ TaskOf[c] \in running /\ done' = done \cup {c}
                           /\ \A d \in Calls : d # c => calls'[d] = calls[d]
    BY <1>12, ResponseCalls
  <2>2. TaskOf[c] \in Tasks
    BY ProgramAssumption DEF Points
  <2>3. /\ inbox # <<>> /\ inbox' = Tail(inbox) /\ OnRecord' = OnRecord
        /\ UNCHANGED <<alive, run, retained, running, occurrences, assigned, children>>
    BY <1>12 DEF HandleResponse, process, server, OnRecord
  <2>4. Touches({TaskOf[c]})
    BY <2>1, <2>3 DEF Touches
  <2>5. /\ \A i \in DOMAIN inbox : inbox[i].type = "ASSIGN" => inbox[i].task \notin {TaskOf[c]}
        /\ alive /\ assigned[TaskOf[c]] = run /\ {TaskOf[c]} \in SUBSET Tasks
    BY <1>7, <2>1, <2>2
  <2>6. \A i \in DOMAIN inbox' : inbox'[i].type = "ASSIGN" => Behind(i, 1, {TaskOf[c]})
    BY <1>6, <2>3, <2>5
  <2> QED
    BY <1>2, <1>3, <2>3, <2>4, <2>5, <2>6, AssignSame
<1>13. CASE ServerReadFrame
  <2>0. PICK m : m = [type |-> "JOURNAL_ACK", session |-> Head(line).session, pos |-> Head(line).pos]
    OBVIOUS
  <2>1. /\ OnRecord' = OnRecord /\ inbox' = Append(inbox, m) /\ line # <<>> /\ IsFrame(Head(line))
    BY <1>13, <2>0, ReadKeepsRecord DEF ServerReadFrame
  <2>2. m \in S /\ m.type # "ASSIGN"
    BY <2>0, <2>1, Read DEF S, Acks, Frames
  <2>3. UNCHANGED <<alive, run, retained, running, done, calls, occurrences, assigned, children>>
    BY <1>13 DEF ServerReadFrame, workflow, process
  <2>4. Touches({})
    BY <2>1, <2>3 DEF Touches
  <2>5. \A i \in DOMAIN inbox' : inbox'[i].type = "ASSIGN" => Behind(i, 0, {})
    BY <1>2, <1>5, <2>1, <2>2
  <2> QED
    BY <1>2, <1>3, <2>1, <2>3, <2>4, <2>5, AssignSame
<1>14. CASE ServerReadRequest
  <2>1. PICK c \in Calls, child \in Children :
           /\ TaskOf[c] \in running /\ child.parent = TaskOf[c] /\ children' = children \cup {child}
           /\ inbox' = Append(inbox, Response(c, child)) /\ Response(c, child) \in Responses
    BY <1>14, RequestRead
  <2>2. TaskOf[c] \in Tasks /\ Response(c, child) \in S /\ Response(c, child).type # "ASSIGN"
    BY <2>1, ProgramAssumption DEF Points, S, Response
  <2>3. /\ OnRecord' = OnRecord
        /\ UNCHANGED <<alive, run, retained, running, done, calls, occurrences, assigned>>
    BY <1>14 DEF ServerReadRequest, process, workflow, OnRecord
  <2>4. Touches({TaskOf[c]})
    BY <2>1, <2>3 DEF Touches
  <2>5. /\ \A i \in DOMAIN inbox : inbox[i].type = "ASSIGN" => inbox[i].task \notin {TaskOf[c]}
        /\ alive /\ assigned[TaskOf[c]] = run /\ {TaskOf[c]} \in SUBSET Tasks
    BY <1>7, <2>1, <2>2
  <2>6. \A i \in DOMAIN inbox' : inbox'[i].type = "ASSIGN" => Behind(i, 0, {TaskOf[c]})
    BY <1>5, <2>1, <2>2, <2>5
  <2> QED
    BY <1>2, <1>3, <2>3, <2>4, <2>5, <2>6, AssignSame
<1>15. ASSUME NEW c \in Calls, ReserveStep(c) \/ SendCall(c) PROVE AssignInv'
  <2>1. /\ TaskOf[c] \in Tasks /\ TaskOf[c] \in running
        /\ \A d \in Calls : d # c => calls'[d] = calls[d]
    BY <1>15, ReserveCalls, SendCalls
  <2>2. /\ OnRecord' = OnRecord /\ inbox' = inbox
        /\ UNCHANGED <<alive, run, retained, running, done, assigned, children>>
    BY <1>15 DEF ReserveStep, SendCall, process, server, OnRecord
  <2>3. occurrences \in [Tasks \X Bases -> 0 .. Cardinality(Calls)]
    BY DEF TypeInv, TypeOK
  <2>4. \A t \in Tasks \ {TaskOf[c]}, b \in Bases : occurrences'[<<t, b>>] = occurrences[<<t, b>>]
    BY <1>15, <2>3 DEF ReserveStep, SendCall
  <2>5. Touches({TaskOf[c]})
    BY <2>1, <2>2, <2>4 DEF Touches
  <2>6. /\ \A i \in DOMAIN inbox : inbox[i].type = "ASSIGN" => inbox[i].task \notin {TaskOf[c]}
        /\ alive /\ assigned[TaskOf[c]] = run /\ {TaskOf[c]} \in SUBSET Tasks
    BY <1>7, <2>1
  <2>7. \A i \in DOMAIN inbox' : inbox'[i].type = "ASSIGN" => Behind(i, 0, {TaskOf[c]})
    BY <1>4, <2>2, <2>6
  <2> QED
    BY <1>2, <1>3, <2>2, <2>5, <2>6, <2>7, AssignSame
<1>16. ASSUME NEW t \in Tasks, t \in running, OnRecord \subseteq OnRecord', inbox' = inbox, Keeps(0),
              Touches({t}), UNCHANGED <<alive, run, assigned>>
       PROVE  AssignInv'
  <2>1. /\ \A i \in DOMAIN inbox : inbox[i].type = "ASSIGN" => inbox[i].task \notin {t}
        /\ alive /\ assigned[t] = run /\ {t} \in SUBSET Tasks
    BY <1>7, <1>16
  <2>2. \A i \in DOMAIN inbox' : inbox'[i].type = "ASSIGN" => Behind(i, 0, {t})
    BY <1>4, <1>16, <2>1
  <2> QED
    BY <1>2, <1>16, <2>1, <2>2, AssignSame
<1>17. ASSUME NEW t \in Tasks, NEW what \in What, Emits(t, what), running' \subseteq running,
              \A p \in Points : p \in done' => p \in done \/ TaskOf[p] = t,
              \A s \in Tasks \ {t}, b \in Bases : occurrences'[<<s, b>>] = occurrences[<<s, b>>]
       PROVE  AssignInv'
  <2>1. /\ t \in running
        /\ UNCHANGED <<alive, run, children, calls, inbox, assigned>>
    BY <1>17 DEF Emits
  <2>2. /\ OnRecord' = OnRecord \cup {New(t, what)} /\ New(t, what).task = t
        /\ retained' = retained \cup {New(t, what)}
    BY <1>17, Emitted DEF Emits
  <2>3. Touches({t}) /\ Keeps(0) /\ OnRecord \subseteq OnRecord'
    BY <1>17, <2>1, <2>2 DEF Touches, Keeps
  <2> QED
    BY <1>16, <2>1, <2>3
<1>18. ASSUME NEW e \in Effects, TakeEffect(e) PROVE AssignInv'
  <2>1. TaskOf[e] \in Tasks /\ TaskOf[e] \in running /\ done' = done \cup {e} /\ occurrences' = occurrences
    BY <1>18, ProgramAssumption DEF TakeEffect, Ready, Points
  <2>2. CASE Replays(e)
    <3>1. /\ OnRecord' = OnRecord /\ retained' = retained
          /\ UNCHANGED <<alive, run, running, calls, inbox, assigned, children>>
      BY <2>2 DEF Replays, process, server, OnRecord
    <3>2. Touches({TaskOf[e]})
      BY <2>1, <3>1 DEF Touches
    <3> QED
      BY <1>3, <1>16, <2>1, <3>1, <3>2
  <2>3. CASE running' = running /\ EffectOf(e) \in What /\ Emits(TaskOf[e], EffectOf(e))
    BY <1>17, <2>1, <2>3
  <2> QED
    BY <1>18, <2>2, <2>3, WorkEmits
<1>19. ASSUME NEW p \in Reports, Report(p) PROVE AssignInv'
  <2>1. done' = done \cup {p} /\ occurrences' = occurrences
    BY <1>19 DEF Report
  <2>2. /\ running' = running /\ TaskOf[p] \in Tasks
        /\ [kind |-> "REPORT"] \in What /\ Emits(TaskOf[p], [kind |-> "REPORT"])
    BY <1>19, WorkEmits
  <2> QED
    BY <1>17, <2>1, <2>2
<1>20. ASSUME NEW t \in Tasks, End(t) PROVE AssignInv'
  <2>1. /\ done' = done /\ running' \subseteq running
        /\ \A s \in Tasks \ {t}, b \in Bases : occurrences'[<<s, b>>] = occurrences[<<s, b>>]
    BY <1>20 DEF End, TaskEnded
  <2>2. [kind |-> "END"] \in What /\ Emits(t, [kind |-> "END"])
    BY <1>20, WorkEmits
  <2> QED
    BY <1>17, <2>1, <2>2
<1> QED
  BY <1>8, <1>9, <1>10, <1>11, <1>12, <1>13, <1>14, <1>15, <1>18, <1>19, <1>20, AssignSent
  DEF Next, Handle, Server, Work


-----------------------------------------------------------------------------
(* The invariant holds.                                                    *)

LEMMA IInvInit == Init => IInv
<1> SUFFICES ASSUME Init PROVE IInv
  OBVIOUS
<1>1. /\ alive = FALSE /\ run = 0 /\ retained = {} /\ OnRecord = {} /\ journal = {}
      /\ children = {} /\ running = {} /\ done = {} /\ line = <<>> /\ inbox = <<>>
      /\ assigned = [t \in Tasks |-> 0] /\ given = [e \in Effects |-> 0]
      /\ calls = [c \in Calls |-> NoCall] /\ occurrences = [o \in Tasks \X Bases |-> 0]
  BY DEF Init, OnRecord
<1>2. \A c \in Calls : calls[c].stage = "idle" /\ calls[c].child = {}
  BY <1>1 DEF NoCall
<1>3. DeliveryInv
  BY <1>1 DEF DeliveryInv, NumberedOnce, LineInv, AckInv, ProcessInv
<1>4. ValueInv
  BY <1>1 DEF ValueInv
<1>5. StepInv
  BY <1>1, <1>2 DEF StepInv, Underway, Pending
<1>6. CallInv
  BY <1>1, <1>2 DEF CallInv, Underway
<1>7. KeyInv
  <2>1. \A c \in Calls, n \in 1 .. Cardinality(Calls) : ~Holds(c, n)
    BY <1>1, <1>2 DEF Holds
  <2> QED
    BY <1>1, <2>1 DEF KeyInv
<1>8. AssignInv
  <2>1. \A t \in Tasks : Fresh(t)
    BY <1>1 DEF Fresh
  <2> QED
    BY <1>1, <2>1 DEF AssignInv
<1>9. EndInv
  BY <1>1 DEF EndInv, NothingAfterTheEnd
<1> QED
  BY <1>3, <1>4, <1>5, <1>6, <1>7, <1>8, <1>9, TypeInit DEF IInv

LEMMA IInvNext ==
  ASSUME IInv, Next PROVE IInv'
<1>1. /\ TypeInv /\ DeliveryInv /\ ValueInv /\ StepInv /\ CallInv /\ KeyInv /\ AssignInv /\ EndInv
  BY DEF IInv
<1>2. TypeInv'
  BY <1>1, TypeStart, TypeCrash, TypeHandle, TypeServer, TypeWork DEF Next
<1> QED
  BY <1>1, <1>2, DeliveryStep, ValueStep, StepStep, CallStep, KeyStep, AssignStep, EndStep DEF IInv

LEMMA IInvStutter ==
  ASSUME IInv, UNCHANGED vars PROVE IInv'
<1>1. UNCHANGED <<alive, run, pos, retained, running, replay, step, done, given, calls, occurrences,
                  journal, line, inbox, projected, children, assigned>>
  BY DEF vars, process, workflow, server
<1>2. OnRecord' = OnRecord
  BY <1>1 DEF OnRecord
<1>3. TypeInv' /\ DeliveryInv'
  BY <1>1, <1>2 DEF IInv, TypeInv, TypeOK, DeliveryInv, NumberedOnce, LineInv, AckInv, ProcessInv
<1>4. ValueInv' /\ EndInv'
  BY <1>1, <1>2 DEF IInv, ValueInv, EndInv, NothingAfterTheEnd, SentBefore
<1>5. StepInv' /\ CallInv'
  BY <1>1, <1>2 DEF IInv, StepInv, Underway, Pending, CallInv
<1>6. KeyInv'
  BY <1>1 DEF IInv, KeyInv, Holds, Sent, CallsTo
<1>7. AssignInv'
  BY <1>1, <1>2 DEF IInv, AssignInv, Carried, Fresh, Knows, Covers, IsEffect
<1> QED
  BY <1>3, <1>4, <1>5, <1>6, <1>7 DEF IInv

\* The invariant of a process that runs workflows, dies and is started again, of the
\* frames in its file and of what the server has: every step of theirs keeps it.
THEOREM Inductive == Spec => []IInv
<1>1. IInv /\ [Next]_vars => IInv'
  BY IInvNext, IInvStutter
<1> QED
  BY IInvInit, <1>1, PTL DEF Spec

-----------------------------------------------------------------------------
(* What follows from it.                                                   *)

\* Every variable of the agent, its file and the server keeps its type; no call of a
\* target is counted more often than the code has calls (_derive_call_key).
THEOREM TypesHold == Spec => []TypeOK
<1>1. IInv => TypeOK
  BY DEF IInv, TypeInv
<1> QED
  BY Inductive, <1>1, PTL

\* Whatever dies between taking a value and the server's having it, every run acts on
\* the one value that is on record (_complete_resume, the retained frames).
THEOREM OneValueHolds == Spec => []OneValue
<1>1. IInv => OneValue
  <2> SUFFICES ASSUME IInv, NEW e \in Effects
               PROVE  Cardinality(ValuesOf(e) \cup ({given[e]} \ {0})) <= 1
    BY DEF OneValue
  <2> DEFINE S == ValuesOf(e) \cup ({given[e]} \ {0})
  <2>1. \A v \in S : \E f \in OnRecord : IsEffect(f, e) /\ f.what.value = v
    BY DEF ValuesOf, IsEffect, IInv, ValueInv
  <2>2. \A v, w \in S : v = w
    <3> HIDE DEF S
    <3> QED
      BY <2>1 DEF IInv, ValueInv
  <2> HIDE DEF S
  <2>3. CASE S = {}
    BY <2>3, FS_EmptySet DEF S
  <2>4. ASSUME NEW v \in S PROVE Cardinality(S) <= 1
    <3>1. S = {v}
      BY <2>2, <2>4
    <3>2. Cardinality({v}) = 1
      BY FS_Singleton
    <3> QED
      BY <3>1, <3>2
  <2> QED
    BY <2>3, <2>4 DEF S
<1> QED
  BY Inductive, <1>1, PTL

\* No step of a workflow is numbered twice, whichever process numbers it
\* ("so no step is numbered twice", _complete_resume).
THEOREM StepsOnceHolds == Spec => []StepsOnce
<1>1. IInv => StepsOnce
  BY DEF IInv, StepInv, StepsOnce
<1> QED
  BY Inductive, <1>1, PTL

\* A call is answered with a child of its own, of its workflow and its target, whatever
\* order concurrent calls took their steps in (_derive_call_key).
THEOREM CallsFindTheirOwnHolds == Spec => []CallsFindTheirOwn
<1>1. IInv => CallsFindTheirOwn
  <2> SUFFICES ASSUME IInv PROVE CallsFindTheirOwn
    OBVIOUS
  <2> DEFINE answered == {c \in Calls : calls[c].stage = "answered"}
  <2>1. \A c \in answered : \A child \in calls[c].child :
           child \in children /\ child.parent = TaskOf[c] /\ child.call_key[1] = Base[c]
    BY DEF IInv, CallInv
  <2>2. ASSUME NEW c \in answered, NEW d \in answered, calls[c].child = calls[d].child
        PROVE  c = d
    <3>1. calls[c].child # {}
      BY DEF IInv, CallInv
    <3>2. PICK child \in calls[c].child : TRUE
      BY <3>1
    <3>3. child \in calls[d].child
      BY <2>2
    <3>4. TaskOf[c] = TaskOf[d] /\ Base[c] = Base[d]
      BY <2>1, <3>2, <3>3
    <3>5. child.call_key[2] \in 1 .. Cardinality(Calls)
      BY <2>1, <3>2 DEF IInv, TypeInv, TypeOK, Children, CallKeys
    <3>6. Holds(c, child.call_key[2]) /\ Holds(d, child.call_key[2])
      BY <3>2, <3>3 DEF Holds
    <3> QED
      BY <3>4, <3>5, <3>6 DEF IInv, KeyInv
  <2> QED
    BY <2>1, <2>2 DEF CallsFindTheirOwn
<1> QED
  BY Inductive, <1>1, PTL

\* The report that ends a workflow is the last frame of it, also when its Assign comes
\* again before that report was acknowledged (_aresend_retained_report).
THEOREM NothingAfterTheEndHolds == Spec => []NothingAfterTheEnd
<1>1. IInv => NothingAfterTheEnd
  BY DEF IInv, EndInv
<1> QED
  BY Inductive, <1>1, PTL


-----------------------------------------------------------------------------
(* The agent and the server implement a durable workflow.                  *)

ValueOf(e) == Max({0} \cup ValuesOf(e))
ChildrenTo(t, b) == {c \in children : c.parent = t /\ c.call_key[1] = b}
Ended == {t \in Tasks : \E f \in OnRecord : f.task = t /\ f.what.kind = "END"}

\* The two modules mean the same by their words.
LEMMA DurableWords ==
  /\ Durable!Bases = Bases /\ \A t, b : Durable!CallsTo(t, b) = CallsTo(t, b)
  /\ \A S : Durable!Cardinality(S) = Cardinality(S)
BY DEF Durable!Bases, Bases, Durable!CallsTo, CallsTo, Durable!Cardinality, Cardinality

\* Of one value, or none, the greatest.
LEMMA MaxOfOne ==
  ASSUME NEW S \in SUBSET Runs, \A v, w \in S : v = w
  PROVE  /\ S = {} => Max({0} \cup S) = 0
         /\ \A v \in S : Max({0} \cup S) = v /\ v # 0
<1> DEFINE T == {0} \cup S
<1>1. S \in SUBSET (Nat \ {0})
  BY RunAssumption DEF Runs
<1>2. IsFiniteSet(S)
  <2>1. CASE S = {}
    BY <2>1, FS_EmptySet
  <2>2. ASSUME NEW v \in S PROVE IsFiniteSet(S)
    <3>1. S = {v}
      OBVIOUS
    <3> QED
      BY <3>1, FS_Singleton
  <2> QED
    BY <2>1, <2>2
<1>3. T \in SUBSET Nat /\ IsFiniteSet(T) /\ T # {}
  <2>1. IsFiniteSet({0})
    BY FS_Singleton
  <2>2. IsFiniteSet(T)
    BY <1>2, <2>1, FS_Union
  <2> QED
    BY <1>1, <2>2
<1>5. Max(T) \in T /\ \A y \in T : y <= Max(T)
  <2> HIDE DEF T
  <2> QED
    BY <1>3, MaxIsMax
<1>6. CASE S = {}
  BY <1>5, <1>6
<1>7. ASSUME NEW v \in S PROVE Max(T) = v /\ v # 0
  <2>1. v \in Nat /\ v # 0 /\ v \in T
    BY <1>1, <1>7
  <2>2. Max(T) = 0 \/ Max(T) = v
    BY <1>5, <1>7
  <2>3. v <= Max(T)
    BY <1>5, <2>1
  <2> HIDE DEF T
  <2> QED
    BY <2>1, <2>2, <2>3
<1> QED
  BY <1>6, <1>7

\* The value on record of an effect.
LEMMA Recorded ==
  ASSUME IInv, NEW e \in Effects
  PROVE  /\ ValuesOf(e) \in SUBSET Runs /\ \A v, w \in ValuesOf(e) : v = w
         /\ (\A f \in OnRecord : ~IsEffect(f, e)) => ValueOf(e) = 0
         /\ \A f \in OnRecord : IsEffect(f, e) => ValueOf(e) = f.what.value /\ f.what.value # 0
<1>1. \A v : v \in ValuesOf(e) <=> \E f \in OnRecord : IsEffect(f, e) /\ f.what.value = v
  BY DEF ValuesOf, IsEffect
<1>2. ValuesOf(e) \in SUBSET Runs
  BY <1>1, FramesOnRecord, EffectHasValue DEF IInv, IsEffect
<1>3. \A v, w \in ValuesOf(e) : v = w
  BY <1>1 DEF IInv, ValueInv
<1>4. (\A f \in OnRecord : ~IsEffect(f, e)) => ValuesOf(e) = {}
  BY <1>1
<1>5. /\ ValuesOf(e) = {} => ValueOf(e) = 0
      /\ \A v \in ValuesOf(e) : ValueOf(e) = v /\ v # 0
  BY <1>2, <1>3, MaxOfOne DEF ValueOf
<1> QED
  BY <1>1, <1>2, <1>3, <1>4, <1>5

\* Children whose keys are numbered within the calls there are, each once, are no more.
LEMMA NumberedChildren ==
  ASSUME NEW C \in SUBSET Children, NEW n \in Nat, NEW b,
         \A c \in C : c.call_key[1] = b /\ c.call_key[2] <= n,
         \A c, d \in C : c.call_key = d.call_key => c = d
  PROVE  Cardinality(C) <= n
<1>1. ASSUME NEW c \in C
      PROVE  c.call_key[2] \in Nat \ {0} /\ c.call_key = <<b, c.call_key[2]>>
  <2>1. c.call_key \in Bases \X (1 .. Cardinality(Calls))
    BY DEF Children, CallKeys
  <2>2. Cardinality(Calls) \in Nat
    BY ProgramAssumption, FS_CardinalityType
  <2> QED
    BY <2>1, <2>2
<1>2. \A c, d \in C : c.call_key[2] = d.call_key[2] => c = d
  BY <1>1
<1> DEFINE number == [c \in C |-> c.call_key[2]]
<1>3. number \in [C -> 1 .. n]
  BY <1>1
<1>4. number \in Injection(C, 1 .. n)
  BY <1>2, <1>3 DEF Injection, IsInjective
<1>5. IsFiniteSet(1 .. n) /\ Cardinality(1 .. n) = n
  BY FS_Interval
<1> QED
  BY <1>4, <1>5, FS_Injection

\* A task has no more children of a target than the code has calls of it.
LEMMA ChildrenAreBounded ==
  ASSUME IInv, NEW t \in Tasks, NEW b \in Bases
  PROVE  /\ IsFiniteSet(ChildrenTo(t, b)) /\ IsFiniteSet(CallsTo(t, b))
         /\ Cardinality(ChildrenTo(t, b)) \in Nat /\ Cardinality(CallsTo(t, b)) \in Nat
         /\ Cardinality(ChildrenTo(t, b)) <= Cardinality(CallsTo(t, b))
<1> DEFINE C == ChildrenTo(t, b)
<1> DEFINE n == Cardinality(CallsTo(t, b))
<1>1. IsFiniteSet(C) /\ C \subseteq children /\ C \in SUBSET Children
  BY FS_Subset DEF ChildrenTo, IInv, TypeInv, TypeOK
<1>2. IsFiniteSet(CallsTo(t, b)) /\ n \in Nat
  BY ProgramAssumption, FS_Subset, FS_CardinalityType DEF CallsTo
<1>3. \A c \in C : c.parent = t /\ c.call_key[1] = b /\ c.call_key[2] <= n
  BY <1>1 DEF ChildrenTo, IInv, KeyInv
<1>4. \A c, d \in C : c.call_key = d.call_key => c = d
  BY <1>1, <1>3 DEF IInv, KeyInv
<1>5. Cardinality(C) <= n
  <2> HIDE DEF C, n
  <2> QED
    BY <1>1, <1>2, <1>3, <1>4, NumberedChildren
<1> QED
  BY <1>1, <1>2, <1>5, FS_CardinalityType

\* A workflow that has returned has a child for each of its calls.
LEMMA AllCalled ==
  ASSUME IInv, NEW t \in Tasks, PointsOf(t) \subseteq done, NEW b \in Bases
  PROVE  Cardinality(ChildrenTo(t, b)) = Cardinality(CallsTo(t, b))
<1> DEFINE C == ChildrenTo(t, b)
<1> DEFINE K == CallsTo(t, b)
<1>1. \A c \in K : c \in Calls /\ TaskOf[c] = t /\ Base[c] = b /\ c \in done
  BY DEF CallsTo, PointsOf, Points
<1>2. \A c \in K : /\ calls[c].stage = "answered" /\ calls[c].child # {}
                   /\ \A child \in calls[c].child : child \in C
  BY <1>1 DEF IInv, CallInv, ChildrenTo
<1> DEFINE found == [c \in K |-> CHOOSE child \in calls[c].child : TRUE]
<1>3. \A c \in K : found[c] \in calls[c].child
  BY <1>2
<1> HIDE DEF found
<1>4. \A c, d \in K : found[c] = found[d] => c = d
  <2> SUFFICES ASSUME NEW c \in K, NEW d \in K, found[c] = found[d] PROVE c = d
    OBVIOUS
  <2>1. /\ found[c] \in calls[c].child /\ found[c] \in calls[d].child
        /\ TaskOf[c] = TaskOf[d] /\ Base[c] = Base[d] /\ c \in Calls /\ d \in Calls
    BY <1>1, <1>3
  <2>2. found[c] \in children
    BY <2>1 DEF IInv, CallInv
  <2>3. found[c].call_key[2] \in 1 .. Cardinality(Calls)
    BY <2>2 DEF IInv, TypeInv, TypeOK, Children, CallKeys
  <2>4. Holds(c, found[c].call_key[2]) /\ Holds(d, found[c].call_key[2])
    BY <2>1 DEF Holds
  <2> QED
    BY <2>1, <2>3, <2>4 DEF IInv, KeyInv
<1>5. found \in Injection(K, C)
  <2>1. found \in [K -> C]
    BY <1>2, <1>3 DEF found
  <2> QED
    BY <1>4, <2>1 DEF Injection, IsInjective
<1>6. IsFiniteSet(C) /\ Cardinality(C) \in Nat /\ Cardinality(K) \in Nat /\ Cardinality(C) <= Cardinality(K)
  BY ChildrenAreBounded
<1>7. Cardinality(K) <= Cardinality(C)
  <2> HIDE DEF C, K
  <2> QED
    BY <1>5, <1>6, FS_Injection
<1> QED
  BY <1>6, <1>7


LEMMA DurableInit == Init => Durable!Init
<1> SUFFICES ASSUME Init PROVE Durable!Init
  OBVIOUS
<1>1. IInv /\ OnRecord = {} /\ children = {}
  BY IInvInit DEF Init, OnRecord
<1>2. \A e \in Effects : ValueOf(e) = 0
  BY <1>1, Recorded
<1>3. \A t \in Tasks, b \in Bases : Cardinality(ChildrenTo(t, b)) = 0
  <2>1. \A t \in Tasks, b \in Bases : ChildrenTo(t, b) = {}
    BY <1>1 DEF ChildrenTo
  <2> QED
    BY <2>1, FS_EmptySet
<1>4. Ended = {}
  BY <1>1 DEF Ended
<1>5. [e \in Effects |-> ValueOf(e)] = [e \in Effects |-> 0]
  BY <1>2
<1>6. [t \in Tasks |-> [b \in Bases |-> Cardinality(ChildrenTo(t, b))]] = [t \in Tasks |-> [b \in Bases |-> 0]]
  BY <1>3
<1> QED
  BY <1>4, <1>5, <1>6, DurableWords DEF Durable!Init, ValueOf, ChildrenTo, Ended

\* Nothing is recorded and no child created, or a report that says neither.
LEMMA DurableSame ==
  ASSUME children' = children, OnRecord \subseteq OnRecord',
         \A f \in OnRecord' : f \in OnRecord \/ f.what.kind = "REPORT"
  PROVE  UNCHANGED Durable!vars
<1>1. \A e \in Effects : ValuesOf(e)' = ValuesOf(e)
  BY DEF ValuesOf
<1>2. \A e \in Effects : ValueOf(e)' = ValueOf(e)
  BY <1>1 DEF ValueOf
<1>3. \A t, b : ChildrenTo(t, b)' = ChildrenTo(t, b)
  BY DEF ChildrenTo
<1>4. Ended' = Ended
  BY DEF Ended
<1>5. UNCHANGED [e \in Effects |-> ValueOf(e)]
  BY <1>2
<1>6. UNCHANGED [t \in Tasks |-> [b \in Bases |-> Cardinality(ChildrenTo(t, b))]]
  BY <1>3
<1> QED
  BY <1>4, <1>5, <1>6 DEF Durable!vars, ValueOf, ChildrenTo, Ended

\* A value is taken where none is on record.
LEMMA DurableFix ==
  ASSUME IInv, IInv', NEW e \in Effects, TakeEffect(e), replay[e] = 0, ~Replays(e)
  PROVE  Durable!Next
<1>0. TypeInv /\ DeliveryInv /\ RunAssumption
  BY RunAssumption DEF IInv
<1>1. PICK x \in Frames : x = New(TaskOf[e], EffectOf(e))
  BY <1>0, WorkEmits, Emitted DEF Emits
<1>2. /\ OnRecord' = OnRecord \cup {x} /\ x.what = EffectOf(e) /\ children' = children
      /\ TaskOf[e] \in running /\ TaskOf[e] \in Tasks /\ e \notin done
      /\ run \in Runs
  <2>1. Emits(TaskOf[e], EffectOf(e)) /\ TaskOf[e] \in Tasks /\ EffectOf(e) \in What
    BY <1>0, WorkEmits
  <2>2. run \in Runs
    BY <1>0, <2>1, RunAssumption DEF Emits, TypeInv, TypeOK, Runs
  <2> QED
    BY <1>0, <1>1, <2>1, <2>2, Emitted DEF Emits, TakeEffect, Ready
<1>3. x.what.kind = "EFFECT" /\ x.what.key = e /\ x.what.value = run
  BY <1>2 DEF EffectOf
<1>4. ValueOf(e) = 0
  <2>1. \A f \in OnRecord : ~IsEffect(f, e)
    BY <1>2 DEF IInv, ValueInv
  <2> QED
    BY <2>1, Recorded
<1>5. ValueOf(e)' = run
  <2>1. /\ ValuesOf(e)' \in SUBSET Runs /\ \A v, w \in ValuesOf(e)' : v = w
        /\ run \in ValuesOf(e)'
    <3>1. run \in ValuesOf(e)'
      BY <1>2, <1>3 DEF ValuesOf
    <3>2. \A v : v \in ValuesOf(e)' <=> \E f \in OnRecord' : IsEffect(f, e) /\ f.what.value = v
      BY DEF ValuesOf, IsEffect
    <3>3. OnRecord' \in SUBSET Frames
      BY <1>0, <1>2, FramesOnRecord
    <3>4. ValuesOf(e)' \in SUBSET Runs
      BY <3>2, <3>3, EffectHasValue DEF IsEffect
    <3>5. \A v, w \in ValuesOf(e)' : v = w
      BY <3>2 DEF IInv, ValueInv, IsEffect
    <3> QED
      BY <3>1, <3>4, <3>5
  <2>2. PICK S : S = ValuesOf(e)'
    OBVIOUS
  <2>3. ValueOf(e)' = Max({0} \cup S)
    BY <2>2 DEF ValueOf
  <2> QED
    BY <2>1, <2>2, <2>3, MaxOfOne
<1>6. \A d \in Effects \ {e} : ValueOf(d)' = ValueOf(d)
  <2>1. \A d \in Effects \ {e} : ValuesOf(d)' = ValuesOf(d)
    BY <1>2, <1>3 DEF ValuesOf
  <2> QED
    BY <2>1 DEF ValueOf
<1>7. \A t, b : ChildrenTo(t, b)' = ChildrenTo(t, b)
  BY <1>2 DEF ChildrenTo
<1>8. Ended' = Ended /\ TaskOf[e] \notin Ended
  BY <1>2, <1>3 DEF Ended, IInv, EndInv
<1>9. run \in 1 .. MaxRun
  BY <1>2 DEF Runs
<1>10. [d \in Effects |-> ValueOf(d)]' = [[d \in Effects |-> ValueOf(d)] EXCEPT ![e] = run]
  BY <1>5, <1>6
<1>11. UNCHANGED [t \in Tasks |-> [b \in Bases |-> Cardinality(ChildrenTo(t, b))]]
  BY <1>7
<1>12. [d \in Effects |-> ValueOf(d)][e] = 0
  BY <1>4
<1>13. Durable!Fix(e)
  BY <1>8, <1>9, <1>10, <1>11, <1>12 DEF Durable!Fix, ValueOf, ChildrenTo, Ended
<1> QED
  BY <1>13 DEF Durable!Next


\* A request is answered with a child there is, or with one more of its target.
LEMMA DurableCreate ==
  ASSUME IInv, IInv', ServerReadRequest
  PROVE  Durable!Next \/ UNCHANGED Durable!vars
<1>0. TypeInv /\ StepInv /\ CallInv
  BY DEF IInv
<1>1. PICK c \in Calls, child \in Children :
         /\ TaskOf[c] \in running /\ children' = children \cup {child}
         /\ child.parent = TaskOf[c] /\ child.call_key[1] = Base[c]
  BY <1>0, RequestCalls
<1>2. OnRecord' = OnRecord
  BY <1>0, RequestCalls
<1> DEFINE t == TaskOf[c]
<1> DEFINE b == Base[c]
<1>3. t \in Tasks /\ b \in Bases /\ t \in running
  BY <1>1, ProgramAssumption DEF Points, Bases
<1>4. CASE child \in children
  BY <1>1, <1>2, <1>4, DurableSame
<1>5. CASE child \notin children
  <2>1. ChildrenTo(t, b)' = ChildrenTo(t, b) \cup {child} /\ child \notin ChildrenTo(t, b)
    BY <1>1, <1>5 DEF ChildrenTo
  <2>2. \A s \in Tasks, a \in Bases : s # t \/ a # b => ChildrenTo(s, a)' = ChildrenTo(s, a)
    BY <1>1 DEF ChildrenTo
  <2>3. /\ IsFiniteSet(ChildrenTo(t, b)) /\ Cardinality(ChildrenTo(t, b)) \in Nat
        /\ Cardinality(CallsTo(t, b)) \in Nat
    BY <1>3, ChildrenAreBounded
  <2>4. Cardinality(ChildrenTo(t, b)') = Cardinality(ChildrenTo(t, b)) + 1
    BY <2>1, <2>3, FS_AddElement
  <2>5. Cardinality(ChildrenTo(t, b)') <= Cardinality(CallsTo(t, b))
    <3>1. PICK C : C = ChildrenTo(t, b)'
      OBVIOUS
    <3>2. C \in SUBSET Children /\ C \subseteq children'
      BY <3>1 DEF ChildrenTo, IInv, TypeInv, TypeOK
    <3>3. CallsTo(t, b)' = CallsTo(t, b)
      BY DEF CallsTo
    <3>4. /\ \A d \in C : d.parent = t /\ d.call_key[1] = b /\ d.call_key[2] <= Cardinality(CallsTo(t, b))
          /\ \A d, e \in C : d.call_key = e.call_key => d = e
      BY <3>1, <3>2, <3>3 DEF ChildrenTo, IInv, KeyInv
    <3> QED
      BY <2>3, <3>1, <3>2, <3>4, NumberedChildren
  <2>6. Cardinality(ChildrenTo(t, b)) < Cardinality(CallsTo(t, b))
    BY <2>3, <2>4, <2>5
  <2>7. t \notin Ended /\ Ended' = Ended
    BY <1>2, <1>3 DEF IInv, EndInv, Ended
  <2>8. UNCHANGED [e \in Effects |-> ValueOf(e)]
    BY <1>2 DEF ValueOf, ValuesOf
  <2> DEFINE count == [s \in Tasks |-> [a \in Bases |-> Cardinality(ChildrenTo(s, a))]]
  <2>9. count[t][b] = Cardinality(ChildrenTo(t, b))
    BY <1>3
  <2>10. count' = [count EXCEPT ![t][b] = @ + 1]
    <3>1. \A s \in Tasks, a \in Bases :
             Cardinality(ChildrenTo(s, a)') =
                IF s = t /\ a = b THEN Cardinality(ChildrenTo(s, a)) + 1 ELSE Cardinality(ChildrenTo(s, a))
      BY <2>2, <2>4
    <3> QED
      BY <1>3, <3>1
  <2>11. count[t][b] < Cardinality(CallsTo(t, b))
    BY <2>6, <2>9
  <2>12. t \in Tasks /\ b \in Durable!Bases /\ Durable!Cardinality(Durable!CallsTo(t, b)) = Cardinality(CallsTo(t, b))
    BY <1>3, DurableWords
  <2>13. Durable!Create(t, b)
    BY <2>7, <2>8, <2>10, <2>11, <2>12 DEF Durable!Create, ValueOf, ChildrenTo, Ended
  <2> QED
    BY <2>12, <2>13 DEF Durable!Next
<1> QED
  BY <1>4, <1>5

\* A workflow ends with every value and every child on record.
LEMMA DurableEnd ==
  ASSUME IInv, NEW t \in Tasks, End(t)
  PROVE  Durable!Next
<1>0. TypeInv /\ DeliveryInv
  BY DEF IInv
<1>1. /\ t \in running /\ PointsOf(t) \subseteq done /\ Emits(t, [kind |-> "END"])
      /\ [kind |-> "END"] \in What /\ children' = children
  BY <1>0, WorkEmits DEF End, server
<1>2. PICK x : x = New(t, [kind |-> "END"])
  OBVIOUS
<1>3. OnRecord' = OnRecord \cup {x} /\ x.task = t /\ x.what = [kind |-> "END"]
  BY <1>0, <1>1, <1>2, Emitted DEF Emits
<1>4. x.what.kind = "END"
  BY <1>3
<1>5. t \notin Ended /\ Ended' = Ended \cup {t}
  BY <1>1, <1>3, <1>4 DEF IInv, EndInv, Ended
<1>6. UNCHANGED [e \in Effects |-> ValueOf(e)]
  <2>1. \A e \in Effects : ValuesOf(e)' = ValuesOf(e)
    BY <1>3, <1>4 DEF ValuesOf
  <2> QED
    BY <2>1 DEF ValueOf
<1>7. UNCHANGED [s \in Tasks |-> [b \in Bases |-> Cardinality(ChildrenTo(s, b))]]
  BY <1>1 DEF ChildrenTo
<1>8. ASSUME NEW e \in Effects, TaskOf[e] = t PROVE [d \in Effects |-> ValueOf(d)][e] # 0
  <2>1. e \in done
    BY <1>1, <1>8 DEF PointsOf, Points
  <2>2. \E f \in OnRecord : IsEffect(f, e)
    BY <2>1 DEF IInv, ValueInv
  <2>3. ValueOf(e) # 0
    BY <2>2, Recorded
  <2> QED
    BY <2>3
<1>9. ASSUME NEW b \in Bases
      PROVE  [s \in Tasks |-> [a \in Bases |-> Cardinality(ChildrenTo(s, a))]][t][b] = Cardinality(CallsTo(t, b))
  BY <1>1, <1>9, AllCalled
<1>10. Durable!Bases = Bases /\ \A b \in Bases : Durable!Cardinality(Durable!CallsTo(t, b)) = Cardinality(CallsTo(t, b))
  BY DurableWords
<1>11. Durable!End(t)
  BY <1>5, <1>6, <1>7, <1>8, <1>9, <1>10 DEF Durable!End, ValueOf, ChildrenTo, Ended
<1> QED
  BY <1>11 DEF Durable!Next

LEMMA DurableStep == IInv /\ IInv' /\ [Next]_vars => [Durable!Next]_Durable!vars
<1> SUFFICES ASSUME IInv, IInv', [Next]_vars
             PROVE  Durable!Next \/ UNCHANGED Durable!vars
  OBVIOUS
<1>0. TypeInv /\ DeliveryInv
  BY DEF IInv
<1>1. CASE Start \/ Crash
  BY <1>1, DurableSame DEF Start, Crash, server, OnRecord
<1>2. CASE HandleAssign \/ HandleResponse
  BY <1>2, DurableSame DEF HandleAssign, HandleResponse, server, OnRecord
<1>3. CASE HandleAck
  <2>1. children' = children
    BY <1>3 DEF HandleAck, server
  <2> QED
    BY <1>0, <1>3, <2>1, AckKeepsRecord, DurableSame
<1>4. CASE ServerReadFrame
  <2>1. children' = children
    BY <1>4 DEF ServerReadFrame
  <2> QED
    BY <1>0, <1>4, <2>1, ReadKeepsRecord, DurableSame
<1>5. ASSUME NEW t \in Tasks, ServerAssign(t) PROVE UNCHANGED Durable!vars
  BY <1>5, DurableSame DEF ServerAssign, OnRecord
<1>6. ASSUME NEW c \in Calls, ReserveStep(c) \/ SendCall(c) PROVE UNCHANGED Durable!vars
  BY <1>6, DurableSame DEF ReserveStep, SendCall, server, OnRecord
<1>7. ASSUME NEW e \in Effects, TakeEffect(e) PROVE Durable!Next \/ UNCHANGED Durable!vars
  <2>1. CASE Replays(e)
    BY <2>1, DurableSame DEF Replays, server, OnRecord
  <2>2. CASE ~Replays(e)
    <3>1. replay[e] = 0
      BY <1>0, <1>7, <2>2, WorkEmits
    <3> QED
      BY <1>7, <2>2, <3>1, DurableFix
  <2> QED
    BY <2>1, <2>2
<1>8. ASSUME NEW p \in Reports, Report(p) PROVE UNCHANGED Durable!vars
  <2>1. /\ TaskOf[p] \in Tasks /\ [kind |-> "REPORT"] \in What /\ Emits(TaskOf[p], [kind |-> "REPORT"])
        /\ children' = children
    BY <1>0, <1>8, WorkEmits DEF Report, server
  <2>2. /\ OnRecord' = OnRecord \cup {New(TaskOf[p], [kind |-> "REPORT"])}
        /\ New(TaskOf[p], [kind |-> "REPORT"]).what = [kind |-> "REPORT"]
    BY <1>0, <2>1, Emitted DEF Emits
  <2> QED
    BY <2>1, <2>2, DurableSame
<1>9. CASE UNCHANGED vars
  BY <1>9, DurableSame DEF vars, process, server, OnRecord
<1> QED
  BY <1>1, <1>2, <1>3, <1>4, <1>5, <1>6, <1>7, <1>8, <1>9, DurableCreate, DurableEnd
  DEF Next, Handle, Server, Work

\* Runs that die anywhere add up to one durable workflow: each value fixed once, each
\* call one child, and an end with all of them on record (docs/workflows.md, "Resume").
THEOREM ImplementsDurableHolds == Spec => ImplementsDurable
BY DurableInit, DurableStep, Inductive, PTL DEF Spec, ImplementsDurable, Durable!Spec

=============================================================================
