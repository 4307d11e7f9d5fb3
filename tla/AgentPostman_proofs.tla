-------------------------- MODULE AgentPostman_proofs --------------------------
(***************************************************************************)
(* Proofs about AgentPostman, for any number of calls and of events: each  *)
(* call takes its child's events once, in order and without a gap, leaves  *)
(* behind only what a child says late, and cancels the child it abandons.  *)
(***************************************************************************)
EXTENDS AgentPostman, SequenceTheorems, TLAPS

-----------------------------------------------------------------------------
(* The invariant.  It speaks of one call at a time: calls share nothing    *)
(* but the socket.                                                         *)

Messages == Mirrors \cup Responses

\* A queue holds none, or at most one, of the messages P.
Lacks(q, P) == \A i \in DOMAIN q : q[i] \notin P
Once(q, P) == \A i, j \in DOMAIN q : q[i] \in P /\ q[j] \in P => i = j

Asks(c) == {Request("ASSIGN_REQUEST", c)}
Answers(c) == [call : {c}, answer : {"task", "error"}]
Mirror(c, seq) == [call |-> c, seq |-> seq]
MirrorsOf(c) == [call : {c}, seq : Seqs]

Asked(c) == ~Lacks(toServer, Asks(c))
Replied(c) == ~Lacks(toAgent, Answers(c))

\* A call is asked for once and answered once: its request is on the way, or owed an
\* answer, or the answer is on the way, or here.
RequestInv(c) ==
    /\ Once(toServer, Asks(c)) /\ Once(toAgent, Answers(c))
    /\ Asked(c) => c \notin owed /\ ~Replied(c) /\ answer[c] = "none" /\ c \notin answered
    /\ c \in owed => ~Replied(c) /\ answer[c] = "none" /\ c \notin answered
    /\ Replied(c) => answer[c] = "none"
    /\ pc[c] = "idle" => ~Asked(c) /\ c \notin owed /\ ~Replied(c) /\ answer[c] = "none" /\ c \notin answered
    /\ \A i \in DOMAIN toAgent : toAgent[i] \in Answers(c) => (toAgent[i].answer = "task" <=> c \in answered)
    /\ answer[c] # "none" => (answer[c] = "task" <=> c \in answered)

\* A child has events once it was started, and they are mirrored after it made them.
ChildInv(c) ==
    /\ mirrored[c] <= count[c]
    /\ c \in Questions => count[c] = 0
    /\ c \notin earlier /\ c \notin owed \cup answered => count[c] = 0

\* Where the generator of c is, and what the postman holds for it.
GeneratorInv(c) ==
    /\ pc[c] = "done" <=> outcome[c] # "none"
    /\ c \in pending => pc[c] \notin {"idle", "done"}
    /\ pc[c] \in {"idle", "asking"} => taken[c] = <<>>
    /\ pc[c] = "yielded" => taken[c] # <<>>
    /\ pc[c] \in {"streaming", "yielded", "cancelling", "interrupting"} => c \in queues /\ answer[c] # "none"
    /\ c \in queues => orphans[c] = <<>> /\ c \in answered
    /\ c \notin queues => queue[c] = <<>>
    /\ IsInjective(taken[c])

\* A child that was heard from is cancelled before its caller is gone.
CancelInv(c) ==
    /\ pc[c] \in {"cancelling", "interrupting"} => c \in cancelSent
    /\ outcome[c] \in {"cancelled", "closed"} /\ taken[c] # <<>> => c \in cancelSent

\* What is ahead of the generator of c: what the postman holds for it, then the socket.
Buffer(c) == IF c \in queues THEN queue[c] ELSE orphans[c]
Marked(c, b) == [i \in 1 .. Len(b) |-> Mirror(c, b[i])]
Lane(c) == Marked(c, Buffer(c)) \o toAgent

\* Of the events up to m, all those not in T are in the lane; what an event follows
\* is in T, or ahead of it.
Whole(lane, c, T, m) ==
    \A n \in 1 .. m : n \in T \/ \E j \in DOMAIN lane : lane[j] = Mirror(c, n)
Ordered(lane, c, T) ==
    \A i \in DOMAIN lane, seq \in Seqs : lane[i] = Mirror(c, seq) =>
        \A n \in 1 .. seq - 1 : n \in T \/ \E j \in 1 .. i - 1 : lane[j] = Mirror(c, n)

\* Each event comes once.
Single(lane, c, T, m) ==
    /\ \A n \in T : n <= m
    /\ \A i \in DOMAIN lane, seq \in Seqs : lane[i] = Mirror(c, seq) =>
          seq <= m /\ seq \notin T /\ \A j \in DOMAIN lane : lane[j] = lane[i] => j = i

InOrder(c) == ~(liveFirst /\ c \in earlier)
Streams(c) == pc[c] \in {"idle", "asking", "streaming", "yielded"}
Taken(c) == {taken[c][i] : i \in DOMAIN taken[c]}

OrderInv(c) == InOrder(c) =>
    /\ \A i \in DOMAIN taken[c] : taken[c][i] = i
    /\ Streams(c) =>
          /\ Ordered(Lane(c), c, Taken(c))
          /\ c \notin earlier \/ c \in answered => Whole(Lane(c), c, Taken(c), mirrored[c])

OnceInv(c) == c \notin earlier /\ Streams(c) => Single(Lane(c), c, Taken(c), mirrored[c])

\* Nothing more comes for a call that ended, or was refused.
EndInv(c) ==
    /\ outcome[c] = "ended" /\ InOrder(c) => ending[c] # "none" /\ Len(taken[c]) = count[c]
    /\ outcome[c] \in {"ended", "refused"} /\ c \notin earlier =>
          /\ c \notin queues /\ orphans[c] = <<>>
          /\ answer[c] # "none" /\ Lacks(toAgent, MirrorsOf(c))
          /\ mirrored[c] = count[c]
          /\ ending[c] # "none" \/ c \notin answered

CallInv(c) ==
    /\ RequestInv(c) /\ ChildInv(c) /\ GeneratorInv(c) /\ CancelInv(c)
    /\ OrderInv(c) /\ OnceInv(c) /\ EndInv(c)

IInv == TypeOK /\ \A c \in Calls : CallInv(c)

-----------------------------------------------------------------------------
(* Sequences.                                                              *)

\* A queue loses its head, and gains a message at its end.
LEMMA TailFacts ==
  ASSUME NEW S, NEW q \in Seq(S), q # <<>>
  PROVE  /\ 1 \in DOMAIN q /\ Head(q) = q[1] /\ Head(q) \in S /\ Tail(q) \in Seq(S)
         /\ DOMAIN q = 1 .. Len(q) /\ DOMAIN Tail(q) = 1 .. Len(q) - 1
         /\ Len(q) \in Nat \ {0} /\ Len(Tail(q)) = Len(q) - 1
         /\ \A i \in 1 .. Len(q) - 1 : Tail(q)[i] = q[i + 1]
OBVIOUS

LEMMA AppendFacts ==
  ASSUME NEW S, NEW q \in Seq(S), NEW x \in S
  PROVE  /\ Append(q, x) \in Seq(S) /\ Len(q) \in Nat
         /\ DOMAIN q = 1 .. Len(q) /\ DOMAIN Append(q, x) = 1 .. Len(q) + 1
         /\ Len(Append(q, x)) = Len(q) + 1
         /\ Append(q, x)[Len(q) + 1] = x
         /\ \A i \in 1 .. Len(q) : Append(q, x)[i] = q[i]
OBVIOUS

LEMMA ConcatFacts ==
  ASSUME NEW S, NEW p \in Seq(S), NEW q \in Seq(S)
  PROVE  /\ p \o q \in Seq(S) /\ Len(p) \in Nat /\ Len(q) \in Nat
         /\ DOMAIN p = 1 .. Len(p) /\ DOMAIN q = 1 .. Len(q)
         /\ DOMAIN (p \o q) = 1 .. Len(p) + Len(q)
         /\ Len(p \o q) = Len(p) + Len(q)
         /\ \A i \in 1 .. Len(p) : (p \o q)[i] = p[i]
         /\ \A i \in 1 .. Len(q) : (p \o q)[i + Len(p)] = q[i]
OBVIOUS

LEMMA EqualSeqs ==
  ASSUME NEW S, NEW p \in Seq(S), NEW q \in Seq(S), Len(p) = Len(q),
         \A i \in 1 .. Len(p) : p[i] = q[i]
  PROVE  p = q
OBVIOUS

\* Messages of a kind leave a queue ...
LEMMA LacksTail ==
  ASSUME NEW S, NEW q \in Seq(S), q # <<>>, NEW P
  PROVE  /\ Once(q, P) => Once(Tail(q), P)
         /\ Lacks(q, P) => Lacks(Tail(q), P) /\ Head(q) \notin P
         /\ Once(q, P) /\ Head(q) \in P => Lacks(Tail(q), P)
         /\ Head(q) \notin P => (Lacks(Tail(q), P) <=> Lacks(q, P))
<1> DEFINE p == Tail(q)
<1>1. /\ DOMAIN q = 1 .. Len(q) /\ DOMAIN p = 1 .. Len(q) - 1
      /\ Head(q) = q[1] /\ Len(q) \in Nat \ {0}
      /\ \A i \in 1 .. Len(q) - 1 : p[i] = q[i + 1]
  BY TailFacts
<1> HIDE DEF p
<1>2. \A i \in DOMAIN p : i + 1 \in DOMAIN q /\ p[i] = q[i + 1] /\ i + 1 # 1
  BY <1>1
<1>3. Once(q, P) => Once(p, P)
  <2> SUFFICES ASSUME Once(q, P), NEW i \in DOMAIN p, NEW j \in DOMAIN p, p[i] \in P, p[j] \in P
               PROVE  i = j
    BY DEF Once
  <2>1. i + 1 = j + 1
    BY <1>2 DEF Once
  <2> QED
    BY <1>1, <2>1
<1>4. Lacks(q, P) => Lacks(p, P) /\ Head(q) \notin P
  BY <1>1, <1>2 DEF Lacks
<1>5. Once(q, P) /\ Head(q) \in P => Lacks(p, P)
  BY <1>1, <1>2 DEF Once, Lacks
<1>6. Head(q) \notin P /\ Lacks(p, P) => Lacks(q, P)
  <2> SUFFICES ASSUME Head(q) \notin P, Lacks(p, P), NEW i \in DOMAIN q PROVE q[i] \notin P
    BY DEF Lacks
  <2>1. CASE i = 1
    BY <1>1, <2>1
  <2>2. CASE i # 1
    <3>1. i - 1 \in DOMAIN p /\ p[i - 1] = q[i]
      BY <1>1, <2>2
    <3> QED
      BY <3>1 DEF Lacks
  <2> QED
    BY <2>1, <2>2
<1> QED
  BY <1>3, <1>4, <1>5, <1>6 DEF p

\* ... and join it.
LEMMA LacksConcat ==
  ASSUME NEW S, NEW q \in Seq(S), NEW s \in Seq(S), NEW P, Lacks(s, P)
  PROVE  /\ Once(q, P) => Once(q \o s, P)
         /\ Lacks(q \o s, P) <=> Lacks(q, P)
<1> DEFINE r == q \o s
<1>1. /\ DOMAIN q = 1 .. Len(q) /\ DOMAIN s = 1 .. Len(s) /\ DOMAIN r = 1 .. Len(q) + Len(s)
      /\ Len(q) \in Nat /\ Len(s) \in Nat
      /\ \A i \in 1 .. Len(q) : r[i] = q[i]
      /\ \A i \in 1 .. Len(s) : r[i + Len(q)] = s[i]
  BY ConcatFacts
<1> HIDE DEF r
<1>2. ASSUME NEW i \in DOMAIN r, r[i] \in P
      PROVE  i \in DOMAIN q /\ r[i] = q[i]
  <2>1. CASE i <= Len(q)
    BY <1>1, <2>1
  <2>2. CASE i > Len(q)
    <3>1. i - Len(q) \in DOMAIN s /\ (i - Len(q)) + Len(q) = i
      BY <1>1, <2>2
    <3>2. r[i] = s[i - Len(q)]
      BY <1>1, <3>1
    <3> QED
      BY <1>2, <3>1, <3>2 DEF Lacks
  <2> QED
    BY <1>1, <2>1, <2>2
<1>3. Once(q, P) => Once(r, P)
  BY <1>2 DEF Once
<1>4. Lacks(q, P) => Lacks(r, P)
  BY <1>2 DEF Lacks
<1>5. Lacks(r, P) => Lacks(q, P)
  BY <1>1 DEF Lacks
<1> QED
  BY <1>3, <1>4, <1>5 DEF r

LEMMA LacksAppend ==
  ASSUME NEW S, NEW q \in Seq(S), NEW x \in S, NEW P
  PROVE  /\ Lacks(q, P) => Once(Append(q, x), P)
         /\ x \in P => ~Lacks(Append(q, x), P)
         /\ x \notin P => /\ Once(q, P) => Once(Append(q, x), P)
                          /\ Lacks(Append(q, x), P) <=> Lacks(q, P)
<1> DEFINE r == Append(q, x)
<1>1. /\ DOMAIN q = 1 .. Len(q) /\ DOMAIN r = 1 .. Len(q) + 1 /\ Len(q) \in Nat
      /\ r[Len(q) + 1] = x /\ \A i \in 1 .. Len(q) : r[i] = q[i]
  BY AppendFacts
<1> HIDE DEF r
<1>2. \A i \in DOMAIN r : (i \in DOMAIN q /\ r[i] = q[i]) \/ (i = Len(q) + 1 /\ r[i] = x)
  BY <1>1
<1>3. Lacks(q, P) => Once(r, P)
  BY <1>2 DEF Once, Lacks
<1>4. x \in P => ~Lacks(r, P)
  <2>1. Len(q) + 1 \in DOMAIN r
    BY <1>1
  <2> QED
    BY <1>1, <2>1 DEF Lacks
<1>5. ASSUME x \notin P
      PROVE  /\ Once(q, P) => Once(r, P)
             /\ Lacks(r, P) <=> Lacks(q, P)
  <2>1. \A i \in DOMAIN r : r[i] \in P => i \in DOMAIN q /\ r[i] = q[i]
    BY <1>2, <1>5
  <2>2. \A i \in DOMAIN q : i \in DOMAIN r /\ r[i] = q[i]
    BY <1>1
  <2> QED
    BY <2>1, <2>2 DEF Once, Lacks
<1> QED
  BY <1>3, <1>4, <1>5 DEF r

-----------------------------------------------------------------------------
(* Lanes.                                                                  *)

LEMMA MirrorInjective ==
  ASSUME NEW c, NEW d, NEW m, NEW n, Mirror(c, m) = Mirror(d, n)
  PROVE  c = d /\ m = n
BY DEF Mirror

\* The next event of the lane is taken.
LEMMA LaneTaken ==
  ASSUME NEW lane \in Seq(Messages), lane # <<>>, NEW c, NEW s \in Seqs, Head(lane) = Mirror(c, s),
         NEW T \in SUBSET Seqs, NEW m \in Nat
  PROVE  /\ Ordered(lane, c, T) =>
               Ordered(Tail(lane), c, T \cup {s}) /\ \A n \in 1 .. s - 1 : n \in T
         /\ Whole(lane, c, T, m) => Whole(Tail(lane), c, T \cup {s}, m)
         /\ Single(lane, c, T, m) => Single(Tail(lane), c, T \cup {s}, m) /\ s \notin T /\ s <= m
<1> DEFINE rest == Tail(lane)
           now == T \cup {s}
<1>1. /\ DOMAIN lane = 1 .. Len(lane) /\ DOMAIN rest = 1 .. Len(lane) - 1
      /\ lane[1] = Mirror(c, s) /\ Len(lane) \in Nat \ {0} /\ 1 \in DOMAIN lane
      /\ \A i \in 1 .. Len(lane) - 1 : rest[i] = lane[i + 1]
  BY TailFacts
<1> HIDE DEF rest
<1>2. \A i \in DOMAIN rest : i \in Nat \ {0} /\ i + 1 \in DOMAIN lane /\ rest[i] = lane[i + 1]
  BY <1>1
<1>3. ASSUME NEW n, NEW j \in DOMAIN lane, lane[j] = Mirror(c, n), n \notin now
      PROVE  j - 1 \in DOMAIN rest /\ rest[j - 1] = Mirror(c, n)
  <2>1. j # 1
    BY <1>1, <1>3, MirrorInjective
  <2> QED
    BY <1>1, <1>3, <2>1
<1>4. Ordered(lane, c, T) => Ordered(rest, c, now)
  <2> SUFFICES ASSUME Ordered(lane, c, T), NEW i \in DOMAIN rest, NEW seq \in Seqs, rest[i] = Mirror(c, seq),
                      NEW n \in 1 .. seq - 1, n \notin now
               PROVE  \E j \in 1 .. i - 1 : rest[j] = Mirror(c, n)
    BY DEF Ordered
  <2>1. lane[i + 1] = Mirror(c, seq) /\ i + 1 \in DOMAIN lane
    BY <1>2
  <2>2. PICK j \in 1 .. (i + 1) - 1 : lane[j] = Mirror(c, n)
    BY <2>1 DEF Ordered
  <2>3. j \in DOMAIN lane /\ i \in Nat
    BY <1>1, <2>1, <2>2
  <2>4. j - 1 \in DOMAIN rest /\ rest[j - 1] = Mirror(c, n)
    BY <1>3, <2>2, <2>3
  <2>5. j - 1 \in 1 .. i - 1
    BY <1>1, <2>2, <2>3, <2>4
  <2> QED
    BY <2>4, <2>5
<1>5. Ordered(lane, c, T) => \A n \in 1 .. s - 1 : n \in T
  <2> SUFFICES ASSUME Ordered(lane, c, T), NEW n \in 1 .. s - 1, n \notin T PROVE FALSE
    OBVIOUS
  <2>1. \E j \in 1 .. 1 - 1 : lane[j] = Mirror(c, n)
    BY <1>1 DEF Ordered
  <2> QED
    BY <2>1
<1>6. Whole(lane, c, T, m) => Whole(rest, c, now, m)
  <2> SUFFICES ASSUME Whole(lane, c, T, m), NEW n \in 1 .. m, n \notin now
               PROVE  \E j \in DOMAIN rest : rest[j] = Mirror(c, n)
    BY DEF Whole
  <2>1. PICK j \in DOMAIN lane : lane[j] = Mirror(c, n)
    BY DEF Whole
  <2> QED
    BY <1>3, <2>1
<1>7. ASSUME Single(lane, c, T, m)
      PROVE  Single(rest, c, now, m) /\ s \notin T /\ s <= m
  <2>1. s \notin T /\ s <= m
    BY <1>1, <1>7 DEF Single
  <2>2. \A n \in now : n <= m
    BY <1>7, <2>1 DEF Single
  <2>3. ASSUME NEW i \in DOMAIN rest, NEW seq \in Seqs, rest[i] = Mirror(c, seq)
        PROVE  seq <= m /\ seq \notin now /\ \A j \in DOMAIN rest : rest[j] = rest[i] => j = i
    <3>1. lane[i + 1] = Mirror(c, seq) /\ i + 1 \in DOMAIN lane
      BY <1>2, <2>3
    <3>2. seq <= m /\ seq \notin T /\ \A j \in DOMAIN lane : lane[j] = lane[i + 1] => j = i + 1
      BY <1>7, <3>1 DEF Single
    <3>3. seq # s
      <4>1. CASE seq = s
        <5>1. 1 = i + 1
          BY <1>1, <3>1, <3>2, <4>1
        <5> QED
          BY <1>2, <5>1
      <4> QED
        BY <4>1
    <3>4. ASSUME NEW j \in DOMAIN rest, rest[j] = rest[i] PROVE j = i
      <4>1. j + 1 = i + 1
        BY <1>2, <3>2, <3>4
      <4> QED
        BY <1>2, <4>1
    <3> QED
      BY <3>2, <3>3, <3>4
  <2> QED
    BY <2>1, <2>2, <2>3 DEF Single
<1> QED
  BY <1>4, <1>5, <1>6, <1>7 DEF rest

\* A message of no event of c leaves the lane.
LEMMA LaneWithout ==
  ASSUME NEW lane \in Seq(Messages), NEW rest \in Seq(Messages), NEW k \in DOMAIN lane,
         Len(rest) = Len(lane) - 1,
         \A i \in 1 .. Len(rest) : rest[i] = IF i < k THEN lane[i] ELSE lane[i + 1],
         NEW c, \A seq \in Seqs : lane[k] # Mirror(c, seq),
         NEW T \in SUBSET Seqs, NEW m \in 0 .. MaxSeq
  PROVE  /\ Ordered(lane, c, T) => Ordered(rest, c, T)
         /\ Whole(lane, c, T, m) => Whole(rest, c, T, m)
         /\ Single(lane, c, T, m) => Single(rest, c, T, m)
<1> DEFINE Was(i) == IF i < k THEN i ELSE i + 1
<1>1. /\ DOMAIN lane = 1 .. Len(lane) /\ DOMAIN rest = 1 .. Len(lane) - 1
      /\ Len(lane) \in Nat /\ k \in 1 .. Len(lane)
  OBVIOUS
<1>2. \A i \in DOMAIN rest : Was(i) \in DOMAIN lane /\ rest[i] = lane[Was(i)]
  BY <1>1
<1>3. ASSUME NEW n \in Seqs, NEW j \in DOMAIN lane, lane[j] = Mirror(c, n)
      PROVE  \E i \in DOMAIN rest : rest[i] = Mirror(c, n) /\ Was(i) = j /\ i <= j
  <2>1. j # k
    BY <1>3
  <2>2. CASE j < k
    <3>1. j \in DOMAIN rest /\ Was(j) = j
      BY <1>1, <2>2
    <3> QED
      BY <1>1, <1>2, <1>3, <3>1
  <2>3. CASE j > k
    <3>1. j - 1 \in DOMAIN rest /\ Was(j - 1) = j /\ j - 1 <= j
      BY <1>1, <2>3
    <3> QED
      BY <1>2, <1>3, <3>1
  <2> QED
    BY <1>1, <2>1, <2>2, <2>3
<1>4. \A i, j \in DOMAIN rest : (Was(i) = Was(j) => i = j) /\ (Was(i) < Was(j) => i < j)
  BY <1>1
<1>5. Ordered(lane, c, T) => Ordered(rest, c, T)
  <2> SUFFICES ASSUME Ordered(lane, c, T), NEW i \in DOMAIN rest, NEW seq \in Seqs, rest[i] = Mirror(c, seq),
                      NEW n \in 1 .. seq - 1, n \notin T
               PROVE  \E j \in 1 .. i - 1 : rest[j] = Mirror(c, n)
    BY DEF Ordered
  <2>1. lane[Was(i)] = Mirror(c, seq) /\ Was(i) \in DOMAIN lane
    BY <1>2
  <2>2. PICK j \in 1 .. Was(i) - 1 : lane[j] = Mirror(c, n)
    BY <2>1 DEF Ordered
  <2>3. j \in DOMAIN lane /\ n \in Seqs /\ j < Was(i)
    BY <1>1, <2>1, <2>2, BoundAssumption DEF Seqs
  <2>4. PICK a \in DOMAIN rest : rest[a] = Mirror(c, n) /\ Was(a) = j
    BY <1>3, <2>2, <2>3
  <2>5. a < i
    BY <1>4, <2>3, <2>4
  <2>6. a \in 1 .. i - 1
    BY <1>1, <2>5
  <2> QED
    BY <2>4, <2>6
<1>6. Whole(lane, c, T, m) => Whole(rest, c, T, m)
  <2> SUFFICES ASSUME Whole(lane, c, T, m), NEW n \in 1 .. m, n \notin T
               PROVE  \E j \in DOMAIN rest : rest[j] = Mirror(c, n)
    BY DEF Whole
  <2>1. PICK j \in DOMAIN lane : lane[j] = Mirror(c, n)
    BY DEF Whole
  <2>2. n \in Seqs
    BY BoundAssumption DEF Seqs
  <2> QED
    BY <1>3, <2>1, <2>2
<1>7. ASSUME Single(lane, c, T, m), NEW i \in DOMAIN rest, NEW seq \in Seqs, rest[i] = Mirror(c, seq)
      PROVE  seq <= m /\ seq \notin T /\ \A j \in DOMAIN rest : rest[j] = rest[i] => j = i
  <2>1. lane[Was(i)] = Mirror(c, seq) /\ Was(i) \in DOMAIN lane
    BY <1>2, <1>7
  <2>2. seq <= m /\ seq \notin T /\ \A j \in DOMAIN lane : lane[j] = lane[Was(i)] => j = Was(i)
    BY <1>7, <2>1 DEF Single
  <2>3. ASSUME NEW j \in DOMAIN rest, rest[j] = rest[i] PROVE j = i
    <3>1. Was(j) = Was(i)
      BY <1>2, <2>2, <2>3
    <3> QED
      BY <1>4, <3>1
  <2> QED
    BY <2>2, <2>3
<1> QED
  BY <1>5, <1>6, <1>7 DEF Single

\* Messages of no event of c join the lane.
LEMMA LaneWithOthers ==
  ASSUME NEW lane \in Seq(Messages), NEW s \in Seq(Messages), NEW c,
         \A i \in DOMAIN s, seq \in Seqs : s[i] # Mirror(c, seq),
         NEW T \in SUBSET Seqs, NEW m \in Nat
  PROVE  /\ Ordered(lane, c, T) => Ordered(lane \o s, c, T)
         /\ Whole(lane, c, T, m) => Whole(lane \o s, c, T, m)
         /\ Single(lane, c, T, m) => Single(lane \o s, c, T, m)
<1> DEFINE r == lane \o s
<1>1. /\ DOMAIN lane = 1 .. Len(lane) /\ DOMAIN s = 1 .. Len(s) /\ DOMAIN r = 1 .. Len(lane) + Len(s)
      /\ Len(lane) \in Nat /\ Len(s) \in Nat
      /\ \A i \in 1 .. Len(lane) : r[i] = lane[i]
      /\ \A i \in 1 .. Len(s) : r[i + Len(lane)] = s[i]
  BY ConcatFacts
<1> HIDE DEF r
<1>2. ASSUME NEW i \in DOMAIN r, NEW seq \in Seqs, r[i] = Mirror(c, seq)
      PROVE  i \in DOMAIN lane /\ lane[i] = Mirror(c, seq)
  <2>1. CASE i <= Len(lane)
    BY <1>1, <1>2, <2>1
  <2>2. CASE i > Len(lane)
    <3>1. i - Len(lane) \in DOMAIN s /\ (i - Len(lane)) + Len(lane) = i
      BY <1>1, <2>2
    <3>2. r[i] = s[i - Len(lane)]
      BY <1>1, <3>1
    <3> QED
      BY <1>2, <3>1, <3>2
  <2> QED
    BY <1>1, <2>1, <2>2
<1>3. \A i \in DOMAIN lane : i \in DOMAIN r /\ r[i] = lane[i] /\ \A j \in 1 .. i - 1 : r[j] = lane[j]
  BY <1>1
<1>4. Ordered(lane, c, T) => Ordered(r, c, T)
  <2> SUFFICES ASSUME Ordered(lane, c, T), NEW i \in DOMAIN r, NEW seq \in Seqs, r[i] = Mirror(c, seq),
                      NEW n \in 1 .. seq - 1, n \notin T
               PROVE  \E j \in 1 .. i - 1 : r[j] = Mirror(c, n)
    BY DEF Ordered
  <2>1. i \in DOMAIN lane /\ lane[i] = Mirror(c, seq)
    BY <1>2
  <2>2. PICK j \in 1 .. i - 1 : lane[j] = Mirror(c, n)
    BY <2>1 DEF Ordered
  <2> QED
    BY <1>3, <2>1, <2>2
<1>5. Whole(lane, c, T, m) => Whole(r, c, T, m)
  BY <1>3 DEF Whole
<1>6. Single(lane, c, T, m) => Single(r, c, T, m)
  <2> SUFFICES ASSUME Single(lane, c, T, m), NEW i \in DOMAIN r, NEW seq \in Seqs, r[i] = Mirror(c, seq)
               PROVE  seq <= m /\ seq \notin T /\ \A j \in DOMAIN r : r[j] = r[i] => j = i
    BY DEF Single
  <2>1. i \in DOMAIN lane /\ lane[i] = Mirror(c, seq)
    BY <1>2
  <2>2. seq <= m /\ seq \notin T /\ \A j \in DOMAIN lane : lane[j] = lane[i] => j = i
    BY <2>1 DEF Single
  <2>3. ASSUME NEW j \in DOMAIN r, r[j] = r[i] PROVE j = i
    <3>1. j \in DOMAIN lane /\ lane[j] = Mirror(c, seq)
      BY <1>2, <2>3
    <3> QED
      BY <2>1, <2>2, <3>1
  <2> QED
    BY <2>2, <2>3
<1> QED
  BY <1>4, <1>5, <1>6 DEF r

\* The next event of c joins the lane.
LEMMA LaneMirrored ==
  ASSUME NEW lane \in Seq(Messages), NEW c \in Calls, NEW T \in SUBSET Seqs, NEW m \in Nat, m + 1 \in Seqs
  PROVE  LET longer == Append(lane, Mirror(c, m + 1)) IN
         /\ Ordered(lane, c, T) /\ Whole(lane, c, T, m) => Ordered(longer, c, T)
         /\ Whole(lane, c, T, m) => Whole(longer, c, T, m + 1)
         /\ Single(lane, c, T, m) => Single(longer, c, T, m + 1)
<1> DEFINE x == Mirror(c, m + 1)
           r == Append(lane, x)
<1>1. x \in Messages
  BY DEF Mirror, Messages, Mirrors
<1>2. /\ DOMAIN lane = 1 .. Len(lane) /\ DOMAIN r = 1 .. Len(lane) + 1 /\ Len(lane) \in Nat
      /\ r[Len(lane) + 1] = x /\ \A i \in 1 .. Len(lane) : r[i] = lane[i]
  BY <1>1, AppendFacts
<1> HIDE DEF r
<1>3. \A i \in DOMAIN r : (i \in DOMAIN lane /\ r[i] = lane[i]) \/ (i = Len(lane) + 1 /\ r[i] = x)
  BY <1>2
<1>4. \A i \in DOMAIN lane : i \in DOMAIN r /\ r[i] = lane[i] /\ \A j \in 1 .. i - 1 : r[j] = lane[j]
  BY <1>2
<1>5. Ordered(lane, c, T) /\ Whole(lane, c, T, m) => Ordered(r, c, T)
  <2> SUFFICES ASSUME Ordered(lane, c, T), Whole(lane, c, T, m),
                      NEW i \in DOMAIN r, NEW seq \in Seqs, r[i] = Mirror(c, seq),
                      NEW n \in 1 .. seq - 1, n \notin T
               PROVE  \E j \in 1 .. i - 1 : r[j] = Mirror(c, n)
    BY DEF Ordered
  <2>1. CASE i \in DOMAIN lane /\ r[i] = lane[i]
    <3>1. PICK j \in 1 .. i - 1 : lane[j] = Mirror(c, n)
      BY <2>1 DEF Ordered
    <3> QED
      BY <1>4, <2>1, <3>1
  <2>2. CASE i = Len(lane) + 1 /\ r[i] = x
    <3>1. seq = m + 1
      BY <2>2, MirrorInjective
    <3>2. n \in 1 .. m
      BY <3>1
    <3>3. PICK j \in DOMAIN lane : lane[j] = Mirror(c, n)
      BY <3>2 DEF Whole
    <3>4. j \in 1 .. i - 1
      BY <1>2, <2>2
    <3> QED
      BY <1>4, <3>3, <3>4
  <2> QED
    BY <1>3, <2>1, <2>2
<1>6. Whole(lane, c, T, m) => Whole(r, c, T, m + 1)
  <2> SUFFICES ASSUME Whole(lane, c, T, m), NEW n \in 1 .. m + 1, n \notin T
               PROVE  \E j \in DOMAIN r : r[j] = Mirror(c, n)
    BY DEF Whole
  <2>1. CASE n = m + 1
    <3>1. Len(lane) + 1 \in DOMAIN r
      BY <1>2
    <3> QED
      BY <1>2, <2>1, <3>1
  <2>2. CASE n # m + 1
    <3>1. n \in 1 .. m
      BY <2>2
    <3> QED
      BY <1>4, <3>1 DEF Whole
  <2> QED
    BY <2>1, <2>2
<1>7. Single(lane, c, T, m) => Single(r, c, T, m + 1)
  <2> SUFFICES ASSUME Single(lane, c, T, m) PROVE Single(r, c, T, m + 1)
    OBVIOUS
  <2>1. \A n \in T : n <= m /\ n <= m + 1 /\ n # m + 1
    BY DEF Single, Seqs
  <2>2. \A i \in DOMAIN lane : lane[i] # x
    <3> SUFFICES ASSUME NEW i \in DOMAIN lane, lane[i] = x PROVE FALSE
      OBVIOUS
    <3>1. m + 1 <= m
      BY DEF Single
    <3> QED
      BY <3>1
  <2>3. ASSUME NEW i \in DOMAIN r, NEW seq \in Seqs, r[i] = Mirror(c, seq)
        PROVE  seq <= m + 1 /\ seq \notin T /\ \A j \in DOMAIN r : r[j] = r[i] => j = i
    <3>1. CASE i \in DOMAIN lane /\ r[i] = lane[i]
      <4>1. seq <= m /\ seq \notin T /\ \A j \in DOMAIN lane : lane[j] = lane[i] => j = i
        BY <2>3, <3>1 DEF Single
      <4>2. \A j \in DOMAIN r : r[j] = r[i] => j \in DOMAIN lane /\ r[j] = lane[j]
        BY <1>3, <2>2, <3>1
      <4>3. seq <= m + 1
        BY <4>1 DEF Seqs
      <4> QED
        BY <3>1, <4>1, <4>2, <4>3
    <3>2. CASE i = Len(lane) + 1 /\ r[i] = x
      <4>1. seq = m + 1
        BY <2>3, <3>2, MirrorInjective
      <4>2. \A j \in DOMAIN r : r[j] = r[i] => j = i
        BY <1>3, <2>2, <3>2
      <4> QED
        BY <2>1, <4>1, <4>2
    <3> QED
      BY <1>3, <2>3, <3>1, <3>2
  <2> QED
    BY <2>1, <2>3 DEF Single
<1> QED
  BY <1>5, <1>6, <1>7 DEF r

\* An answer, and the n events of a child found again.
Replays(s, c, n) ==
    /\ Len(s) = n + 1 /\ \A seq \in Seqs : s[1] # Mirror(c, seq)
    /\ \A i \in 1 .. n : s[i + 1] = Mirror(c, i)

\* The events of a child found again join the lane, behind the answer.
LEMMA LaneReplayed ==
  ASSUME NEW lane \in Seq(Messages), NEW c, NEW s \in Seq(Messages), NEW n \in 0 .. MaxSeq,
         Replays(s, c, n),
         NEW T \in SUBSET Seqs, NEW m \in 0 .. n
  PROVE  /\ Ordered(lane, c, T) => Ordered(lane \o s, c, T)
         /\ Whole(lane \o s, c, T, m)
<1> DEFINE r == lane \o s
<1>1. /\ DOMAIN lane = 1 .. Len(lane) /\ DOMAIN s = 1 .. Len(s) /\ DOMAIN r = 1 .. Len(lane) + Len(s)
      /\ Len(lane) \in Nat /\ Len(s) \in Nat
      /\ \A i \in 1 .. Len(lane) : r[i] = lane[i]
      /\ \A i \in 1 .. Len(s) : r[i + Len(lane)] = s[i]
  BY ConcatFacts
<1> HIDE DEF r
<1>2. \A i \in DOMAIN lane : i \in DOMAIN r /\ r[i] = lane[i] /\ \A j \in 1 .. i - 1 : r[j] = lane[j]
  BY <1>1
<1>3. ASSUME NEW i \in 1 .. n
      PROVE  /\ i + 1 + Len(lane) \in DOMAIN r /\ r[i + 1 + Len(lane)] = Mirror(c, i)
  <2>1. i + 1 \in 1 .. Len(s) /\ s[i + 1] = Mirror(c, i)
    BY DEF Replays
  <2> QED
    BY <1>1, <2>1
<1>4. Whole(r, c, T, m)
  <2> SUFFICES ASSUME NEW a \in 1 .. m PROVE \E j \in DOMAIN r : r[j] = Mirror(c, a)
    BY DEF Whole
  <2>1. a \in 1 .. n
    OBVIOUS
  <2> QED
    BY <1>3, <2>1
<1>5. Ordered(lane, c, T) => Ordered(r, c, T)
  <2> SUFFICES ASSUME Ordered(lane, c, T), NEW i \in DOMAIN r, NEW seq \in Seqs, r[i] = Mirror(c, seq),
                      NEW a \in 1 .. seq - 1, a \notin T
               PROVE  \E j \in 1 .. i - 1 : r[j] = Mirror(c, a)
    BY DEF Ordered
  <2>1. CASE i <= Len(lane)
    <3>1. i \in DOMAIN lane /\ lane[i] = Mirror(c, seq)
      BY <1>1, <2>1
    <3>2. PICK j \in 1 .. i - 1 : lane[j] = Mirror(c, a)
      BY <3>1 DEF Ordered
    <3> QED
      BY <1>2, <3>1, <3>2
  <2>2. CASE i > Len(lane)
    <3>0. PICK k : k = i - Len(lane)
      OBVIOUS
    <3>1. k \in 1 .. n + 1 /\ k + Len(lane) = i
      BY <1>1, <2>2, <3>0 DEF Replays
    <3>2. r[i] = s[k]
      BY <1>1, <3>1
    <3>3. k # 1
      BY <3>2 DEF Replays
    <3>4. k - 1 \in 1 .. n /\ (k - 1) + 1 = k
      BY <3>1, <3>3
    <3>5. s[k] = Mirror(c, k - 1)
      BY <3>4 DEF Replays
    <3>6. seq = k - 1
      <4>1. Mirror(c, seq) = Mirror(c, k - 1)
        BY <3>2, <3>5
      <4> QED
        BY <4>1, MirrorInjective
    <3>7. a \in 1 .. n /\ a + 1 < k
      BY <3>1, <3>4, <3>6
    <3>8. a + 1 + Len(lane) \in 1 .. i - 1
      BY <1>1, <3>1, <3>7
    <3> QED
      BY <1>3, <3>7, <3>8
  <2> QED
    BY <1>1, <2>1, <2>2
<1> QED
  BY <1>4, <1>5 DEF r

\* The lane of a call is a sequence of messages, its events first.
LEMMA MarkedFacts ==
  ASSUME NEW c \in Calls, NEW b \in Seq(Seqs)
  PROVE  /\ Marked(c, b) \in Seq(Messages) /\ Len(Marked(c, b)) = Len(b)
         /\ \A i \in 1 .. Len(b) : Marked(c, b)[i] = Mirror(c, b[i])
<1>1. Len(b) \in Nat /\ \A i \in 1 .. Len(b) : b[i] \in Seqs
  OBVIOUS
<1>2. \A i \in 1 .. Len(b) : Mirror(c, b[i]) \in Messages
  BY <1>1 DEF Mirror, Messages, Mirrors
<1>3. Marked(c, b) \in [1 .. Len(b) -> Messages]
  BY <1>2 DEF Marked
<1> QED
  BY <1>1, <1>3 DEF Marked

IsLane(l, c, b, w) ==
    /\ l \in Seq(Messages) /\ Len(l) = Len(b) + Len(w)
    /\ \A i \in 1 .. Len(b) : l[i] = Mirror(c, b[i])
    /\ \A i \in 1 .. Len(w) : l[i + Len(b)] = w[i]

LEMMA LaneItems ==
  ASSUME NEW c \in Calls, NEW b \in Seq(Seqs), NEW w \in Seq(Messages)
  PROVE  IsLane(Marked(c, b) \o w, c, b, w)
<1> DEFINE p == Marked(c, b)
<1>1. p \in Seq(Messages) /\ Len(p) = Len(b) /\ \A i \in 1 .. Len(b) : p[i] = Mirror(c, b[i])
  BY MarkedFacts
<1> HIDE DEF p
<1>2. p \in Seq(Messages)
  BY <1>1
<1>3. /\ p \o w \in Seq(Messages) /\ Len(p \o w) = Len(p) + Len(w)
      /\ \A i \in 1 .. Len(p) : (p \o w)[i] = p[i]
      /\ \A i \in 1 .. Len(w) : (p \o w)[i + Len(p)] = w[i]
  BY <1>2, ConcatFacts
<1> QED
  BY <1>1, <1>3 DEF IsLane, p

LEMMA LaneOnly ==
  ASSUME NEW c \in Calls, NEW b \in Seq(Seqs), NEW w \in Seq(Messages), NEW l, IsLane(l, c, b, w)
  PROVE  l = Marked(c, b) \o w
<1> DEFINE k == Marked(c, b) \o w
<1>1. IsLane(k, c, b, w)
  BY LaneItems
<1>2. Len(b) \in Nat /\ Len(w) \in Nat
  OBVIOUS
<1> HIDE DEF k
<1>3. ASSUME NEW i \in 1 .. Len(b) + Len(w)
      PROVE  l[i] = k[i]
  <2>1. CASE i <= Len(b)
    <3>1. i \in 1 .. Len(b)
      BY <1>2, <2>1
    <3> QED
      BY <1>1, <3>1 DEF IsLane
  <2>2. CASE i > Len(b)
    <3>1. i - Len(b) \in 1 .. Len(w) /\ (i - Len(b)) + Len(b) = i
      BY <1>2, <2>2
    <3>2. l[i] = w[i - Len(b)] /\ k[i] = w[i - Len(b)]
      BY <1>1, <3>1 DEF IsLane
    <3> QED
      BY <3>2
  <2> QED
    BY <1>2, <2>1, <2>2
<1>4. l = k
  BY <1>1, <1>3, EqualSeqs DEF IsLane
<1> QED
  BY <1>4 DEF k

\* An event the agent hands over stays where it is in the lane.
LEMMA LaneHandedOver ==
  ASSUME NEW c \in Calls, NEW b \in Seq(Seqs), NEW w \in Seq(Messages), w # <<>>,
         NEW s \in Seqs, Head(w) = Mirror(c, s)
  PROVE  Marked(c, Append(b, s)) \o Tail(w) = Marked(c, b) \o w
<1> DEFINE a == Append(b, s)
           v == Tail(w)
           l == Marked(c, b) \o w
           n == Len(b)
<1>1. /\ a \in Seq(Seqs) /\ Len(a) = n + 1 /\ n \in Nat
      /\ a[n + 1] = s /\ \A i \in 1 .. n : a[i] = b[i]
  BY AppendFacts
<1>2. /\ v \in Seq(Messages) /\ Len(v) = Len(w) - 1 /\ Len(w) \in Nat \ {0}
      /\ w[1] = Mirror(c, s) /\ \A i \in 1 .. Len(w) - 1 : v[i] = w[i + 1]
  BY TailFacts
<1>3. IsLane(l, c, b, w)
  BY LaneItems
<1> HIDE DEF a, v, l
<1>4. /\ l \in Seq(Messages) /\ Len(l) = n + Len(w)
      /\ \A i \in 1 .. n : l[i] = Mirror(c, b[i])
      /\ \A i \in 1 .. Len(w) : l[i + n] = w[i]
  BY <1>3 DEF IsLane
<1> HIDE DEF n
<1>5. Len(l) = Len(a) + Len(v)
  BY <1>1, <1>2, <1>4
<1>6. ASSUME NEW i \in 1 .. Len(a) PROVE l[i] = Mirror(c, a[i])
  <2>1. CASE i \in 1 .. n
    BY <1>1, <1>4, <2>1
  <2>2. CASE i = n + 1
    <3>1. 1 \in 1 .. Len(w) /\ 1 + n = n + 1
      BY <1>1, <1>2
    <3>2. l[1 + n] = w[1]
      BY <1>4, <3>1
    <3> QED
      BY <1>1, <1>2, <2>2, <3>1, <3>2
  <2> QED
    BY <1>1, <2>1, <2>2
<1>7. ASSUME NEW i \in 1 .. Len(v) PROVE l[i + Len(a)] = v[i]
  <2>1. i \in 1 .. Len(w) - 1 /\ i + 1 \in 1 .. Len(w) /\ i + Len(a) = (i + 1) + n
    BY <1>1, <1>2
  <2>2. l[(i + 1) + n] = w[i + 1]
    BY <1>4, <2>1
  <2>3. v[i] = w[i + 1]
    BY <1>2, <2>1
  <2> QED
    BY <2>1, <2>2, <2>3
<1>8. IsLane(l, c, a, v)
  BY <1>4, <1>5, <1>6, <1>7 DEF IsLane
<1>9. l = Marked(c, a) \o v
  BY <1>1, <1>2, <1>8, LaneOnly
<1> QED
  BY <1>9 DEF a, v, l

\* The generator takes the head of its lane.
LEMMA LaneTail ==
  ASSUME NEW c \in Calls, NEW b \in Seq(Seqs), NEW w \in Seq(Messages), b # <<>>
  PROVE  /\ Marked(c, b) \o w # <<>> /\ Head(Marked(c, b) \o w) = Mirror(c, Head(b))
         /\ Tail(Marked(c, b) \o w) = Marked(c, Tail(b)) \o w
<1> DEFINE t == Tail(b)
           l == Marked(c, b) \o w
           r == Tail(l)
           n == Len(b)
<1>1. /\ t \in Seq(Seqs) /\ Len(t) = n - 1 /\ Head(b) = b[1] /\ n \in Nat \ {0}
      /\ \A i \in 1 .. n - 1 : t[i] = b[i + 1]
  BY TailFacts
<1>2. IsLane(l, c, b, w)
  BY LaneItems
<1> HIDE DEF t, l
<1>3. /\ l \in Seq(Messages) /\ Len(l) = n + Len(w)
      /\ \A i \in 1 .. n : l[i] = Mirror(c, b[i])
      /\ \A i \in 1 .. Len(w) : l[i + n] = w[i]
  BY <1>2 DEF IsLane
<1>4. Len(w) \in Nat
  OBVIOUS
<1> HIDE DEF n
<1>5. l \in Seq(Messages) /\ l # <<>>
  BY <1>1, <1>3, <1>4
<1>6. /\ r \in Seq(Messages) /\ Len(r) = Len(l) - 1 /\ Head(l) = l[1]
      /\ \A i \in 1 .. Len(l) - 1 : r[i] = l[i + 1]
  BY <1>5, TailFacts
<1> HIDE DEF r
<1>7. Len(r) = Len(t) + Len(w)
  BY <1>1, <1>3, <1>4, <1>6
<1>8. ASSUME NEW i \in 1 .. Len(t) PROVE r[i] = Mirror(c, t[i])
  <2>1. i \in 1 .. n - 1 /\ i + 1 \in 1 .. n /\ i \in 1 .. Len(l) - 1
    BY <1>1, <1>3, <1>4
  <2>2. l[i + 1] = Mirror(c, b[i + 1])
    BY <1>3, <2>1
  <2> QED
    BY <1>1, <1>6, <2>1, <2>2
<1>9. ASSUME NEW i \in 1 .. Len(w) PROVE r[i + Len(t)] = w[i]
  <2>1. i + Len(t) \in 1 .. Len(l) - 1 /\ (i + Len(t)) + 1 = i + n
    BY <1>1, <1>3, <1>4
  <2>2. r[i + Len(t)] = l[(i + Len(t)) + 1]
    BY <1>6, <2>1
  <2> QED
    BY <1>3, <2>1, <2>2
<1>10. IsLane(r, c, t, w)
  BY <1>6, <1>7, <1>8, <1>9 DEF IsLane
<1>11. r = Marked(c, t) \o w
  BY <1>1, <1>10, LaneOnly
<1>12. Head(l) = Mirror(c, Head(b))
  <2>1. 1 \in 1 .. n
    BY <1>1
  <2> QED
    BY <1>1, <1>3, <1>6, <2>1
<1> QED
  BY <1>5, <1>11, <1>12 DEF t, l, r

\* The agent hands over a message of no event of c.
LEMMA LanePassed ==
  ASSUME NEW c \in Calls, NEW b \in Seq(Seqs), NEW w \in Seq(Messages), w # <<>>,
         \A seq \in Seqs : Head(w) # Mirror(c, seq),
         NEW T \in SUBSET Seqs, NEW m \in 0 .. MaxSeq
  PROVE  LET lane == Marked(c, b) \o w
             rest == Marked(c, b) \o Tail(w)
         IN /\ Ordered(lane, c, T) => Ordered(rest, c, T)
            /\ Whole(lane, c, T, m) => Whole(rest, c, T, m)
            /\ Single(lane, c, T, m) => Single(rest, c, T, m)
<1> DEFINE v == Tail(w)
           l == Marked(c, b) \o w
           r == Marked(c, b) \o v
           n == Len(b)
<1>1. /\ v \in Seq(Messages) /\ Len(v) = Len(w) - 1 /\ Len(w) \in Nat \ {0}
      /\ w[1] = Head(w) /\ \A i \in 1 .. Len(w) - 1 : v[i] = w[i + 1]
  BY TailFacts
<1>2. IsLane(l, c, b, w) /\ IsLane(r, c, b, v)
  BY <1>1, LaneItems
<1> HIDE DEF v, l, r
<1>3. /\ l \in Seq(Messages) /\ Len(l) = n + Len(w)
      /\ \A i \in 1 .. n : l[i] = Mirror(c, b[i])
      /\ \A i \in 1 .. Len(w) : l[i + n] = w[i]
  BY <1>2 DEF IsLane
<1>4. /\ r \in Seq(Messages) /\ Len(r) = n + Len(v)
      /\ \A i \in 1 .. n : r[i] = Mirror(c, b[i])
      /\ \A i \in 1 .. Len(v) : r[i + n] = v[i]
  BY <1>2 DEF IsLane
<1>5. n \in Nat
  OBVIOUS
<1> HIDE DEF n
<1>6. Len(r) = Len(l) - 1 /\ Len(r) = n + (Len(w) - 1)
  BY <1>1, <1>3, <1>4, <1>5
<1>7. n + 1 \in DOMAIN l /\ \A seq \in Seqs : l[n + 1] # Mirror(c, seq)
  <2>1. 1 \in 1 .. Len(w) /\ 1 + n = n + 1
    BY <1>1, <1>5
  <2>2. l[1 + n] = w[1]
    BY <1>3, <2>1
  <2>3. n + 1 \in 1 .. Len(l)
    BY <1>1, <1>3, <1>5
  <2> QED
    BY <1>1, <1>3, <2>1, <2>2, <2>3
<1>8. ASSUME NEW i \in 1 .. Len(r)
      PROVE  r[i] = IF i < n + 1 THEN l[i] ELSE l[i + 1]
  <2>1. CASE i \in 1 .. n
    BY <1>3, <1>4, <1>5, <2>1
  <2>2. CASE i > n
    <3>1. PICK j \in 1 .. Len(w) - 1 : j + n = i /\ (j + 1) + n = i + 1 /\ j + 1 \in 1 .. Len(w)
      <4>1. i - n \in 1 .. Len(w) - 1
        BY <1>1, <1>5, <1>6, <2>2
      <4> QED
        BY <1>1, <1>5, <4>1
    <3>2. r[j + n] = v[j]
      BY <1>1, <1>4, <3>1
    <3>3. l[(j + 1) + n] = w[j + 1]
      BY <1>3, <3>1
    <3>4. r[i] = l[i + 1]
      BY <1>1, <3>1, <3>2, <3>3
    <3>5. ~(i < n + 1)
      BY <1>5, <2>2
    <3> QED
      BY <3>4, <3>5
  <2> QED
    BY <1>5, <1>6, <2>1, <2>2
<1>9. /\ Ordered(l, c, T) => Ordered(r, c, T)
      /\ Whole(l, c, T, m) => Whole(r, c, T, m)
      /\ Single(l, c, T, m) => Single(r, c, T, m)
  BY <1>3, <1>4, <1>6, <1>7, <1>8, LaneWithout
<1> QED
  BY <1>9 DEF v, l, r

\* What joins the socket joins the lane.
LEMMA LaneJoined ==
  ASSUME NEW c \in Calls, NEW b \in Seq(Seqs), NEW w \in Seq(Messages), NEW s \in Seq(Messages)
  PROVE  Marked(c, b) \o (w \o s) = (Marked(c, b) \o w) \o s
<1> DEFINE p == Marked(c, b)
<1>1. p \in Seq(Messages)
  BY MarkedFacts
<1> HIDE DEF p
<1>2. p \o (w \o s) = (p \o w) \o s
  BY <1>1, ConcatAssociative
<1> QED
  BY <1>2 DEF p

\* The messages of the socket, told apart.
LEMMA Kinds ==
  ASSUME NEW m \in Messages
  PROVE  /\ m \in Mirrors => /\ m.call \in Calls /\ m.seq \in Seqs /\ m = Mirror(m.call, m.seq)
                             /\ \A c : m \notin Answers(c) /\ (m \in MirrorsOf(c) <=> m.call = c)
                             /\ m \notin Responses
         /\ m \in Responses => /\ m.call \in Calls /\ m.answer \in {"task", "error"}
                               /\ \A c : m \notin MirrorsOf(c) /\ (m \in Answers(c) <=> m.call = c)
                               /\ \A c, seq : m # Mirror(c, seq)
                               /\ m \notin Mirrors
         /\ m \in Mirrors \/ m \in Responses
         /\ \A c \in Calls, seq \in Seqs : m = Mirror(c, seq) => m \in MirrorsOf(c)
<1>1. m \in Mirrors \/ m \in Responses
  BY DEF Messages
<1>2. CASE m \in Mirrors
  <2>1. PICK c0 \in Calls, s0 \in Seqs : m = [call |-> c0, seq |-> s0]
    BY <1>2 DEF Mirrors
  <2>2. m.call = c0 /\ m.seq = s0 /\ DOMAIN m = {"call", "seq"}
    BY <2>1
  <2>3. \A x \in Responses : DOMAIN x = {"call", "answer"}
    BY DEF Responses
  <2>4. \A c : \A x \in Answers(c) : DOMAIN x = {"call", "answer"}
    BY DEF Answers
  <2>5. {"call", "answer"} # {"call", "seq"}
    <3>1. "seq" \notin {"call", "answer"}
      OBVIOUS
    <3> QED
      BY <3>1
  <2>6. \A c : m \in MirrorsOf(c) <=> m.call = c
    BY <2>1, <2>2 DEF MirrorsOf
  <2>7. m \notin Responses /\ \A c : m \notin Answers(c)
    BY <2>2, <2>3, <2>4, <2>5
  <2>8. \A c \in Calls, seq \in Seqs : m = Mirror(c, seq) => m \in MirrorsOf(c)
    BY DEF Mirror, MirrorsOf
  <2> QED
    BY <1>2, <2>1, <2>2, <2>6, <2>7, <2>8 DEF Mirror
<1>3. CASE m \in Responses
  <2>1. PICK c0 \in Calls, a0 \in {"task", "error"} : m = [call |-> c0, answer |-> a0]
    BY <1>3 DEF Responses
  <2>2. m.call = c0 /\ m.answer = a0 /\ DOMAIN m = {"call", "answer"}
    BY <2>1
  <2>3. \A c, seq : DOMAIN Mirror(c, seq) = {"call", "seq"}
    BY DEF Mirror
  <2>4. \A c : \A x \in MirrorsOf(c) : DOMAIN x = {"call", "seq"}
    BY DEF MirrorsOf
  <2>5. \A x \in Mirrors : DOMAIN x = {"call", "seq"}
    BY DEF Mirrors
  <2>6. {"call", "answer"} # {"call", "seq"}
    <3>1. "seq" \notin {"call", "answer"}
      OBVIOUS
    <3> QED
      BY <3>1
  <2>7. \A c : m \in Answers(c) <=> m.call = c
    BY <2>1, <2>2 DEF Answers
  <2>8. \A c : m \notin MirrorsOf(c)
    BY <2>2, <2>4, <2>6
  <2>9. \A c, seq : m # Mirror(c, seq)
    BY <2>2, <2>3, <2>6
  <2>10. m \notin Mirrors
    BY <2>2, <2>5, <2>6
  <2> QED
    BY <1>3, <2>1, <2>2, <2>7, <2>8, <2>9, <2>10
<1> QED
  BY <1>1, <1>2, <1>3

-----------------------------------------------------------------------------
(* Type correctness.                                                       *)

GeneratorOK ==
    /\ pc \in [Calls -> {"idle", "asking", "streaming", "yielded", "cancelling", "interrupting", "done"}]
    /\ outcome \in [Calls -> {"none", "ended", "answered", "refused", "cancelled", "closed"}]
    /\ taken \in [Calls -> Seq(Seqs)]
PostmanOK ==
    /\ pending \in SUBSET Calls /\ answer \in [Calls -> {"none", "task", "error"}]
    /\ queues \in SUBSET Calls /\ queue \in [Calls -> Seq(Seqs)] /\ orphans \in [Calls -> Seq(Seqs)]
SocketOK == toServer \in Seq(Requests) /\ toAgent \in Seq(Messages)
ServerOK ==
    /\ owed \in SUBSET Calls /\ answered \in SUBSET Calls
    /\ count \in [Calls -> 0 .. MaxSeq] /\ ending \in [Calls -> Endings \cup {"none"}]
    /\ mirrored \in [Calls -> 0 .. MaxSeq]

LEMMA TypeParts ==
  TypeOK <=> /\ earlier \subseteq Calls \ Questions /\ escalating \subseteq Calls /\ liveFirst \in BOOLEAN
             /\ GeneratorOK /\ PostmanOK /\ SocketOK /\ ServerOK /\ cancelSent \in SUBSET Calls
BY DEF TypeOK, GeneratorOK, PostmanOK, SocketOK, ServerOK, Messages

LEMMA InitType == Init => TypeOK
<1> SUFFICES ASSUME Init PROVE TypeOK
  OBVIOUS
<1>1. GeneratorOK
  BY DEF Init, GeneratorOK
<1>2. PostmanOK /\ SocketOK
  BY DEF Init, PostmanOK, SocketOK
<1>3. ServerOK
  <2>1. PICK n \in [earlier -> 0 .. MaxSeq], over \in SUBSET earlier, told \in [earlier -> 0 .. MaxSeq] :
          /\ \A c \in earlier : told[c] <= n[c] /\ (c \in over <=> n[c] = MaxSeq)
          /\ count = [c \in Calls |-> IF c \in earlier THEN n[c] ELSE 0]
          /\ mirrored = [c \in Calls |-> IF c \in earlier THEN told[c] ELSE 0]
          /\ ending = [c \in Calls |-> IF c \in over THEN "completed" ELSE "none"]
    BY Zenon DEF Init
  <2>2. count \in [Calls -> 0 .. MaxSeq] /\ mirrored \in [Calls -> 0 .. MaxSeq]
    BY <2>1, BoundAssumption
  <2>3. ending \in [Calls -> Endings \cup {"none"}]
    BY <2>1 DEF Endings
  <2> QED
    BY <2>2, <2>3 DEF Init, ServerOK
<1>4. earlier \subseteq Calls \ Questions /\ escalating \subseteq Calls /\ liveFirst \in BOOLEAN
      /\ cancelSent \in SUBSET Calls
  BY DEF Init
<1> QED
  BY <1>1, <1>2, <1>3, <1>4, TypeParts

LEMMA CleanUpType == ASSUME PostmanOK, NEW c \in Calls, CleanUp(c), UNCHANGED answer PROVE PostmanOK'
<1>1. <<>> \in Seq(Seqs)
  OBVIOUS
<1> QED
  BY <1>1 DEF PostmanOK, CleanUp

LEMMA EndType ==
  ASSUME GeneratorOK, PostmanOK, NEW c \in Calls, NEW how \in {"ended", "answered", "refused", "cancelled", "closed"},
         End(c, how), UNCHANGED <<answer, taken>>
  PROVE  GeneratorOK' /\ PostmanOK'
<1>1. PostmanOK'
  BY CleanUpType DEF End
<1>2. GeneratorOK'
  BY DEF GeneratorOK, End
<1> QED
  BY <1>1, <1>2

LEMMA BoundType == ASSUME PostmanOK, NEW c \in Calls, Bound(c), UNCHANGED pending,
                          answer' \in [Calls -> {"none", "task", "error"}]
                   PROVE  PostmanOK'
<1>1. queue[c] \o orphans[c] \in Seq(Seqs) /\ <<>> \in Seq(Seqs)
  BY ConcatFacts DEF PostmanOK
<1> QED
  BY <1>1 DEF PostmanOK, Bound

\* The generator's pc moves on.
LEMMA MovesOn ==
  ASSUME GeneratorOK, NEW c \in Calls,
         NEW to \in {"asking", "streaming", "yielded", "cancelling", "interrupting"},
         pc' = [pc EXCEPT ![c] = to], UNCHANGED outcome, taken' \in [Calls -> Seq(Seqs)]
  PROVE  GeneratorOK'
BY DEF GeneratorOK

LEMMA RequestType ==
  ASSUME SocketOK, NEW c \in Calls, NEW type \in {"ASSIGN_REQUEST", "CANCEL_REQUEST", "INTERRUPT_REQUEST"},
         toServer' = Append(toServer, Request(type, c)), UNCHANGED toAgent
  PROVE  SocketOK'
<1>1. Request(type, c) \in Requests
  BY DEF Request, Requests
<1> QED
  BY <1>1, AppendFacts DEF SocketOK

LEMMA GeneratorSteps ==
  ASSUME TypeOK, NEW c \in Calls,
         \/ Ask(c) \/ Answered(c) \/ Take(c) \/ Resume(c) \/ CancelAsking(c) \/ CancelStreaming(c)
         \/ Close(c) \/ Drain(c) \/ Unconfirmed(c) \/ CancelAgain(c)
  PROVE  GeneratorOK' /\ PostmanOK' /\ SocketOK' /\ ServerOK' /\ cancelSent' \in SUBSET Calls
<1>1. GeneratorOK /\ PostmanOK /\ SocketOK /\ ServerOK /\ cancelSent \in SUBSET Calls
  BY TypeParts
<1>2. taken \in [Calls -> Seq(Seqs)] /\ queue \in [Calls -> Seq(Seqs)] /\ answer \in [Calls -> {"none", "task", "error"}]
  BY <1>1 DEF GeneratorOK, PostmanOK
<1>3. CASE Ask(c)
  <2>1. GeneratorOK'
    BY <1>1, <1>2, <1>3, MovesOn DEF Ask
  <2>2. SocketOK'
    BY <1>1, <1>3, RequestType DEF Ask
  <2> QED
    BY <1>1, <1>3, <2>1, <2>2 DEF Ask, PostmanOK, ServerOK, server
<1>4. CASE Answered(c)
  <2>1. CASE \E how \in {"refused", "answered"} : End(c, how)
    <3>1. PICK how \in {"refused", "answered"} : End(c, how)
      BY <2>1
    <3> QED
      BY <1>1, <1>4, <3>1, EndType DEF Answered, SocketOK, ServerOK, server
  <2>2. CASE pc' = [pc EXCEPT ![c] = "streaming"] /\ Bound(c) /\ UNCHANGED <<outcome, pending>>
    <3>1. GeneratorOK'
      BY <1>1, <1>2, <1>4, <2>2, MovesOn DEF Answered
    <3>2. PostmanOK'
      BY <1>1, <1>2, <1>4, <2>2, BoundType DEF Answered
    <3> QED
      BY <1>1, <1>4, <3>1, <3>2 DEF Answered, SocketOK, ServerOK, server
  <2> QED
    BY <1>4, <2>1, <2>2 DEF Answered
<1>5. CASE Take(c)
  <2> DEFINE s == Head(queue[c])
  <2>1. Tail(queue[c]) \in Seq(Seqs) /\ s \in Seqs
    BY <1>2, <1>5, TailFacts DEF Take
  <2>2. PostmanOK'
    BY <1>1, <1>5, <2>1 DEF Take, PostmanOK
  <2>3. CASE UNCHANGED generator
    BY <1>1, <1>5, <2>2, <2>3 DEF Take, generator, GeneratorOK, SocketOK, ServerOK, server
  <2>4. CASE taken' = [taken EXCEPT ![c] = Append(@, s)] /\ UNCHANGED outcome
             /\ (pc' = [pc EXCEPT ![c] = "yielded"] \/ pc' = pc)
    <3>1. Append(taken[c], s) \in Seq(Seqs)
      BY <1>2, <2>1, AppendFacts
    <3>2. taken' \in [Calls -> Seq(Seqs)]
      BY <1>2, <2>4, <3>1
    <3>3. GeneratorOK'
      BY <1>1, <2>4, <3>2 DEF GeneratorOK
    <3> QED
      BY <1>1, <1>5, <2>2, <3>3 DEF Take, SocketOK, ServerOK, server
  <2> QED
    BY <1>5, <2>3, <2>4 DEF Take
<1>6. CASE Resume(c)
  <2>1. CASE End(c, "ended")
    BY <1>1, <1>6, <2>1, EndType DEF Resume, SocketOK, ServerOK, server
  <2>2. CASE pc' = [pc EXCEPT ![c] = "streaming"] /\ UNCHANGED <<outcome, pending, queues, queue, orphans>>
    <3>1. GeneratorOK'
      BY <1>1, <1>2, <1>6, <2>2, MovesOn DEF Resume
    <3> QED
      BY <1>1, <1>6, <2>2, <3>1 DEF Resume, PostmanOK, SocketOK, ServerOK, server
  <2> QED
    BY <1>6, <2>1, <2>2 DEF Resume
<1>7. CASE CancelAsking(c) \/ CancelAgain(c)
  BY <1>1, <1>7, EndType DEF CancelAsking, CancelAgain, SocketOK, ServerOK, server
<1>8. CASE CancelStreaming(c)
  <2>1. GeneratorOK'
    BY <1>1, <1>2, <1>8, MovesOn DEF CancelStreaming
  <2>2. SocketOK' /\ cancelSent' \in SUBSET Calls
    BY <1>1, <1>8, RequestType DEF CancelStreaming, SendCancel
  <2> QED
    BY <1>1, <1>8, <2>1, <2>2 DEF CancelStreaming, PostmanOK, postman, ServerOK, server
<1>9. CASE Close(c)
  <2>1. GeneratorOK' /\ PostmanOK'
    BY <1>1, <1>9, EndType DEF Close
  <2>2. SocketOK' /\ cancelSent' \in SUBSET Calls
    BY <1>1, <1>9, RequestType DEF Close, SendCancel
  <2> QED
    BY <1>1, <1>9, <2>1, <2>2 DEF Close, ServerOK, server
<1>10. CASE Drain(c)
  <2>1. CASE End(c, "cancelled")
    BY <1>1, <1>10, <2>1, EndType DEF Drain, SocketOK, ServerOK, server
  <2>2. CASE queue' = [queue EXCEPT ![c] = Tail(@)] /\ UNCHANGED <<pc, outcome, pending, queues, orphans>>
    <3>1. Tail(queue[c]) \in Seq(Seqs)
      BY <1>2, <1>10, TailFacts DEF Drain
    <3>2. PostmanOK'
      BY <1>1, <1>10, <2>2, <3>1 DEF Drain, PostmanOK
    <3> QED
      BY <1>1, <1>10, <2>2, <3>2 DEF Drain, GeneratorOK, SocketOK, ServerOK, server
  <2> QED
    BY <1>10, <2>1, <2>2 DEF Drain
<1>11. CASE Unconfirmed(c)
  <2>1. CASE End(c, "cancelled") /\ UNCHANGED toServer
    BY <1>1, <1>11, <2>1, EndType DEF Unconfirmed, SocketOK, ServerOK, server
  <2>2. CASE /\ pc' = [pc EXCEPT ![c] = "interrupting"]
             /\ toServer' = Append(toServer, Request("INTERRUPT_REQUEST", c))
             /\ UNCHANGED <<outcome, pending, queues, queue, orphans>>
    <3>1. GeneratorOK'
      BY <1>1, <1>2, <1>11, <2>2, MovesOn DEF Unconfirmed
    <3>2. SocketOK'
      BY <1>1, <1>11, <2>2, RequestType DEF Unconfirmed
    <3> QED
      BY <1>1, <1>11, <2>2, <3>1, <3>2 DEF Unconfirmed, PostmanOK, ServerOK, server
  <2> QED
    BY <1>11, <2>1, <2>2 DEF Unconfirmed
<1> QED
  BY <1>3, <1>4, <1>5, <1>6, <1>7, <1>8, <1>9, <1>10, <1>11

LEMMA AgentSteps ==
  ASSUME TypeOK, HandleResponse \/ HandleEvent
  PROVE  GeneratorOK' /\ PostmanOK' /\ SocketOK' /\ ServerOK' /\ cancelSent' \in SUBSET Calls
<1>1. GeneratorOK /\ PostmanOK /\ SocketOK /\ ServerOK /\ cancelSent \in SUBSET Calls
  BY TypeParts
<1>2. GeneratorOK' /\ ServerOK' /\ cancelSent' \in SUBSET Calls
  BY <1>1 DEF HandleResponse, HandleEvent, generator, GeneratorOK, server, ServerOK
<1>3. toAgent \in Seq(Messages) /\ toAgent # <<>> /\ toAgent' = Tail(toAgent) /\ UNCHANGED toServer
  BY <1>1 DEF HandleResponse, HandleEvent, SocketOK
<1>4. Head(toAgent) \in Messages /\ SocketOK'
  BY <1>1, <1>3, TailFacts DEF SocketOK
<1>5. CASE HandleResponse
  <2>1. PICK c \in Calls, a \in {"task", "error"} : c = Head(toAgent).call /\ a = Head(toAgent).answer
    BY <1>5 DEF HandleResponse, Responses
  <2>2. answer' \in [Calls -> {"none", "task", "error"}]
    BY <1>1, <1>5, <2>1 DEF HandleResponse, PostmanOK
  <2>3. CASE Bound(c)
    BY <1>1, <1>2, <1>4, <1>5, <2>2, <2>3, BoundType DEF HandleResponse
  <2>4. CASE UNCHANGED <<queues, queue, orphans>>
    BY <1>1, <1>2, <1>4, <1>5, <2>2, <2>4 DEF HandleResponse, PostmanOK
  <2> QED
    BY <1>5, <2>1, <2>3, <2>4 DEF HandleResponse
<1>6. CASE HandleEvent
  <2>1. PICK c \in Calls, s \in Seqs : c = Head(toAgent).call /\ s = Head(toAgent).seq
    BY <1>6 DEF HandleEvent, Mirrors
  <2>2. queue[c] \in Seq(Seqs) /\ orphans[c] \in Seq(Seqs)
    BY <1>1 DEF PostmanOK
  <2>3. Append(queue[c], s) \in Seq(Seqs) /\ Append(orphans[c], s) \in Seq(Seqs)
    BY <2>2, AppendFacts
  <2>4. CASE queue' = [queue EXCEPT ![c] = Append(@, s)] /\ UNCHANGED orphans
    BY <1>1, <1>2, <1>4, <1>6, <2>3, <2>4 DEF HandleEvent, PostmanOK
  <2>5. CASE Park(c, s) /\ UNCHANGED queue
    BY <1>1, <1>2, <1>4, <1>6, <2>3, <2>5 DEF HandleEvent, Park, PostmanOK
  <2> QED
    BY <1>6, <2>1, <2>4, <2>5 DEF HandleEvent
<1> QED
  BY <1>5, <1>6

\* What the server says at once, of a call it answers.
LEMMA ReplayType ==
  ASSUME TypeOK, NEW c \in Calls
  PROVE  /\ Replay(c) \in Seq(Mirrors) /\ Replay(c) \in Seq(Messages)
         /\ Len(Replay(c)) = IF c \in earlier THEN count[c] ELSE 0
         /\ \A i \in 1 .. Len(Replay(c)) : Replay(c)[i] = Mirror(c, i) /\ i \in Seqs
<1> DEFINE n == IF c \in earlier THEN count[c] ELSE 0
<1>1. count[c] \in 0 .. MaxSeq
  BY DEF TypeOK
<1>2. n \in 0 .. MaxSeq
  BY <1>1, BoundAssumption
<1>3. Replay(c) = [i \in 1 .. n |-> Mirror(c, i)]
  BY DEF Replay, Mirror
<1> HIDE DEF n
<1>4. \A i \in 1 .. n : Mirror(c, i) \in Mirrors /\ i \in Seqs
  BY <1>2, BoundAssumption DEF Mirror, Mirrors, Seqs
<1>5. Replay(c) \in [1 .. n -> Mirrors]
  BY <1>3, <1>4
<1>6. Replay(c) \in Seq(Mirrors) /\ Len(Replay(c)) = n
  BY <1>2, <1>3, <1>5, BoundAssumption
<1>7. Replay(c) \in Seq(Messages)
  <2>1. Mirrors \subseteq Messages
    BY DEF Messages
  <2> QED
    BY <1>2, <1>5, <2>1
<1> QED
  BY <1>3, <1>4, <1>6, <1>7 DEF n

LEMMA ServerSteps ==
  ASSUME TypeOK, ServerReads \/ \E c \in Calls : ServerAnswers(c) \/ ChildGoesOn(c) \/ ServerMirrors(c)
  PROVE  GeneratorOK' /\ PostmanOK' /\ SocketOK' /\ ServerOK' /\ cancelSent' \in SUBSET Calls
<1>1. GeneratorOK /\ PostmanOK /\ SocketOK /\ ServerOK /\ cancelSent \in SUBSET Calls
  BY TypeParts
<1>2. GeneratorOK' /\ PostmanOK' /\ cancelSent' \in SUBSET Calls
  BY <1>1 DEF ServerReads, ServerAnswers, ChildGoesOn, ServerMirrors, generator, GeneratorOK, postman, PostmanOK
<1>3. CASE ServerReads
  <2>1. toServer \in Seq(Requests)
    BY <1>1 DEF SocketOK
  <2>2. Tail(toServer) \in Seq(Requests) /\ Head(toServer) \in Requests
    BY <1>3, <2>1, TailFacts DEF ServerReads
  <2>3. Head(toServer).call \in Calls
    BY <2>2 DEF Requests
  <2> QED
    BY <1>1, <1>2, <1>3, <2>2, <2>3 DEF ServerReads, SocketOK, ServerOK
<1>4. ASSUME NEW c \in Calls, ServerAnswers(c)
      PROVE  SocketOK' /\ ServerOK'
  <2>1. \A a \in {"task", "error"} : [call |-> c, answer |-> a] \in Messages
    BY DEF Messages, Responses
  <2>2. \A a \in {"task", "error"} : Append(toAgent, [call |-> c, answer |-> a]) \in Seq(Messages)
    BY <1>1, <2>1, AppendFacts DEF SocketOK
  <2>3. Append(toAgent, [call |-> c, answer |-> "task"]) \o Replay(c) \in Seq(Messages)
    BY <2>2, ReplayType, ConcatFacts
  <2> QED
    BY <1>1, <1>4, <2>2, <2>3 DEF ServerAnswers, SocketOK, ServerOK
<1>5. ASSUME NEW c \in Calls, ChildGoesOn(c)
      PROVE  SocketOK' /\ ServerOK'
  <2>1. count[c] + 1 \in 0 .. MaxSeq
    BY <1>1, <1>5, BoundAssumption DEF ServerOK, ChildGoesOn
  <2> QED
    BY <1>1, <1>5, <2>1 DEF ChildGoesOn, SocketOK, ServerOK
<1>6. ASSUME NEW c \in Calls, ServerMirrors(c)
      PROVE  SocketOK' /\ ServerOK'
  <2>1. mirrored[c] + 1 \in Seqs /\ mirrored[c] + 1 \in 0 .. MaxSeq
    BY <1>1, <1>6, BoundAssumption DEF ServerOK, ServerMirrors, Seqs
  <2>2. [call |-> c, seq |-> mirrored[c] + 1] \in Messages
    BY <2>1 DEF Messages, Mirrors
  <2>3. toAgent' \in Seq(Messages)
    BY <1>1, <1>6, <2>2, AppendFacts DEF ServerMirrors, SocketOK
  <2> QED
    BY <1>1, <1>6, <2>1, <2>3 DEF ServerMirrors, SocketOK, ServerOK
<1> QED
  BY <1>2, <1>3, <1>4, <1>5, <1>6

LEMMA TypeStep == TypeOK /\ [Next]_vars => TypeOK'
<1> SUFFICES ASSUME TypeOK, [Next]_vars PROVE TypeOK'
  OBVIOUS
<1>1. CASE UNCHANGED vars
  BY <1>1 DEF vars, scenario, generator, postman, server, TypeOK
<1>2. CASE Next
  <2>1. GeneratorOK' /\ PostmanOK' /\ SocketOK' /\ ServerOK' /\ cancelSent' \in SUBSET Calls
    BY <1>2, GeneratorSteps, AgentSteps, ServerSteps DEF Next, Step
  <2>2. (earlier \subseteq Calls \ Questions)' /\ (escalating \subseteq Calls)' /\ (liveFirst \in BOOLEAN)'
    BY <1>2 DEF Next, Same, scenario, TypeOK
  <2> QED
    BY <2>1, <2>2 DEF TypeOK, GeneratorOK, PostmanOK, SocketOK, ServerOK, Messages
<1> QED
  BY <1>1, <1>2

-----------------------------------------------------------------------------
(* What a step leaves of a call.                                           *)

\* The socket holds of d, in each direction, what it did ...
RequestsKept(d) ==
    /\ Once(toServer', Asks(d))
    /\ Lacks(toServer', Asks(d)) <=> Lacks(toServer, Asks(d))
AnswersKept(d) ==
    /\ Once(toAgent', Answers(d))
    /\ Lacks(toAgent', Answers(d)) <=> Lacks(toAgent, Answers(d))
    /\ \A i \in DOMAIN toAgent' : toAgent'[i] \in Answers(d) => \E j \in DOMAIN toAgent : toAgent[j] = toAgent'[i]
\* ... no event of d joined it, and its lane is as good as it was.
MirrorsKept(d) == Lacks(toAgent, MirrorsOf(d)) => Lacks(toAgent', MirrorsOf(d))
LaneKept(d) == \A T \in SUBSET Seqs, m \in 0 .. MaxSeq :
    /\ Ordered(Lane(d), d, T) => Ordered(Lane(d)', d, T)
    /\ Whole(Lane(d), d, T, m) => Whole(Lane(d)', d, T, m)
    /\ Single(Lane(d), d, T, m) => Single(Lane(d)', d, T, m)

LEMMA BufferType == ASSUME TypeOK, NEW d \in Calls PROVE Buffer(d) \in Seq(Seqs)
BY DEF TypeOK, Buffer

LEMMA LaneType == ASSUME TypeOK, NEW d \in Calls PROVE Lane(d) \in Seq(Messages)
<1>1. Buffer(d) \in Seq(Seqs)
  BY BufferType
<1>2. Marked(d, Buffer(d)) \in Seq(Messages)
  BY <1>1, MarkedFacts
<1>3. toAgent \in Seq(Messages)
  BY DEF TypeOK, Messages
<1> QED
  BY <1>2, <1>3, ConcatFacts DEF Lane

\* The requests.
LEMMA NoRequest ==
  ASSUME UNCHANGED toServer, NEW d \in Calls, RequestInv(d)
  PROVE  RequestsKept(d)
BY DEF RequestInv, RequestsKept

LEMMA RequestJoins ==
  ASSUME TypeOK, NEW d \in Calls, RequestInv(d), NEW m \in Requests, m \notin Asks(d),
         toServer' = Append(toServer, m)
  PROVE  RequestsKept(d)
<1>1. toServer \in Seq(Requests)
  BY DEF TypeOK
<1> QED
  BY <1>1, LacksAppend DEF RequestInv, RequestsKept

LEMMA RequestLeaves ==
  ASSUME TypeOK, NEW d \in Calls, RequestInv(d), toServer # <<>>, Head(toServer) \notin Asks(d),
         toServer' = Tail(toServer)
  PROVE  RequestsKept(d)
<1>1. toServer \in Seq(Requests)
  BY DEF TypeOK
<1> QED
  BY <1>1, LacksTail DEF RequestInv, RequestsKept

\* The messages to the agent, and the postman's buffer.
LEMMA NoMessage ==
  ASSUME UNCHANGED toAgent, NEW d \in Calls, RequestInv(d), Buffer(d)' = Buffer(d)
  PROVE  AnswersKept(d) /\ MirrorsKept(d) /\ LaneKept(d)
<1>1. Lane(d)' = Lane(d)
  BY DEF Lane, Marked, Mirror
<1> QED
  BY <1>1 DEF RequestInv, AnswersKept, MirrorsKept, LaneKept

LEMMA NoEvent ==
  ASSUME UNCHANGED toAgent, NEW d \in Calls, RequestInv(d)
  PROVE  AnswersKept(d) /\ MirrorsKept(d)
BY DEF RequestInv, AnswersKept, MirrorsKept

LEMMA AnswersJoin ==
  ASSUME TypeOK, NEW d \in Calls, RequestInv(d), NEW s \in Seq(Messages),
         \A i \in DOMAIN s : s[i] \notin Answers(d), toAgent' = toAgent \o s
  PROVE  AnswersKept(d)
<1>1. toAgent \in Seq(Messages)
  BY DEF TypeOK, Messages
<1>2. Lacks(s, Answers(d))
  BY DEF Lacks
<1>3. /\ Once(toAgent', Answers(d))
      /\ Lacks(toAgent', Answers(d)) <=> Lacks(toAgent, Answers(d))
  BY <1>1, <1>2, LacksConcat DEF RequestInv
<1>4. ASSUME NEW i \in DOMAIN toAgent', toAgent'[i] \in Answers(d)
      PROVE  \E j \in DOMAIN toAgent : toAgent[j] = toAgent'[i]
  <2> DEFINE r == toAgent \o s
  <2>1. /\ DOMAIN toAgent = 1 .. Len(toAgent) /\ DOMAIN s = 1 .. Len(s) /\ DOMAIN r = 1 .. Len(toAgent) + Len(s)
        /\ Len(toAgent) \in Nat /\ Len(s) \in Nat
        /\ \A k \in 1 .. Len(toAgent) : r[k] = toAgent[k]
        /\ \A k \in 1 .. Len(s) : r[k + Len(toAgent)] = s[k]
    BY <1>1, ConcatFacts
  <2> HIDE DEF r
  <2>2. toAgent' = r
    BY DEF r
  <2>3. CASE i <= Len(toAgent)
    BY <1>4, <2>1, <2>2, <2>3
  <2>4. CASE i > Len(toAgent)
    <3>1. i - Len(toAgent) \in DOMAIN s /\ (i - Len(toAgent)) + Len(toAgent) = i
      BY <1>4, <2>1, <2>2, <2>4
    <3>2. r[i] = s[i - Len(toAgent)]
      BY <2>1, <3>1
    <3> QED
      BY <1>4, <2>2, <3>1, <3>2
  <2> QED
    BY <1>4, <2>1, <2>2, <2>3, <2>4
<1> QED
  BY <1>3, <1>4 DEF AnswersKept

LEMMA LaneLonger ==
  ASSUME TypeOK, NEW d \in Calls, NEW s \in Seq(Messages), toAgent' = toAgent \o s, Buffer(d)' = Buffer(d)
  PROVE  Lane(d)' = Lane(d) \o s
<1>1. toAgent \in Seq(Messages)
  BY DEF TypeOK, Messages
<1>2. PICK b \in Seq(Seqs) : b = Buffer(d)
  BY BufferType
<1>3. Lane(d) = Marked(d, b) \o toAgent /\ Lane(d)' = Marked(d, b) \o toAgent'
  BY <1>2 DEF Lane, Marked, Mirror
<1> QED
  BY <1>1, <1>3, LaneJoined

LEMMA LaneJoins ==
  ASSUME TypeOK, NEW d \in Calls, NEW s \in Seq(Messages), \A i \in DOMAIN s : s[i] \notin MirrorsOf(d),
         toAgent' = toAgent \o s, Buffer(d)' = Buffer(d)
  PROVE  MirrorsKept(d) /\ LaneKept(d)
<1>1. toAgent \in Seq(Messages)
  BY DEF TypeOK, Messages
<1>2. MirrorsKept(d)
  <2>1. Lacks(s, MirrorsOf(d))
    BY DEF Lacks
  <2> QED
    BY <1>1, <2>1, LacksConcat DEF MirrorsKept
<1>3. Lane(d)' = Lane(d) \o s /\ Lane(d) \in Seq(Messages)
  BY LaneLonger, LaneType
<1>4. \A i \in DOMAIN s, seq \in Seqs : s[i] # Mirror(d, seq)
  BY DEF Mirror, MirrorsOf
<1>5. 0 .. MaxSeq \subseteq Nat
  BY BoundAssumption
<1> QED
  BY <1>2, <1>3, <1>4, <1>5, LaneWithOthers DEF LaneKept

LEMMA MessagesJoin ==
  ASSUME TypeOK, NEW d \in Calls, RequestInv(d), NEW s \in Seq(Messages),
         \A i \in DOMAIN s : s[i] \notin Answers(d) /\ s[i] \notin MirrorsOf(d),
         toAgent' = toAgent \o s, Buffer(d)' = Buffer(d)
  PROVE  AnswersKept(d) /\ MirrorsKept(d) /\ LaneKept(d)
BY AnswersJoin, LaneJoins

LEMMA MessageLeaves ==
  ASSUME TypeOK, NEW d \in Calls, RequestInv(d), toAgent # <<>>, toAgent' = Tail(toAgent)
  PROVE  /\ MirrorsKept(d)
         /\ Head(toAgent) \notin Answers(d) => AnswersKept(d)
         /\ Head(toAgent) \notin MirrorsOf(d) /\ Buffer(d)' = Buffer(d) => LaneKept(d)
<1>1. toAgent \in Seq(Messages)
  BY DEF TypeOK, Messages
<1>2. MirrorsKept(d)
  BY <1>1, LacksTail DEF MirrorsKept
<1>3. ASSUME Head(toAgent) \notin Answers(d)
      PROVE  AnswersKept(d)
  <2>1. /\ Once(toAgent', Answers(d))
        /\ Lacks(toAgent', Answers(d)) <=> Lacks(toAgent, Answers(d))
    BY <1>1, <1>3, LacksTail DEF RequestInv
  <2>2. \A i \in DOMAIN toAgent' : \E j \in DOMAIN toAgent : toAgent[j] = toAgent'[i]
    <3> DEFINE p == Tail(toAgent)
    <3>1. /\ DOMAIN toAgent = 1 .. Len(toAgent) /\ DOMAIN p = 1 .. Len(toAgent) - 1
          /\ Len(toAgent) \in Nat \ {0}
          /\ \A i \in 1 .. Len(toAgent) - 1 : p[i] = toAgent[i + 1]
      BY <1>1, TailFacts
    <3> HIDE DEF p
    <3>2. \A i \in DOMAIN p : i + 1 \in DOMAIN toAgent /\ toAgent[i + 1] = p[i]
      BY <3>1
    <3> QED
      BY <3>2 DEF p
  <2> QED
    BY <2>1, <2>2 DEF AnswersKept
<1>4. ASSUME Head(toAgent) \notin MirrorsOf(d), Buffer(d)' = Buffer(d)
      PROVE  LaneKept(d)
  <2>1. PICK b \in Seq(Seqs) : b = Buffer(d)
    BY BufferType
  <2>2. Lane(d) = Marked(d, b) \o toAgent /\ Lane(d)' = Marked(d, b) \o Tail(toAgent)
    BY <1>4, <2>1 DEF Lane, Marked, Mirror
  <2>3. \A seq \in Seqs : Head(toAgent) # Mirror(d, seq)
    BY <1>4 DEF Mirror, MirrorsOf
  <2> QED
    BY <1>1, <2>2, <2>3, LanePassed DEF LaneKept
<1> QED
  BY <1>2, <1>3, <1>4

\* The invariant, part by part.
LEMMA RequestKept ==
  ASSUME NEW d \in Calls, RequestInv(d), RequestsKept(d), AnswersKept(d),
         pc'[d] = "idle" => pc[d] = "idle", answer'[d] = answer[d],
         d \in owed' <=> d \in owed, d \in answered' <=> d \in answered
  PROVE  RequestInv(d)'
<1>1. Asked(d)' <=> Asked(d)
  BY DEF RequestsKept, Asked, Asks, Request
<1>2. Replied(d)' <=> Replied(d)
  BY DEF AnswersKept, Replied, Answers
<1>3. Once(toServer', Asks(d)) /\ Once(toAgent', Answers(d))
  BY DEF RequestsKept, AnswersKept
<1>4. \A i \in DOMAIN toAgent' : toAgent'[i] \in Answers(d) => (toAgent'[i].answer = "task" <=> d \in answered)
  BY DEF AnswersKept, RequestInv
<1> QED
  BY <1>1, <1>2, <1>3, <1>4 DEF RequestInv, Once, Asks, Answers, Request

LEMMA ChildKept ==
  ASSUME NEW d \in Calls, ChildInv(d), mirrored'[d] = mirrored[d], count'[d] = count[d], UNCHANGED earlier,
         d \in owed \cup answered => d \in owed' \cup answered'
  PROVE  ChildInv(d)'
BY DEF ChildInv

LEMMA GeneratorKept ==
  ASSUME NEW d \in Calls, GeneratorInv(d),
         pc'[d] = pc[d], outcome'[d] = outcome[d], taken'[d] = taken[d], d \in pending' => d \in pending,
         d \in queues' <=> d \in queues, queue'[d] = <<>> \/ d \in queues',
         orphans'[d] = orphans[d] \/ d \notin queues',
         answer[d] # "none" => answer'[d] # "none", d \in answered => d \in answered'
  PROVE  GeneratorInv(d)'
BY DEF GeneratorInv, IsInjective

LEMMA CancelKept ==
  ASSUME NEW d \in Calls, CancelInv(d), pc'[d] = pc[d], outcome'[d] = outcome[d], taken'[d] = taken[d],
         d \in cancelSent => d \in cancelSent'
  PROVE  CancelInv(d)'
BY DEF CancelInv

LEMMA TakenType == ASSUME TypeOK, NEW d \in Calls PROVE Taken(d) \in SUBSET Seqs /\ mirrored[d] \in 0 .. MaxSeq
<1>1. taken[d] \in Seq(Seqs) /\ mirrored[d] \in 0 .. MaxSeq
  BY DEF TypeOK
<1>2. \A i \in DOMAIN taken[d] : taken[d][i] \in Seqs
  BY <1>1
<1> QED
  BY <1>1, <1>2 DEF Taken

LEMMA OrderKept ==
  ASSUME TypeOK, NEW d \in Calls, OrderInv(d), OnceInv(d), LaneKept(d), Streams(d)' => Streams(d),
         taken'[d] = taken[d], mirrored'[d] = mirrored[d], UNCHANGED <<earlier, liveFirst>>,
         d \in answered' => d \in answered \/ d \notin earlier
  PROVE  OrderInv(d)' /\ OnceInv(d)'
<1>1. Taken(d) \in SUBSET Seqs /\ mirrored[d] \in 0 .. MaxSeq
  BY TakenType
<1>2. /\ Ordered(Lane(d), d, Taken(d)) => Ordered(Lane(d)', d, Taken(d))
      /\ Whole(Lane(d), d, Taken(d), mirrored[d]) => Whole(Lane(d)', d, Taken(d), mirrored[d])
      /\ Single(Lane(d), d, Taken(d), mirrored[d]) => Single(Lane(d)', d, Taken(d), mirrored[d])
  BY <1>1 DEF LaneKept
<1>3. Taken(d)' = Taken(d) /\ (InOrder(d)' <=> InOrder(d))
  BY DEF Taken, InOrder
<1>4. (Ordered(Lane(d), d, Taken(d)))' <=> Ordered(Lane(d)', d, Taken(d))
  BY <1>3 DEF Ordered, Mirror, Seqs
<1>5. (Whole(Lane(d), d, Taken(d), mirrored[d]))' <=> Whole(Lane(d)', d, Taken(d), mirrored[d])
  BY <1>3 DEF Whole, Mirror
<1>6. (Single(Lane(d), d, Taken(d), mirrored[d]))' <=> Single(Lane(d)', d, Taken(d), mirrored[d])
  BY <1>3 DEF Single, Mirror, Seqs
<1>7. OrderInv(d)'
  BY <1>2, <1>3, <1>4, <1>5 DEF OrderInv
<1>8. OnceInv(d)'
  BY <1>2, <1>6 DEF OnceInv
<1> QED
  BY <1>7, <1>8

LEMMA EndKept ==
  ASSUME NEW d \in Calls, EndInv(d), MirrorsKept(d), UNCHANGED <<earlier, liveFirst>>,
         outcome'[d] = outcome[d], taken'[d] = taken[d], count'[d] = count[d], ending'[d] = ending[d],
         mirrored'[d] = mirrored[d], answer'[d] = answer[d], d \in answered' => d \in answered,
         d \in queues' => d \in queues, orphans'[d] = orphans[d]
  PROVE  EndInv(d)'
<1>1. (Lacks(toAgent, MirrorsOf(d)))' <=> Lacks(toAgent', MirrorsOf(d))
  BY DEF Lacks, MirrorsOf, Seqs
<1> QED
  BY <1>1 DEF EndInv, MirrorsKept, InOrder

\* A step of another call, that the socket carries.
OwnKept(d) ==
    /\ UNCHANGED scenario
    /\ pc'[d] = pc[d] /\ outcome'[d] = outcome[d] /\ taken'[d] = taken[d]
    /\ d \in pending' <=> d \in pending
    /\ answer'[d] = answer[d]
    /\ d \in queues' <=> d \in queues
    /\ queue'[d] = queue[d] /\ orphans'[d] = orphans[d]
    /\ d \in owed' <=> d \in owed
    /\ d \in answered' <=> d \in answered
    /\ count'[d] = count[d] /\ ending'[d] = ending[d] /\ mirrored'[d] = mirrored[d]
    /\ d \in cancelSent' <=> d \in cancelSent

LEMMA Untouched ==
  ASSUME TypeOK, NEW d \in Calls, CallInv(d), OwnKept(d),
         RequestsKept(d), AnswersKept(d), MirrorsKept(d), LaneKept(d)
  PROVE  CallInv(d)'
<1>1. RequestInv(d)'
  BY RequestKept DEF CallInv, OwnKept
<1>2. ChildInv(d)'
  BY ChildKept DEF CallInv, OwnKept, scenario
<1>3. GeneratorInv(d)'
  BY GeneratorKept DEF CallInv, OwnKept, GeneratorInv
<1>4. CancelInv(d)'
  BY CancelKept DEF CallInv, OwnKept
<1>5. OrderInv(d)' /\ OnceInv(d)'
  BY OrderKept DEF CallInv, OwnKept, scenario, Streams
<1>6. EndInv(d)'
  BY EndKept DEF CallInv, OwnKept, scenario
<1> QED
  BY <1>1, <1>2, <1>3, <1>4, <1>5, <1>6 DEF CallInv

LEMMA OwnBuffer == ASSUME NEW d \in Calls, OwnKept(d) PROVE Buffer(d)' = Buffer(d)
BY DEF OwnKept, Buffer

\* Calls and requests of one call are no other's.
LEMMA NoOthersRequest ==
  ASSUME NEW c \in Calls, NEW d \in Calls, c # d, NEW type
  PROVE  Request(type, c) \notin Asks(d)
BY DEF Request, Asks

GeneratorStep(c) ==
    \/ Ask(c) \/ Answered(c) \/ Take(c) \/ Resume(c) \/ CancelAsking(c) \/ CancelStreaming(c)
    \/ Close(c) \/ Drain(c) \/ Unconfirmed(c) \/ CancelAgain(c)

LEMMA OthersKept ==
  ASSUME TypeOK, NEW c \in Calls, NEW d \in Calls, c # d, GeneratorStep(c), UNCHANGED scenario
  PROVE  OwnKept(d) /\ UNCHANGED toAgent
<1> USE DEF TypeOK
<1>1. UNCHANGED toAgent /\ UNCHANGED server
  BY DEF GeneratorStep, Ask, Answered, Take, Resume, CancelAsking, CancelStreaming, Close, Drain,
         Unconfirmed, CancelAgain
<1>2. ASSUME NEW how, End(c, how)
      PROVE  /\ pc'[d] = pc[d] /\ outcome'[d] = outcome[d]
             /\ d \in pending' <=> d \in pending
             /\ d \in queues' <=> d \in queues
             /\ queue'[d] = queue[d] /\ orphans'[d] = orphans[d]
  BY <1>2 DEF End, CleanUp
<1>3. ASSUME Bound(c)
      PROVE  (d \in queues' <=> d \in queues) /\ queue'[d] = queue[d] /\ orphans'[d] = orphans[d]
  BY <1>3 DEF Bound
<1>4. OwnKept(d)
  <2> USE <1>1 DEF OwnKept, server, generator, postman
  <2>1. CASE Ask(c)
    BY <2>1 DEF Ask
  <2>2. CASE Answered(c)
    BY <1>2, <1>3, <2>2 DEF Answered
  <2>3. CASE Take(c)
    BY <2>3 DEF Take
  <2>4. CASE Resume(c)
    BY <1>2, <2>4 DEF Resume
  <2>5. CASE CancelAsking(c) \/ CancelAgain(c)
    BY <1>2, <2>5 DEF CancelAsking, CancelAgain
  <2>6. CASE CancelStreaming(c)
    BY <2>6 DEF CancelStreaming, SendCancel
  <2>7. CASE Close(c)
    BY <1>2, <2>7 DEF Close, SendCancel
  <2>8. CASE Drain(c)
    BY <1>2, <2>8 DEF Drain
  <2>9. CASE Unconfirmed(c)
    BY <1>2, <2>9 DEF Unconfirmed
  <2> QED
    BY <2>1, <2>2, <2>3, <2>4, <2>5, <2>6, <2>7, <2>8, <2>9 DEF GeneratorStep
<1> QED
  BY <1>1, <1>4

LEMMA OthersGenerator ==
  ASSUME TypeOK, NEW c \in Calls, NEW d \in Calls, c # d, CallInv(d), GeneratorStep(c), UNCHANGED scenario
  PROVE  CallInv(d)'
<1>1. OwnKept(d) /\ UNCHANGED toAgent
  BY OthersKept
<1> USE DEF CallInv
<1>2. RequestsKept(d)
  <2>1. CASE UNCHANGED toServer
    BY <2>1, NoRequest
  <2>2. ASSUME NEW type \in {"ASSIGN_REQUEST", "CANCEL_REQUEST", "INTERRUPT_REQUEST"},
               toServer' = Append(toServer, Request(type, c))
        PROVE  RequestsKept(d)
    <3>1. Request(type, c) \in Requests /\ Request(type, c) \notin Asks(d)
      BY NoOthersRequest DEF Request, Requests
    <3> QED
      BY <2>2, <3>1, RequestJoins
  <2>3. UNCHANGED toServer \/ \E type \in {"ASSIGN_REQUEST", "CANCEL_REQUEST", "INTERRUPT_REQUEST"} :
                                 toServer' = Append(toServer, Request(type, c))
    BY DEF GeneratorStep, Ask, Answered, Take, Resume, CancelAsking, CancelStreaming, Close, Drain,
           Unconfirmed, CancelAgain, SendCancel
  <2> QED
    BY <2>1, <2>2, <2>3
<1>3. AnswersKept(d) /\ MirrorsKept(d) /\ LaneKept(d)
  BY <1>1, OwnBuffer, NoMessage
<1> QED
  BY <1>1, <1>2, <1>3, Untouched

-----------------------------------------------------------------------------
(* The generator's own steps.                                              *)

\* A call ends: its lane does not matter any more.
LEMMA EndKeeps ==
  ASSUME TypeOK, NEW c \in Calls, CallInv(c),
         NEW how \in {"ended", "answered", "refused", "cancelled", "closed"}, End(c, how),
         how \in {"cancelled", "closed"} /\ taken[c] # <<>> => c \in cancelSent',
         UNCHANGED <<taken, answer, toAgent, server, scenario>>, RequestsKept(c)
  PROVE  /\ RequestInv(c)' /\ ChildInv(c)' /\ GeneratorInv(c)' /\ CancelInv(c)' /\ OrderInv(c)' /\ OnceInv(c)'
         /\ pc'[c] = "done" /\ outcome'[c] = how
<1> USE DEF CallInv
<1>1. pc'[c] = "done" /\ outcome'[c] = how /\ c \notin pending'
  BY DEF TypeOK, End, CleanUp
<1>2. /\ c \in queues' => c \in queues
      /\ c \in queues' => orphans'[c] = orphans[c]
      /\ c \notin queues' => queue'[c] = <<>>
  BY DEF TypeOK, End, CleanUp, GeneratorInv
<1>3. AnswersKept(c)
  BY NoEvent
<1>4. RequestInv(c)'
  BY <1>1, <1>3, RequestKept DEF server
<1>5. ChildInv(c)'
  BY ChildKept DEF server, scenario
<1>6. GeneratorInv(c)'
  BY <1>1, <1>2 DEF GeneratorInv, server, IsInjective
<1>7. CancelInv(c)'
  BY <1>1 DEF CancelInv
<1>8. ~Streams(c)' /\ (InOrder(c)' <=> InOrder(c))
  BY <1>1 DEF Streams, InOrder, scenario
<1>9. OrderInv(c)' /\ OnceInv(c)'
  BY <1>8 DEF OrderInv, OnceInv
<1> QED
  BY <1>1, <1>4, <1>5, <1>6, <1>7, <1>9

\* ... and if it ends for any reason but its child's last event or a refusal, so
\* does nothing else.
LEMMA Leaves ==
  ASSUME TypeOK, NEW c \in Calls, CallInv(c), NEW how \in {"answered", "cancelled", "closed"}, End(c, how),
         how \in {"cancelled", "closed"} /\ taken[c] # <<>> => c \in cancelSent',
         UNCHANGED <<taken, answer, toAgent, server, scenario>>, RequestsKept(c)
  PROVE  CallInv(c)'
<1>1. /\ RequestInv(c)' /\ ChildInv(c)' /\ GeneratorInv(c)' /\ CancelInv(c)' /\ OrderInv(c)' /\ OnceInv(c)'
      /\ outcome'[c] = how
  BY EndKeeps
<1>2. EndInv(c)'
  BY <1>1 DEF EndInv
<1> QED
  BY <1>1, <1>2 DEF CallInv

LEMMA AskKeeps == ASSUME TypeOK, NEW c \in Calls, CallInv(c), Ask(c), UNCHANGED scenario PROVE CallInv(c)'
<1> USE DEF CallInv
<1>1. /\ pc[c] = "idle" /\ pc'[c] = "asking"
      /\ toServer' = Append(toServer, Request("ASSIGN_REQUEST", c))
      /\ UNCHANGED <<outcome, taken, answer, queues, queue, orphans, toAgent, server, cancelSent>>
  BY DEF TypeOK, Ask
<1>2. toServer \in Seq(Requests) /\ Request("ASSIGN_REQUEST", c) \in Requests
  BY DEF TypeOK, Request, Requests
<1>3. Once(toServer', Asks(c))
  BY <1>1, <1>2, LacksAppend DEF RequestInv, Asked
<1>4. AnswersKept(c) /\ MirrorsKept(c) /\ LaneKept(c)
  BY <1>1, NoMessage DEF Buffer
<1>5. Replied(c)' <=> Replied(c)
  BY <1>4 DEF AnswersKept, Replied, Answers
<1>6. RequestInv(c)'
  BY <1>1, <1>3, <1>5 DEF RequestInv, server, Once, Asks, Request, Answers
<1>7. ChildInv(c)'
  BY <1>1, ChildKept DEF server, scenario
<1>8. GeneratorInv(c)'
  BY <1>1 DEF GeneratorInv, server, IsInjective
<1>9. CancelInv(c)'
  BY <1>1 DEF CancelInv
<1>10. OrderInv(c)' /\ OnceInv(c)'
  BY <1>1, <1>4, OrderKept DEF Streams, server, scenario
<1>11. EndInv(c)'
  BY <1>1, <1>4, EndKept DEF server, scenario
<1> QED
  BY <1>6, <1>7, <1>8, <1>9, <1>10, <1>11

\* Binding a task leaves its buffer as it is.
LEMMA BoundKeeps ==
  ASSUME TypeOK, NEW c \in Calls, GeneratorInv(c), Bound(c)
  PROVE  c \in queues' /\ orphans'[c] = <<>> /\ queue'[c] = Buffer(c) /\ Buffer(c)' = Buffer(c)
<1>1. queue[c] \in Seq(Seqs) /\ orphans[c] \in Seq(Seqs)
  BY DEF TypeOK
<1>2. c \in queues' /\ orphans'[c] = <<>> /\ queue'[c] = queue[c] \o orphans[c]
  BY DEF TypeOK, Bound
<1>3. CASE c \in queues
  <2>1. orphans[c] = <<>>
    BY <1>3 DEF GeneratorInv
  <2>2. queue[c] \o <<>> = queue[c]
    BY <1>1
  <2> QED
    BY <1>2, <1>3, <2>1, <2>2 DEF Buffer
<1>4. CASE c \notin queues
  <2>1. queue[c] = <<>>
    BY <1>4 DEF GeneratorInv
  <2>2. <<>> \o orphans[c] = orphans[c]
    BY <1>1
  <2> QED
    BY <1>2, <1>4, <2>1, <2>2 DEF Buffer
<1> QED
  BY <1>3, <1>4

LEMMA AnsweredKeeps == ASSUME TypeOK, NEW c \in Calls, CallInv(c), Answered(c), UNCHANGED scenario PROVE CallInv(c)'
<1> USE DEF CallInv
<1>1. /\ pc[c] = "asking" /\ answer[c] # "none" /\ taken[c] = <<>>
      /\ UNCHANGED <<taken, answer, toServer, toAgent, server, cancelSent>>
  BY DEF Answered, GeneratorInv
<1>2. RequestsKept(c)
  BY <1>1, NoRequest
<1>3. CASE answer[c] = "error" /\ End(c, "refused")
  <2>1. /\ RequestInv(c)' /\ ChildInv(c)' /\ GeneratorInv(c)' /\ CancelInv(c)' /\ OrderInv(c)' /\ OnceInv(c)'
        /\ outcome'[c] = "refused"
    BY <1>1, <1>2, <1>3, EndKeeps
  <2>2. UNCHANGED <<queues, queue, orphans>>
    BY <1>1, <1>3 DEF End, CleanUp
  <2>3. c \notin answered /\ c \notin owed
    BY <1>1, <1>3 DEF RequestInv
  <2>4. c \notin queues
    BY <2>3 DEF GeneratorInv
  <2>5. ASSUME c \notin earlier
        PROVE  orphans[c] = <<>> /\ Lacks(toAgent, MirrorsOf(c)) /\ mirrored[c] = count[c]
    <3>1. mirrored[c] = 0 /\ count[c] = 0
      BY <2>3, <2>5 DEF ChildInv, TypeOK
    <3>2. Single(Lane(c), c, Taken(c), 0)
      BY <1>1, <2>5, <3>1 DEF OnceInv, Streams
    <3>3. \A i \in DOMAIN Lane(c), seq \in Seqs : Lane(c)[i] # Mirror(c, seq)
      BY <3>2, BoundAssumption DEF Single, Seqs
    <3>4. PICK b \in Seq(Seqs) : b = Buffer(c) /\ b = orphans[c]
      BY <2>4, BufferType DEF Buffer
    <3>5. toAgent \in Seq(Messages)
      BY DEF TypeOK, Messages
    <3>6. IsLane(Lane(c), c, b, toAgent)
      BY <3>4, <3>5, LaneItems DEF Lane
    <3>7. Len(b) = 0
      <4>1. CASE Len(b) # 0
        <5>1. 1 \in 1 .. Len(b) /\ 1 \in 1 .. Len(b) + Len(toAgent) /\ b[1] \in Seqs
          BY <3>5, <4>1
        <5>2. 1 \in DOMAIN Lane(c) /\ Lane(c)[1] = Mirror(c, b[1])
          BY <3>6, <5>1 DEF IsLane
        <5> QED
          BY <3>3, <5>1, <5>2
      <4> QED
        BY <4>1
    <3>8. ASSUME NEW i \in DOMAIN toAgent, toAgent[i] \in MirrorsOf(c)
          PROVE  FALSE
      <4>1. PICK seq \in Seqs : toAgent[i] = Mirror(c, seq)
        BY <3>8 DEF MirrorsOf, Mirror
      <4>2. i \in 1 .. Len(toAgent) /\ i + Len(b) = i /\ i \in 1 .. Len(b) + Len(toAgent)
        BY <3>5, <3>7
      <4>3. i \in DOMAIN Lane(c) /\ Lane(c)[i] = toAgent[i]
        BY <3>6, <4>2 DEF IsLane
      <4> QED
        BY <3>3, <4>1, <4>3
    <3>9. orphans[c] = <<>>
      BY <3>4, <3>7
    <3> QED
      BY <3>1, <3>8, <3>9 DEF Lacks
  <2>6. EndInv(c)'
    <3>1. (Lacks(toAgent, MirrorsOf(c)))' <=> Lacks(toAgent, MirrorsOf(c))
      BY <1>1 DEF Lacks, MirrorsOf, Seqs
    <3> QED
      BY <1>1, <2>1, <2>2, <2>3, <2>4, <2>5, <3>1 DEF EndInv, server, scenario
  <2> QED
    BY <2>1, <2>6
<1>4. CASE End(c, "answered")
  BY <1>1, <1>2, <1>4, Leaves
<1>5. CASE /\ answer[c] = "task" /\ pc' = [pc EXCEPT ![c] = "streaming"]
           /\ Bound(c) /\ UNCHANGED <<outcome, pending>>
  <2>1. pc'[c] = "streaming"
    BY <1>5 DEF TypeOK
  <2>2. c \in queues' /\ orphans'[c] = <<>> /\ queue'[c] = Buffer(c) /\ Buffer(c)' = Buffer(c)
    BY <1>5, BoundKeeps
  <2>3. AnswersKept(c) /\ MirrorsKept(c) /\ LaneKept(c)
    BY <1>1, <2>2, NoMessage
  <2>4. RequestInv(c)'
    BY <1>1, <1>2, <2>1, <2>3, RequestKept DEF server
  <2>5. ChildInv(c)'
    BY <1>1, ChildKept DEF server, scenario
  <2>6. c \in answered /\ outcome[c] = "none"
    BY <1>1, <1>5 DEF RequestInv, GeneratorInv, TypeOK
  <2>7. GeneratorInv(c)'
    BY <1>1, <1>5, <2>1, <2>2, <2>6 DEF GeneratorInv, server, IsInjective
  <2>8. CancelInv(c)'
    BY <1>1, <2>1 DEF CancelInv
  <2>9. OrderInv(c)' /\ OnceInv(c)'
    BY <1>1, <2>1, <2>3, OrderKept DEF Streams, server, scenario
  <2>10. EndInv(c)'
    BY <1>5, <2>6 DEF EndInv
  <2> QED
    BY <2>4, <2>5, <2>7, <2>8, <2>9, <2>10
<1> QED
  BY <1>3, <1>4, <1>5 DEF Answered

\* The next event: the lane's first.
LEMMA TakeKeeps == ASSUME TypeOK, NEW c \in Calls, CallInv(c), Take(c), UNCHANGED scenario PROVE CallInv(c)'
<1> USE DEF CallInv
<1> DEFINE s == Head(queue[c])
<1>1. /\ pc[c] = "streaming" /\ queue[c] # <<>> /\ c \in queues /\ orphans[c] = <<>>
      /\ outcome[c] = "none" /\ answer[c] # "none" /\ IsInjective(taken[c])
  BY DEF Take, GeneratorInv, TypeOK
<1>2. queue[c] \in Seq(Seqs) /\ taken[c] \in Seq(Seqs) /\ toAgent \in Seq(Messages) /\ mirrored[c] \in Nat
  BY BoundAssumption DEF TypeOK, Messages
<1>3. s \in Seqs
  BY <1>1, <1>2, TailFacts
<1>4. /\ queue'[c] = Tail(queue[c])
      /\ UNCHANGED <<pending, answer, queues, orphans, toServer, toAgent, server, cancelSent>>
  BY DEF Take, TypeOK
<1>5. \/ s \in Taken(c) /\ UNCHANGED generator
      \/ /\ s \notin Taken(c) /\ taken'[c] = Append(taken[c], s) /\ UNCHANGED outcome
         /\ pc'[c] \in {"streaming", "yielded"}
  <2>1. Seen(c, s) <=> s \in Taken(c)
    BY DEF Seen, Taken
  <2>2. CASE Seen(c, s)
    BY <2>1, <2>2 DEF Take
  <2>3. CASE ~Seen(c, s)
    <3>1. taken' = [taken EXCEPT ![c] = Append(taken[c], s)] /\ UNCHANGED outcome
      BY <2>3 DEF Take
    <3>2. pc' = [pc EXCEPT ![c] = "yielded"] \/ pc' = pc
      BY <2>3 DEF Take
    <3>3. taken'[c] = Append(taken[c], s) /\ pc'[c] \in {"streaming", "yielded"}
      BY <1>1, <3>1, <3>2 DEF TypeOK
    <3> QED
      BY <2>1, <2>3, <3>1, <3>3
  <2> QED
    BY <2>2, <2>3
<1>6. /\ Lane(c) \in Seq(Messages) /\ Lane(c) # <<>> /\ Head(Lane(c)) = Mirror(c, s)
      /\ Lane(c)' = Tail(Lane(c))
  <2>1. Lane(c) = Marked(c, queue[c]) \o toAgent
    BY <1>1 DEF Lane, Buffer
  <2>2. Lane(c)' = Marked(c, Tail(queue[c])) \o toAgent
    BY <1>1, <1>4 DEF Lane, Buffer, Marked, Mirror
  <2>3. /\ Marked(c, queue[c]) \o toAgent # <<>> /\ Head(Marked(c, queue[c]) \o toAgent) = Mirror(c, Head(queue[c]))
        /\ Tail(Marked(c, queue[c]) \o toAgent) = Marked(c, Tail(queue[c])) \o toAgent
    BY <1>1, <1>2, LaneTail
  <2> QED
    BY <2>1, <2>2, <2>3, LaneType
<1>7. Taken(c)' = Taken(c) \cup {s}
  <2>1. CASE s \in Taken(c) /\ UNCHANGED generator
    BY <2>1 DEF Taken, generator
  <2>2. CASE taken'[c] = Append(taken[c], s)
    <3>1. /\ DOMAIN taken[c] = 1 .. Len(taken[c]) /\ DOMAIN taken'[c] = 1 .. Len(taken[c]) + 1
          /\ taken'[c][Len(taken[c]) + 1] = s /\ Len(taken[c]) \in Nat
          /\ \A i \in 1 .. Len(taken[c]) : taken'[c][i] = taken[c][i]
      BY <1>2, <1>3, <2>2, AppendFacts
    <3>2. DOMAIN taken'[c] = DOMAIN taken[c] \cup {Len(taken[c]) + 1}
      BY <3>1
    <3> QED
      BY <3>1, <3>2 DEF Taken
  <2> QED
    BY <1>5, <2>1, <2>2
<1>8. /\ Ordered(Lane(c), c, Taken(c)) =>
            Ordered(Lane(c)', c, Taken(c)') /\ \A n \in 1 .. s - 1 : n \in Taken(c)
      /\ Whole(Lane(c), c, Taken(c), mirrored[c]) => Whole(Lane(c)', c, Taken(c)', mirrored[c])
      /\ Single(Lane(c), c, Taken(c), mirrored[c]) => Single(Lane(c)', c, Taken(c)', mirrored[c])
  <2>1. Taken(c) \in SUBSET Seqs
    BY TakenType
  <2> HIDE DEF s
  <2>2. /\ Ordered(Lane(c), c, Taken(c)) =>
              Ordered(Tail(Lane(c)), c, Taken(c) \cup {s}) /\ \A n \in 1 .. s - 1 : n \in Taken(c)
        /\ Whole(Lane(c), c, Taken(c), mirrored[c]) => Whole(Tail(Lane(c)), c, Taken(c) \cup {s}, mirrored[c])
        /\ Single(Lane(c), c, Taken(c), mirrored[c]) => Single(Tail(Lane(c)), c, Taken(c) \cup {s}, mirrored[c])
    <3>1. PICK lane \in Seq(Messages), T \in SUBSET Seqs, m \in Nat : lane = Lane(c) /\ T = Taken(c) /\ m = mirrored[c]
      BY <1>2, <1>6, <2>1
    <3>2. /\ Ordered(lane, c, T) => Ordered(Tail(lane), c, T \cup {s}) /\ \A n \in 1 .. s - 1 : n \in T
          /\ Whole(lane, c, T, m) => Whole(Tail(lane), c, T \cup {s}, m)
          /\ Single(lane, c, T, m) => Single(Tail(lane), c, T \cup {s}, m)
      <4>1. lane # <<>> /\ Head(lane) = Mirror(c, s) /\ s \in Seqs
        BY <1>3, <1>6, <3>1
      <4>2. lane \in Seq(Messages) /\ T \in SUBSET Seqs /\ m \in Nat
        BY <3>1
      <4> QED
        BY <4>1, <4>2, LaneTaken, Zenon
    <3> QED
      BY <3>1, <3>2
  <2> QED
    BY <1>6, <1>7, <2>2
<1>9. pc'[c] \in {"streaming", "yielded"} /\ outcome'[c] = "none" /\ (pc'[c] = "yielded" => taken'[c] # <<>>)
  <2>1. Append(taken[c], s) # <<>>
    BY <1>2, <1>3
  <2> QED
    BY <1>1, <1>5, <2>1 DEF generator
<1>10. RequestInv(c)'
  <2>1. RequestsKept(c) /\ AnswersKept(c)
    BY <1>4, NoRequest, NoEvent
  <2> QED
    BY <1>4, <1>9, <2>1, RequestKept DEF server
<1>11. ChildInv(c)'
  BY <1>4, ChildKept DEF server, scenario
<1>12. GeneratorInv(c)'
  <2>1. IsInjective(taken'[c])
    <3>1. CASE UNCHANGED generator
      BY <1>1, <3>1 DEF generator
    <3>2. CASE s \notin Taken(c) /\ taken'[c] = Append(taken[c], s)
      <4>1. /\ DOMAIN taken[c] = 1 .. Len(taken[c]) /\ DOMAIN taken'[c] = 1 .. Len(taken[c]) + 1
            /\ taken'[c][Len(taken[c]) + 1] = s /\ Len(taken[c]) \in Nat
            /\ \A i \in 1 .. Len(taken[c]) : taken'[c][i] = taken[c][i]
        BY <1>2, <1>3, <3>2, AppendFacts
      <4>2. \A i \in DOMAIN taken[c] : taken[c][i] # s
        BY <3>2 DEF Taken
      <4> QED
        BY <1>1, <4>1, <4>2 DEF IsInjective
    <3> QED
      BY <1>5, <3>1, <3>2
  <2> QED
    BY <1>1, <1>4, <1>9, <2>1 DEF GeneratorInv, server
<1>13. CancelInv(c)'
  BY <1>9 DEF CancelInv
<1>14. Streams(c) /\ (InOrder(c)' <=> InOrder(c)) /\ mirrored'[c] = mirrored[c] /\ answered' = answered /\ earlier' = earlier
  BY <1>1, <1>4 DEF Streams, InOrder, scenario, server
<1>15. /\ (Ordered(Lane(c), c, Taken(c)))' <=> Ordered(Lane(c)', c, Taken(c)')
       /\ (Whole(Lane(c), c, Taken(c), mirrored[c]))' <=> Whole(Lane(c)', c, Taken(c)', mirrored'[c])
       /\ (Single(Lane(c), c, Taken(c), mirrored[c]))' <=> Single(Lane(c)', c, Taken(c)', mirrored'[c])
  BY DEF Ordered, Whole, Single, Mirror, Seqs
<1>16. OrderInv(c)'
  <2> SUFFICES ASSUME InOrder(c)
               PROVE  /\ \A i \in DOMAIN taken'[c] : taken'[c][i] = i
                      /\ Ordered(Lane(c)', c, Taken(c)')
                      /\ c \notin earlier \/ c \in answered => Whole(Lane(c)', c, Taken(c)', mirrored[c])
    BY <1>14, <1>15 DEF OrderInv
  <2>1. /\ \A i \in DOMAIN taken[c] : taken[c][i] = i
        /\ Ordered(Lane(c), c, Taken(c))
        /\ c \notin earlier \/ c \in answered => Whole(Lane(c), c, Taken(c), mirrored[c])
    BY <1>14 DEF OrderInv
  <2>2. \A i \in DOMAIN taken'[c] : taken'[c][i] = i
    <3>1. CASE UNCHANGED generator
      BY <2>1, <3>1 DEF generator
    <3>2. CASE s \notin Taken(c) /\ taken'[c] = Append(taken[c], s)
      <4>1. /\ DOMAIN taken[c] = 1 .. Len(taken[c]) /\ DOMAIN taken'[c] = 1 .. Len(taken[c]) + 1
            /\ taken'[c][Len(taken[c]) + 1] = s /\ Len(taken[c]) \in Nat
            /\ \A i \in 1 .. Len(taken[c]) : taken'[c][i] = taken[c][i]
        BY <1>2, <1>3, <3>2, AppendFacts
      <4>2. Taken(c) = 1 .. Len(taken[c])
        BY <2>1, <4>1 DEF Taken
      <4>3. s \in Nat \ {0}
        BY <1>3, BoundAssumption DEF Seqs
      <4>4. \A n \in 1 .. s - 1 : n \in 1 .. Len(taken[c])
        BY <1>8, <2>1, <4>2
      <4>5. s = Len(taken[c]) + 1
        <5> HIDE DEF s
        <5>1. CASE s <= Len(taken[c])
          BY <3>2, <4>1, <4>2, <4>3, <5>1
        <5>2. CASE s > Len(taken[c]) + 1
          <6>1. Len(taken[c]) + 1 \in 1 .. s - 1
            BY <4>1, <4>3, <5>2
          <6> QED
            BY <4>1, <4>4, <6>1
        <5> QED
          BY <4>1, <4>3, <5>1, <5>2
      <4> QED
        BY <2>1, <4>1, <4>5
    <3> QED
      BY <1>5, <3>1, <3>2
  <2> QED
    BY <1>8, <2>1, <2>2
<1>17. OnceInv(c)'
  BY <1>8, <1>14, <1>15 DEF OnceInv
<1>18. EndInv(c)'
  BY <1>9 DEF EndInv
<1> QED
  BY <1>10, <1>11, <1>12, <1>13, <1>16, <1>17, <1>18

\* The generator goes on to wait for something else.
LEMMA WaitsKeeps ==
  ASSUME TypeOK, NEW c \in Calls, CallInv(c), NEW to \in {"streaming", "cancelling", "interrupting"},
         pc[c] \in {"streaming", "yielded", "cancelling"}, to = "streaming" => pc[c] = "yielded",
         pc' = [pc EXCEPT ![c] = to],
         to # "streaming" => c \in cancelSent', cancelSent \subseteq cancelSent',
         UNCHANGED <<outcome, taken, postman, toAgent, server, scenario>>, RequestsKept(c)
  PROVE  CallInv(c)'
<1> USE DEF CallInv, postman, server, scenario
<1>1. pc'[c] = to /\ outcome[c] = "none"
  BY DEF TypeOK, GeneratorInv
<1>2. Buffer(c)' = Buffer(c)
  BY DEF Buffer
<1>3. AnswersKept(c) /\ MirrorsKept(c) /\ LaneKept(c)
  BY <1>2, NoMessage
<1>4. RequestInv(c)'
  BY <1>1, <1>3, RequestKept
<1>5. ChildInv(c)'
  BY ChildKept
<1>6. GeneratorInv(c)'
  BY <1>1 DEF GeneratorInv, IsInjective
<1>7. CancelInv(c)'
  BY <1>1 DEF CancelInv
<1>8. OrderInv(c)' /\ OnceInv(c)'
  <2>1. Streams(c)' => Streams(c)
    BY <1>1 DEF Streams
  <2> QED
    BY <1>3, <2>1, OrderKept
<1>9. EndInv(c)'
  BY <1>1 DEF EndInv
<1> QED
  BY <1>4, <1>5, <1>6, <1>7, <1>8, <1>9

\* The consumer asks for more: after the last event there is none to come.
LEMMA ResumeKeeps == ASSUME TypeOK, NEW c \in Calls, CallInv(c), Resume(c), UNCHANGED scenario PROVE CallInv(c)'
<1> USE DEF CallInv
<1> DEFINE l == Last(taken[c])
<1>1. /\ pc[c] = "yielded" /\ taken[c] # <<>> /\ answer[c] # "none"
      /\ UNCHANGED <<taken, answer, toServer, toAgent, server, cancelSent>>
  BY DEF Resume, GeneratorInv
<1>2. RequestsKept(c)
  BY <1>1, NoRequest
<1>3. CASE Kind(c, l) # "none" /\ End(c, "ended")
  <2>1. /\ RequestInv(c)' /\ ChildInv(c)' /\ GeneratorInv(c)' /\ CancelInv(c)' /\ OrderInv(c)' /\ OnceInv(c)'
        /\ outcome'[c] = "ended"
    BY <1>1, <1>2, <1>3, EndKeeps
  <2>2. taken[c] \in Seq(Seqs) /\ mirrored[c] \in 0 .. MaxSeq /\ count[c] \in 0 .. MaxSeq /\ Streams(c)
    BY <1>1 DEF TypeOK, Streams
  <2>3. Len(taken[c]) \in Nat \ {0} /\ l = taken[c][Len(taken[c])] /\ Len(taken[c]) \in DOMAIN taken[c]
        /\ DOMAIN taken[c] = 1 .. Len(taken[c])
    BY <1>1, <2>2 DEF Last
  <2>4. l = count[c] /\ ending[c] # "none"
    BY <1>3 DEF Kind
  <2>5. ASSUME InOrder(c)
        PROVE  Len(taken[c]) = count[c] /\ Taken(c) = 1 .. count[c]
    <3>1. \A i \in DOMAIN taken[c] : taken[c][i] = i
      BY <2>5 DEF OrderInv
    <3>2. Len(taken[c]) = count[c]
      BY <2>3, <2>4, <3>1
    <3> QED
      BY <2>3, <3>1, <3>2 DEF Taken
  <2>6. ASSUME c \notin earlier
        PROVE  c \notin queues' /\ orphans'[c] = <<>> /\ Lacks(toAgent, MirrorsOf(c)) /\ mirrored[c] = count[c]
    <3>1. c \notin queues' /\ orphans'[c] = <<>>
      BY <1>1, <1>3 DEF End, CleanUp, TypeOK
    <3>2. Single(Lane(c), c, Taken(c), mirrored[c]) /\ Taken(c) = 1 .. count[c]
      BY <2>2, <2>5, <2>6 DEF OnceInv, InOrder
    <3>3. count[c] \in Taken(c)
      BY <2>3, <2>4 DEF Taken
    <3>4. mirrored[c] = count[c]
      <4>1. count[c] <= mirrored[c]
        BY <3>2, <3>3 DEF Single
      <4> QED
        BY <2>2, <4>1, BoundAssumption DEF ChildInv
    <3>5. \A i \in DOMAIN Lane(c), seq \in Seqs : Lane(c)[i] # Mirror(c, seq)
      <4> SUFFICES ASSUME NEW i \in DOMAIN Lane(c), NEW seq \in Seqs, Lane(c)[i] = Mirror(c, seq) PROVE FALSE
        OBVIOUS
      <4>1. seq <= mirrored[c] /\ seq \notin Taken(c)
        BY <3>2 DEF Single
      <4> QED
        BY <2>2, <3>2, <3>4, <4>1, BoundAssumption DEF Seqs
    <3>6. PICK b \in Seq(Seqs) : b = Buffer(c)
      BY BufferType
    <3>7. toAgent \in Seq(Messages)
      BY DEF TypeOK, Messages
    <3>8. IsLane(Lane(c), c, b, toAgent)
      BY <3>6, <3>7, LaneItems DEF Lane
    <3>9. ASSUME NEW i \in DOMAIN toAgent, toAgent[i] \in MirrorsOf(c)
          PROVE  FALSE
      <4>1. PICK seq \in Seqs : toAgent[i] = Mirror(c, seq)
        BY <3>9 DEF MirrorsOf, Mirror
      <4>2. i \in 1 .. Len(toAgent) /\ i + Len(b) \in 1 .. Len(b) + Len(toAgent)
        BY <3>6, <3>7
      <4>3. i + Len(b) \in DOMAIN Lane(c) /\ Lane(c)[i + Len(b)] = toAgent[i]
        BY <3>8, <4>2 DEF IsLane
      <4> QED
        BY <3>5, <4>1, <4>3
    <3> QED
      BY <3>1, <3>4, <3>9 DEF Lacks
  <2>7. EndInv(c)'
    <3>1. (Lacks(toAgent, MirrorsOf(c)))' <=> Lacks(toAgent, MirrorsOf(c))
      BY <1>1 DEF Lacks, MirrorsOf, Seqs
    <3>2. InOrder(c)' <=> InOrder(c)
      BY DEF InOrder, scenario
    <3> QED
      BY <1>1, <2>1, <2>4, <2>5, <2>6, <3>1, <3>2 DEF EndInv, server, scenario
  <2> QED
    BY <2>1, <2>7
<1>4. CASE pc' = [pc EXCEPT ![c] = "streaming"] /\ UNCHANGED <<outcome, pending, queues, queue, orphans>>
  BY <1>1, <1>2, <1>4, WaitsKeeps DEF postman
<1> QED
  BY <1>3, <1>4 DEF Resume

\* A request other than the first.
LEMMA CancelJoins ==
  ASSUME TypeOK, NEW c \in Calls, RequestInv(c), NEW type \in {"CANCEL_REQUEST", "INTERRUPT_REQUEST"},
         toServer' = Append(toServer, Request(type, c))
  PROVE  RequestsKept(c)
<1>1. Request(type, c) \in Requests /\ Request(type, c) \notin Asks(c)
  BY DEF Request, Requests, Asks
<1> QED
  BY <1>1, RequestJoins

\* The postman drops the first event of a call that is being cancelled.
LEMMA DrainKeeps == ASSUME TypeOK, NEW c \in Calls, CallInv(c), Drain(c), UNCHANGED scenario PROVE CallInv(c)'
<1> USE DEF CallInv
<1>1. /\ pc[c] \in {"cancelling", "interrupting"} /\ c \in cancelSent /\ c \in queues /\ outcome[c] = "none"
      /\ UNCHANGED <<taken, answer, toServer, toAgent, server, cancelSent>>
  BY DEF Drain, GeneratorInv, CancelInv, TypeOK
<1>2. RequestsKept(c) /\ AnswersKept(c)
  BY <1>1, NoRequest, NoEvent
<1>3. CASE End(c, "cancelled")
  BY <1>1, <1>2, <1>3, Leaves
<1>4. CASE queue' = [queue EXCEPT ![c] = Tail(@)] /\ UNCHANGED <<pc, outcome, pending, queues, orphans>>
  <2>1. RequestInv(c)'
    BY <1>1, <1>2, <1>4, RequestKept DEF server
  <2>2. ChildInv(c)'
    BY <1>1, ChildKept DEF server, scenario
  <2>3. GeneratorInv(c)'
    BY <1>1, <1>4, GeneratorKept DEF server
  <2>4. CancelInv(c)'
    BY <1>1, <1>4, CancelKept
  <2>5. ~Streams(c)' /\ (InOrder(c)' <=> InOrder(c))
    BY <1>1, <1>4 DEF Streams, InOrder, scenario
  <2>6. OrderInv(c)' /\ OnceInv(c)'
    BY <1>1, <2>5 DEF OrderInv, OnceInv
  <2>7. EndInv(c)'
    BY <1>1, <1>4 DEF EndInv
  <2> QED
    BY <2>1, <2>2, <2>3, <2>4, <2>6, <2>7
<1> QED
  BY <1>3, <1>4 DEF Drain

LEMMA GeneratorKeeps ==
  ASSUME TypeOK, NEW c \in Calls, CallInv(c), GeneratorStep(c), UNCHANGED scenario
  PROVE  CallInv(c)'
<1>1. CASE Ask(c) \/ Answered(c) \/ Take(c) \/ Resume(c) \/ Drain(c)
  BY <1>1, AskKeeps, AnsweredKeeps, TakeKeeps, ResumeKeeps, DrainKeeps
<1> USE DEF CallInv
<1>2. CASE CancelAsking(c)
  <2>1. taken[c] = <<>>
    BY <1>2 DEF CancelAsking, GeneratorInv
  <2>2. RequestsKept(c)
    BY <1>2, NoRequest DEF CancelAsking
  <2> QED
    BY <1>2, <2>1, <2>2, Leaves DEF CancelAsking
<1>3. CASE CancelStreaming(c)
  <2>1. RequestsKept(c)
    BY <1>3, CancelJoins DEF CancelStreaming, SendCancel
  <2> QED
    BY <1>3, <2>1, WaitsKeeps DEF CancelStreaming, SendCancel
<1>4. CASE Close(c)
  <2>1. RequestsKept(c)
    BY <1>4, CancelJoins DEF Close, SendCancel
  <2> QED
    BY <1>4, <2>1, Leaves DEF Close, SendCancel
<1>5. CASE Unconfirmed(c)
  <2>1. c \in cancelSent
    BY <1>5 DEF Unconfirmed, CancelInv
  <2>2. CASE End(c, "cancelled") /\ UNCHANGED toServer
    <3>1. RequestsKept(c)
      BY <2>2, NoRequest
    <3> QED
      BY <1>5, <2>1, <2>2, <3>1, Leaves DEF Unconfirmed
  <2>3. CASE /\ pc[c] = "cancelling" /\ pc' = [pc EXCEPT ![c] = "interrupting"]
             /\ toServer' = Append(toServer, Request("INTERRUPT_REQUEST", c))
             /\ UNCHANGED <<outcome, pending, queues, queue, orphans>>
    <3>1. RequestsKept(c)
      BY <2>3, CancelJoins
    <3> QED
      BY <1>5, <2>1, <2>3, <3>1, WaitsKeeps DEF Unconfirmed, postman
  <2> QED
    BY <1>5, <2>2, <2>3 DEF Unconfirmed
<1>6. CASE CancelAgain(c)
  <2>1. c \in cancelSent /\ RequestsKept(c)
    BY <1>6, NoRequest DEF CancelAgain, CancelInv
  <2> QED
    BY <1>6, <2>1, Leaves DEF CancelAgain
<1> QED
  BY <1>1, <1>2, <1>3, <1>4, <1>5, <1>6 DEF GeneratorStep

-----------------------------------------------------------------------------
(* The steps of the agent and of the server.                               *)

LEMMA ResponseKeeps ==
  ASSUME TypeOK, NEW d \in Calls, CallInv(d), HandleResponse, UNCHANGED scenario
  PROVE  CallInv(d)'
<1> USE DEF CallInv
<1>1. toAgent \in Seq(Messages) /\ toAgent # <<>> /\ toAgent' = Tail(toAgent)
  BY DEF TypeOK, Messages, HandleResponse
<1>2. Head(toAgent) \in Responses /\ Head(toAgent) \in Messages
  BY <1>1, TailFacts DEF HandleResponse
<1>3. PICK c \in Calls, a \in {"task", "error"} : c = Head(toAgent).call /\ a = Head(toAgent).answer
  BY <1>2, Kinds
<1>4. /\ Head(toAgent) \notin MirrorsOf(d)
      /\ Head(toAgent) \in Answers(d) <=> c = d
  BY <1>2, <1>3, Kinds
<1>5. /\ UNCHANGED <<generator, pending, toServer, server, cancelSent>>
      /\ (a = "task" /\ Bound(c)) \/ UNCHANGED <<queues, queue, orphans>>
      /\ answer' = IF c \in pending THEN [answer EXCEPT ![c] = a] ELSE answer
  BY <1>3 DEF HandleResponse
<1>6. RequestsKept(d) /\ MirrorsKept(d)
  BY <1>1, <1>5, NoRequest, MessageLeaves
<1>7. CASE d # c
  <2>1. OwnKept(d)
    BY <1>5, <1>7 DEF OwnKept, generator, server, Bound, TypeOK
  <2> QED
    BY <1>1, <1>4, <1>6, <1>7, <2>1, OwnBuffer, MessageLeaves, Untouched
<1>8. CASE d = c
  <2>1. Replied(d) /\ Lacks(toAgent', Answers(d)) /\ Once(toAgent', Answers(d))
    <3>1. 1 \in DOMAIN toAgent /\ toAgent[1] \in Answers(d)
      BY <1>1, <1>4, <1>8, TailFacts
    <3> QED
      BY <1>1, <1>4, <1>8, <3>1, LacksTail DEF RequestInv, Replied, Lacks
  <2>2. /\ ~Asked(d) /\ d \notin owed /\ answer[d] = "none" /\ pc[d] # "idle"
        /\ a = "task" <=> d \in answered
    <3>1. 1 \in DOMAIN toAgent /\ toAgent[1] = Head(toAgent)
      BY <1>1, TailFacts
    <3> QED
      BY <1>3, <1>4, <1>8, <2>1, <3>1 DEF RequestInv
  <2>3. answer'[d] \in {"none", a}
    BY <1>5, <1>8, <2>2 DEF TypeOK
  <2>4. /\ d \in queues => d \in queues'
        /\ d \in queues' => orphans'[d] = <<>> /\ d \in answered
        /\ d \notin queues' => queue'[d] = <<>> /\ UNCHANGED <<queues, queue, orphans>>
        /\ Buffer(d)' = Buffer(d)
    <3>1. CASE UNCHANGED <<queues, queue, orphans>>
      BY <3>1 DEF GeneratorInv, Buffer
    <3>2. CASE a = "task" /\ Bound(c)
      <4>1. d \in queues' /\ orphans'[d] = <<>> /\ Buffer(d)' = Buffer(d)
        BY <1>8, <3>2, BoundKeeps
      <4> QED
        BY <1>8, <2>2, <3>2, <4>1 DEF Bound
    <3> QED
      BY <1>5, <3>1, <3>2
  <2>5. RequestInv(d)'
    <3>1. ~Replied(d)' /\ (Asked(d)' <=> Asked(d))
      BY <1>5, <2>1 DEF Replied, Asked, Answers, Asks, Request
    <3>2. \A i \in DOMAIN toAgent' : toAgent'[i] \notin Answers(d)
      BY <2>1 DEF Lacks
    <3>3. (Once(toServer, Asks(d)))' /\ (Once(toAgent, Answers(d)))'
      BY <1>5, <2>1 DEF RequestInv, Once, Asks, Answers, Request
    <3>4. (\A i \in DOMAIN toAgent : toAgent[i] \in Answers(d) => (toAgent[i].answer = "task" <=> d \in answered))'
      BY <3>2 DEF Answers
    <3> QED
      BY <1>5, <2>2, <2>3, <3>1, <3>3, <3>4 DEF RequestInv, server, generator
  <2>6. ChildInv(d)'
    BY <1>5, ChildKept DEF server, scenario
  <2>7. GeneratorInv(d)'
    BY <1>5, <2>2, <2>4 DEF GeneratorInv, IsInjective, generator, server
  <2>8. CancelInv(d)'
    BY <1>5, CancelKept DEF generator
  <2>9. OrderInv(d)' /\ OnceInv(d)'
    <3>1. LaneKept(d)
      BY <1>1, <1>4, <2>4, MessageLeaves
    <3> QED
      BY <1>5, <3>1, OrderKept DEF generator, server, scenario, Streams
  <2>10. EndInv(d)'
    BY <1>5, <2>2 DEF EndInv, InOrder, generator, server, scenario
  <2> QED
    BY <2>5, <2>6, <2>7, <2>8, <2>9, <2>10
<1> QED
  BY <1>7, <1>8

LEMMA EventKeeps ==
  ASSUME TypeOK, NEW d \in Calls, CallInv(d), HandleEvent, UNCHANGED scenario
  PROVE  CallInv(d)'
<1> USE DEF CallInv
<1>1. toAgent \in Seq(Messages) /\ toAgent # <<>> /\ toAgent' = Tail(toAgent)
  BY DEF TypeOK, Messages, HandleEvent
<1>2. Head(toAgent) \in Mirrors /\ Head(toAgent) \in Messages
  BY <1>1, TailFacts DEF HandleEvent
<1>3. PICK c \in Calls, s \in Seqs : c = Head(toAgent).call /\ s = Head(toAgent).seq
  BY <1>2, Kinds
<1>4. /\ Head(toAgent) = Mirror(c, s)
      /\ Head(toAgent) \notin Answers(d)
      /\ Head(toAgent) \in MirrorsOf(d) <=> c = d
  BY <1>2, <1>3, Kinds
<1>5. /\ UNCHANGED <<generator, pending, answer, queues, toServer, server, cancelSent>>
      /\ \/ c \in queues /\ queue' = [queue EXCEPT ![c] = Append(@, s)] /\ UNCHANGED orphans
         \/ c \notin queues /\ orphans' = [orphans EXCEPT ![c] = Append(@, s)] /\ UNCHANGED queue
  BY <1>3 DEF HandleEvent, Park
<1>6. RequestsKept(d) /\ AnswersKept(d) /\ MirrorsKept(d)
  BY <1>1, <1>4, <1>5, NoRequest, MessageLeaves
<1>7. CASE d # c
  <2>1. OwnKept(d)
    BY <1>5, <1>7 DEF OwnKept, generator, server, TypeOK
  <2> QED
    BY <1>1, <1>4, <1>6, <1>7, <2>1, OwnBuffer, MessageLeaves, Untouched
<1>8. CASE d = c
  <2>1. Buffer(d)' = Append(Buffer(d), s)
    BY <1>5, <1>8 DEF Buffer, TypeOK
  <2>2. Lane(d)' = Lane(d)
    <3>1. PICK b \in Seq(Seqs) : b = Buffer(d)
      BY BufferType
    <3>2. Lane(d) = Marked(d, b) \o toAgent /\ Lane(d)' = Marked(d, Append(b, s)) \o Tail(toAgent)
      BY <1>1, <2>1, <3>1 DEF Lane, Marked, Mirror
    <3> QED
      BY <1>1, <1>4, <1>8, <3>1, <3>2, LaneHandedOver
  <2>3. LaneKept(d)
    BY <2>2 DEF LaneKept
  <2>4. RequestInv(d)'
    BY <1>5, <1>6, RequestKept DEF generator, server
  <2>5. ChildInv(d)'
    BY <1>5, ChildKept DEF server, scenario
  <2>6. GeneratorInv(d)'
    <3>1. /\ queue'[d] = <<>> \/ d \in queues'
          /\ orphans'[d] = orphans[d] \/ d \notin queues'
      BY <1>5, <1>8 DEF GeneratorInv
    <3> QED
      BY <1>5, <3>1, GeneratorKept DEF generator, server
  <2>7. CancelInv(d)'
    BY <1>5, CancelKept DEF generator
  <2>8. OrderInv(d)' /\ OnceInv(d)'
    BY <1>5, <2>3, OrderKept DEF generator, server, scenario, Streams
  <2>9. ~Lacks(toAgent, MirrorsOf(d))
    <3>1. 1 \in DOMAIN toAgent /\ toAgent[1] \in MirrorsOf(d)
      BY <1>1, <1>4, <1>8, TailFacts
    <3> QED
      BY <3>1 DEF Lacks
  <2>10. EndInv(d)'
    BY <1>5, <2>9 DEF EndInv, InOrder, generator, server, scenario
  <2> QED
    BY <2>4, <2>5, <2>6, <2>7, <2>8, <2>10
<1> QED
  BY <1>7, <1>8

LEMMA ReadsKeep ==
  ASSUME TypeOK, NEW d \in Calls, CallInv(d), ServerReads, UNCHANGED scenario
  PROVE  CallInv(d)'
<1> USE DEF CallInv
<1>1. toServer \in Seq(Requests) /\ toServer # <<>> /\ toServer' = Tail(toServer)
  BY DEF TypeOK, ServerReads
<1>2. Head(toServer) \in Requests
  BY <1>1, TailFacts
<1>3. Head(toServer) \in Asks(d) <=> Head(toServer).type = "ASSIGN_REQUEST" /\ Head(toServer).call = d
  BY <1>2 DEF Asks, Request, Requests
<1>4. UNCHANGED <<generator, postman, toAgent, answered, count, ending, mirrored, cancelSent>>
  BY DEF ServerReads
<1>5. d \in owed' <=> d \in owed \/ Head(toServer) \in Asks(d)
  BY <1>3 DEF ServerReads
<1>6. AnswersKept(d) /\ MirrorsKept(d) /\ LaneKept(d)
  BY <1>4, NoMessage DEF Buffer, postman
<1>7. CASE Head(toServer) \notin Asks(d)
  <2>1. OwnKept(d)
    BY <1>4, <1>5, <1>7 DEF OwnKept, generator, postman
  <2>2. RequestsKept(d)
    BY <1>1, <1>7, RequestLeaves
  <2> QED
    BY <1>6, <2>1, <2>2, Untouched
<1>8. CASE Head(toServer) \in Asks(d)
  <2>1. Asked(d) /\ Lacks(toServer', Asks(d)) /\ Once(toServer', Asks(d))
    <3>1. 1 \in DOMAIN toServer /\ toServer[1] \in Asks(d)
      BY <1>1, <1>8, TailFacts
    <3> QED
      BY <1>1, <1>8, <3>1, LacksTail DEF RequestInv, Asked, Lacks
  <2>2. RequestInv(d)'
    <3>1. ~Asked(d)' /\ (Replied(d)' <=> Replied(d))
      BY <1>4, <2>1 DEF Replied, Asked, Answers, Asks, Request
    <3>2. (Once(toServer, Asks(d)))' /\ (Once(toAgent, Answers(d)))'
      BY <1>4, <2>1 DEF RequestInv, Once, Asks, Answers, Request
    <3>3. (\A i \in DOMAIN toAgent : toAgent[i] \in Answers(d) => (toAgent[i].answer = "task" <=> d \in answered))'
      BY <1>4 DEF RequestInv, Answers
    <3>4. pc[d] # "idle" /\ ~Replied(d) /\ answer[d] = "none" /\ d \notin answered
      BY <2>1 DEF RequestInv
    <3> QED
      BY <1>4, <3>1, <3>2, <3>3, <3>4 DEF RequestInv, generator, postman
  <2>3. ChildInv(d)'
    BY <1>4, <1>5, ChildKept DEF scenario
  <2>4. GeneratorInv(d)'
    BY <1>4, GeneratorKept DEF generator, postman, GeneratorInv
  <2>5. CancelInv(d)'
    BY <1>4, CancelKept DEF generator
  <2>6. OrderInv(d)' /\ OnceInv(d)'
    BY <1>4, <1>6, OrderKept DEF generator, scenario, Streams
  <2>7. EndInv(d)'
    BY <1>4, <1>6, EndKept DEF generator, postman, scenario
  <2> QED
    BY <2>2, <2>3, <2>4, <2>5, <2>6, <2>7
<1> QED
  BY <1>7, <1>8

LEMMA GoesOnKeeps ==
  ASSUME TypeOK, NEW c \in Calls, NEW d \in Calls, CallInv(d), ChildGoesOn(c), UNCHANGED scenario
  PROVE  CallInv(d)'
<1> USE DEF CallInv
<1>1. /\ UNCHANGED <<generator, postman, toServer, toAgent, owed, answered, mirrored, cancelSent>>
      /\ c \in (owed \cup answered \cup earlier) \ Questions /\ ending[c] = "none"
      /\ count' = [count EXCEPT ![c] = @ + 1]
      /\ \A e \in Calls : e # c => ending'[e] = ending[e]
  BY DEF ChildGoesOn, TypeOK
<1>2. RequestsKept(d) /\ AnswersKept(d) /\ MirrorsKept(d) /\ LaneKept(d)
  BY <1>1, NoRequest, NoMessage DEF Buffer, postman
<1>3. CASE d # c
  <2>1. OwnKept(d)
    BY <1>1, <1>3 DEF OwnKept, generator, postman, TypeOK
  <2> QED
    BY <1>2, <2>1, Untouched
<1>4. CASE d = c
  <2>1. RequestInv(d)'
    BY <1>1, <1>2, RequestKept DEF generator, postman
  <2>2. ChildInv(d)'
    <3>1. count'[d] = count[d] + 1 /\ count[d] \in Int /\ mirrored[d] \in Int
      BY <1>1, <1>4, BoundAssumption DEF TypeOK
    <3> QED
      BY <1>1, <1>4, <3>1 DEF ChildInv, scenario
  <2>3. GeneratorInv(d)'
    BY <1>1, GeneratorKept DEF generator, postman, GeneratorInv
  <2>4. CancelInv(d)'
    BY <1>1, CancelKept DEF generator
  <2>5. OrderInv(d)' /\ OnceInv(d)'
    BY <1>1, <1>2, OrderKept DEF generator, scenario, Streams
  <2>6. EndInv(d)'
    <3>1. ~(outcome[d] = "ended" /\ InOrder(d)) /\ ~(outcome[d] \in {"ended", "refused"} /\ d \notin earlier)
      BY <1>1, <1>4 DEF EndInv, RequestInv
    <3> QED
      BY <1>1, <3>1 DEF EndInv, InOrder, generator, scenario
  <2> QED
    BY <2>1, <2>2, <2>3, <2>4, <2>5, <2>6
<1> QED
  BY <1>3, <1>4

LEMMA MirrorsKeep ==
  ASSUME TypeOK, NEW c \in Calls, NEW d \in Calls, CallInv(d), ServerMirrors(c), UNCHANGED scenario
  PROVE  CallInv(d)'
<1> USE DEF CallInv
<1> DEFINE n == mirrored[c] + 1
           x == Mirror(c, n)
<1>1. /\ UNCHANGED <<generator, postman, toServer, owed, answered, count, ending, cancelSent>>
      /\ mirrored[c] < count[c]
      /\ c \in earlier => c \in answered \/ liveFirst
      /\ mirrored' = [mirrored EXCEPT ![c] = n]
      /\ toAgent' = Append(toAgent, x)
  BY DEF ServerMirrors, Mirror
<1>2. mirrored[c] \in Nat /\ count[c] \in Nat /\ n \in Seqs /\ toAgent \in Seq(Messages)
  BY <1>1, BoundAssumption DEF TypeOK, Seqs, Messages
<1>3. x \in Mirrors /\ x \in Messages /\ x.call = c /\ <<x>> \in Seq(Messages)
  BY <1>2 DEF Mirror, Mirrors, Messages
<1>4. toAgent' = toAgent \o <<x>>
  BY <1>1, <1>2, <1>3
<1>5. Buffer(d)' = Buffer(d)
  BY <1>1 DEF Buffer, postman
<1>6. RequestsKept(d) /\ AnswersKept(d)
  <2>1. \A i \in DOMAIN <<x>> : <<x>>[i] \notin Answers(d)
    BY <1>3, Kinds
  <2> QED
    BY <1>1, <1>3, <1>4, <2>1, NoRequest, AnswersJoin
<1>7. CASE d # c
  <2>1. OwnKept(d)
    BY <1>1, <1>7 DEF OwnKept, generator, postman, TypeOK
  <2>2. \A i \in DOMAIN <<x>> : <<x>>[i] \notin MirrorsOf(d)
    BY <1>3, <1>7, Kinds
  <2>3. MirrorsKept(d) /\ LaneKept(d)
    BY <1>3, <1>4, <1>5, <2>2, LaneJoins
  <2> QED
    BY <1>6, <2>1, <2>3, Untouched
<1>8. CASE d = c
  <2>1. RequestInv(d)'
    BY <1>1, <1>6, RequestKept DEF generator, postman
  <2>2. ChildInv(d)'
    BY <1>1, <1>2, <1>8 DEF ChildInv, scenario, TypeOK
  <2>3. GeneratorInv(d)'
    BY <1>1, GeneratorKept DEF generator, postman, GeneratorInv
  <2>4. CancelInv(d)'
    BY <1>1, CancelKept DEF generator
  <2>5. /\ Ordered(Lane(d), d, Taken(d)) /\ Whole(Lane(d), d, Taken(d), mirrored[d]) => Ordered(Lane(d)', d, Taken(d))
        /\ Whole(Lane(d), d, Taken(d), mirrored[d]) => Whole(Lane(d)', d, Taken(d), n)
        /\ Single(Lane(d), d, Taken(d), mirrored[d]) => Single(Lane(d)', d, Taken(d), n)
    <3>1. PICK lane \in Seq(Messages), T \in SUBSET Seqs, m \in Nat : lane = Lane(d) /\ T = Taken(d) /\ m = mirrored[d]
      BY <1>2, <1>8, LaneType, TakenType
    <3>2. Lane(d)' = Append(lane, Mirror(d, m + 1)) /\ m + 1 \in Seqs /\ m + 1 = n
      <4>1. Lane(d)' = Lane(d) \o <<x>>
        BY <1>3, <1>4, <1>5, LaneLonger
      <4> QED
        BY <1>2, <1>3, <1>8, <3>1, <4>1
    <3> HIDE DEF n, x
    <3> QED
      BY <3>1, <3>2, LaneMirrored
  <2>6. /\ mirrored'[d] = n /\ Taken(d)' = Taken(d) /\ (InOrder(d)' <=> InOrder(d)) /\ (Streams(d)' <=> Streams(d))
        /\ UNCHANGED <<taken, answered, earlier>>
    BY <1>1, <1>8 DEF Taken, InOrder, Streams, generator, scenario, TypeOK
  <2>7. /\ (Ordered(Lane(d), d, Taken(d)))' <=> Ordered(Lane(d)', d, Taken(d))
        /\ (Whole(Lane(d), d, Taken(d), mirrored[d]))' <=> Whole(Lane(d)', d, Taken(d), n)
        /\ (Single(Lane(d), d, Taken(d), mirrored[d]))' <=> Single(Lane(d)', d, Taken(d), n)
    BY <2>6 DEF Ordered, Whole, Single, Mirror, Seqs
  <2> HIDE DEF n
  <2>8. OrderInv(d)'
    <3>1. InOrder(d) => d \notin earlier \/ d \in answered
      BY <1>1, <1>8 DEF InOrder
    <3> QED
      BY <2>5, <2>6, <2>7, <3>1 DEF OrderInv
  <2>9. OnceInv(d)'
    BY <2>5, <2>6, <2>7 DEF OnceInv
  <2>10. EndInv(d)'
    <3>1. ~(outcome[d] \in {"ended", "refused"} /\ d \notin earlier)
      BY <1>1, <1>2, <1>8 DEF EndInv
    <3> QED
      BY <1>1, <3>1 DEF EndInv, InOrder, generator, scenario
  <2> QED
    BY <2>1, <2>2, <2>3, <2>4, <2>8, <2>9, <2>10
<1> QED
  BY <1>7, <1>8

\* An answer, and what the server says at once behind it.
LEMMA AnswerAndReplay ==
  ASSUME TypeOK, NEW c \in Calls, NEW x \in Responses
  PROVE  /\ <<x>> \o Replay(c) \in Seq(Messages)
         /\ DOMAIN (<<x>> \o Replay(c)) = 1 .. Len(Replay(c)) + 1 /\ Len(<<x>> \o Replay(c)) = Len(Replay(c)) + 1
         /\ Len(Replay(c)) \in Nat
         /\ (<<x>> \o Replay(c))[1] = x
         /\ \A i \in 1 .. Len(Replay(c)) : (<<x>> \o Replay(c))[i + 1] = Mirror(c, i)
         /\ Append(toAgent, x) \o Replay(c) = toAgent \o (<<x>> \o Replay(c))
         /\ Append(toAgent, x) = toAgent \o <<x>>
<1>1. toAgent \in Seq(Messages) /\ x \in Messages /\ <<x>> \in Seq(Messages) /\ Replay(c) \in Seq(Messages)
  BY ReplayType DEF TypeOK, Messages
<1>2. \A i \in 1 .. Len(Replay(c)) : Replay(c)[i] = Mirror(c, i)
  BY ReplayType
<1> DEFINE r == Replay(c)
<1> HIDE DEF r
<1>3. r \in Seq(Messages) /\ r = Replay(c)
  BY <1>1 DEF r
<1>4. /\ <<x>> \o r \in Seq(Messages) /\ DOMAIN (<<x>> \o r) = 1 .. 1 + Len(r) /\ Len(<<x>> \o r) = 1 + Len(r)
      /\ Len(r) \in Nat /\ (<<x>> \o r)[1] = x
      /\ \A i \in 1 .. Len(r) : (<<x>> \o r)[i + 1] = r[i]
  BY <1>1, <1>3
<1>5. Append(toAgent, x) = toAgent \o <<x>>
  BY <1>1
<1>6. (toAgent \o <<x>>) \o r = toAgent \o (<<x>> \o r)
  BY <1>1, <1>3
<1> QED
  BY <1>2, <1>3, <1>4, <1>5, <1>6

\* What is said of a call that had no answer yet.
LEMMA AnsweredOnce ==
  ASSUME NEW q \in Seq(Messages), NEW s \in Seq(Messages), NEW P, Lacks(q, P), s # <<>>,
         \A i \in DOMAIN s : i # 1 => s[i] \notin P
  PROVE  /\ Once(q \o s, P)
         /\ \A i \in DOMAIN (q \o s) : (q \o s)[i] \in P => (q \o s)[i] = s[1]
<1> DEFINE r == q \o s
<1>1. /\ DOMAIN q = 1 .. Len(q) /\ DOMAIN s = 1 .. Len(s) /\ DOMAIN r = 1 .. Len(q) + Len(s)
      /\ Len(q) \in Nat /\ Len(s) \in Nat
      /\ \A i \in 1 .. Len(q) : r[i] = q[i]
      /\ \A i \in 1 .. Len(s) : r[i + Len(q)] = s[i]
  BY ConcatFacts
<1> HIDE DEF r
<1>2. ASSUME NEW i \in DOMAIN r, r[i] \in P
      PROVE  i = Len(q) + 1
  <2>1. i > Len(q)
    BY <1>1, <1>2 DEF Lacks
  <2>2. i - Len(q) \in DOMAIN s /\ (i - Len(q)) + Len(q) = i
    BY <1>1, <2>1
  <2>3. r[i] = s[i - Len(q)]
    BY <1>1, <2>2
  <2> QED
    BY <1>1, <1>2, <2>2, <2>3
<1>3. Len(s) >= 1
  BY <1>1
<1>4. r[Len(q) + 1] = s[1]
  BY <1>1, <1>3
<1>5. Once(r, P)
  BY <1>2 DEF Once
<1>6. \A i \in DOMAIN r : r[i] \in P => r[i] = s[1]
  BY <1>2, <1>4
<1> QED
  BY <1>5, <1>6 DEF r

LEMMA AnswersKeep ==
  ASSUME TypeOK, NEW c \in Calls, NEW d \in Calls, CallInv(d), ServerAnswers(c), UNCHANGED scenario
  PROVE  CallInv(d)'
<1> USE DEF CallInv
<1>1. /\ UNCHANGED <<generator, postman, toServer, count, ending, mirrored, cancelSent>>
      /\ c \in owed /\ owed' = owed \ {c} /\ toAgent \in Seq(Messages)
  BY DEF ServerAnswers, TypeOK, Messages
<1>2. PICK a \in {"task", "error"}, s \in Seq(Messages) :
        /\ toAgent' = toAgent \o s
        /\ s # <<>> /\ s[1] = [call |-> c, answer |-> a]
        /\ \A i \in DOMAIN s : i # 1 => s[i] \in MirrorsOf(c)
        /\ IF a = "task" THEN s = <<s[1]>> \o Replay(c) /\ answered' = answered \cup {c}
                         ELSE c \notin earlier /\ count[c] = 0 /\ Len(s) = 1 /\ answered' = answered
  <2>1. CASE /\ c \notin earlier /\ count[c] = 0 /\ UNCHANGED answered
             /\ toAgent' = Append(toAgent, [call |-> c, answer |-> "error"])
    <3> DEFINE x == [call |-> c, answer |-> "error"]
               s == <<x>>
    <3>1. x \in Responses /\ x \in Messages
      BY DEF Responses, Messages
    <3>2. toAgent' = toAgent \o s
      BY <2>1, <3>1, AnswerAndReplay
    <3> HIDE DEF x
    <3>3. s \in Seq(Messages) /\ s # <<>> /\ s[1] = x /\ DOMAIN s = {1} /\ Len(s) = 1
      BY <3>1
    <3> QED
      BY <2>1, <3>2, <3>3 DEF x
  <2>2. CASE /\ toAgent' = Append(toAgent, [call |-> c, answer |-> "task"]) \o Replay(c)
             /\ answered' = answered \cup {c}
    <3> DEFINE x == [call |-> c, answer |-> "task"]
               s == <<x>> \o Replay(c)
    <3>1. x \in Responses
      BY DEF Responses
    <3>2. /\ toAgent' = toAgent \o s /\ s \in Seq(Messages) /\ s[1] = x
          /\ DOMAIN s = 1 .. Len(Replay(c)) + 1 /\ Len(s) = Len(Replay(c)) + 1 /\ Len(Replay(c)) \in Nat
          /\ \A i \in 1 .. Len(Replay(c)) : s[i + 1] = Mirror(c, i)
      BY <2>2, <3>1, AnswerAndReplay
    <3>3. s = <<s[1]>> \o Replay(c)
      BY <3>2
    <3> HIDE DEF s
    <3>4. ASSUME NEW i \in DOMAIN s, i # 1
          PROVE  s[i] \in MirrorsOf(c)
      <4>1. i - 1 \in 1 .. Len(Replay(c)) /\ (i - 1) + 1 = i
        BY <3>2, <3>4
      <4>2. s[i] = Mirror(c, i - 1) /\ i - 1 \in Seqs
        BY <3>2, <4>1, ReplayType
      <4> QED
        BY <4>2 DEF MirrorsOf, Mirror
    <3>5. s # <<>>
      BY <3>2
    <3> QED
      BY <2>2, <3>2, <3>3, <3>4, <3>5
  <2> QED
    BY <2>1, <2>2 DEF ServerAnswers
<1>3. s[1] \in Responses /\ s[1] \in Messages /\ s[1].call = c /\ s[1].answer = a
  BY <1>2 DEF Responses, Messages
<1>4. \A i \in DOMAIN s : s[i] \in Messages
  OBVIOUS
<1>5. \A i \in DOMAIN s : i # 1 => s[i] \in Mirrors /\ s[i].call = c
  BY <1>2 DEF MirrorsOf, Mirrors
<1>6. Buffer(d)' = Buffer(d) /\ RequestsKept(d)
  BY <1>1, NoRequest DEF Buffer, postman
<1>7. CASE d # c
  <2>1. OwnKept(d)
    BY <1>1, <1>2, <1>7 DEF OwnKept, generator, postman
  <2>2. \A i \in DOMAIN s : s[i] \notin Answers(d) /\ s[i] \notin MirrorsOf(d)
    <3>1. s[1] \notin Answers(d) /\ s[1] \notin MirrorsOf(d)
      BY <1>3, <1>7, Kinds
    <3>2. \A i \in DOMAIN s : i # 1 => s[i] \notin Answers(d) /\ s[i] \notin MirrorsOf(d)
      BY <1>4, <1>5, <1>7, Kinds
    <3> QED
      BY <3>1, <3>2
  <2>3. AnswersKept(d) /\ MirrorsKept(d) /\ LaneKept(d)
    BY <1>2, <1>6, <2>2, MessagesJoin
  <2> QED
    BY <1>6, <2>1, <2>3, Untouched
<1>8. CASE d = c
  <2>1. ~Asked(d) /\ ~Replied(d) /\ answer[d] = "none" /\ d \notin answered /\ pc[d] # "idle" /\ d \notin queues
    BY <1>1, <1>8 DEF RequestInv, GeneratorInv
  <2>2. d \in answered' <=> a = "task"
    BY <1>2, <1>8, <2>1
  <2>3. /\ Once(toAgent', Answers(d))
        /\ \A i \in DOMAIN toAgent' : toAgent'[i] \in Answers(d) => toAgent'[i] = s[1]
    <3>1. Lacks(toAgent, Answers(d))
      BY <2>1 DEF Replied
    <3>2. \A i \in DOMAIN s : i # 1 => s[i] \notin Answers(d)
      BY <1>4, <1>5, Kinds
    <3> QED
      BY <1>1, <1>2, <3>1, <3>2, AnsweredOnce
  <2>4. RequestInv(d)'
    <3>1. Asked(d)' <=> Asked(d)
      BY <1>1 DEF Asked, Asks, Request
    <3>2. (Once(toServer, Asks(d)))' /\ (Once(toAgent, Answers(d)))'
      BY <1>1, <2>3 DEF RequestInv, Once, Asks, Answers, Request
    <3>3. (\A i \in DOMAIN toAgent : toAgent[i] \in Answers(d) => (toAgent[i].answer = "task" <=> d \in answered))'
      BY <1>3, <2>2, <2>3 DEF Answers
    <3> QED
      BY <1>1, <1>8, <2>1, <3>1, <3>2, <3>3 DEF RequestInv, generator, postman
  <2>5. ChildInv(d)'
    BY <1>1, <1>2, <1>8 DEF ChildInv, scenario
  <2>6. GeneratorInv(d)'
    BY <1>1, <2>1, GeneratorKept DEF generator, postman, GeneratorInv
  <2>7. CancelInv(d)'
    BY <1>1, CancelKept DEF generator
  <2>8. OrderInv(d)' /\ OnceInv(d)'
    <3>1. CASE d \notin earlier
      <4>1. DOMAIN s = {1}
        <5>1. CASE a = "error"
          BY <1>2, <5>1
        <5>2. CASE a = "task"
          <6>1. s = <<s[1]>> \o Replay(c) /\ Len(Replay(c)) = 0
            BY <1>2, <1>8, <3>1, <5>2, ReplayType
          <6>2. DOMAIN s = 1 .. Len(Replay(c)) + 1
            BY <1>3, <6>1, AnswerAndReplay
          <6> QED
            BY <6>1, <6>2
        <5> QED
          BY <5>1, <5>2
      <4>2. \A i \in DOMAIN s : s[i] \notin MirrorsOf(d)
        BY <1>3, <4>1, Kinds
      <4>3. LaneKept(d)
        BY <1>2, <1>6, <4>2, LaneJoins
      <4> QED
        BY <1>1, <3>1, <4>3, OrderKept DEF generator, scenario, Streams
    <3>2. CASE d \in earlier
      <4>1. ASSUME InOrder(d), Streams(d)
            PROVE  Ordered(Lane(d)', d, Taken(d)) /\ Whole(Lane(d)', d, Taken(d), mirrored[d])
        <5>1. PICK n \in 0 .. MaxSeq : n = count[d]
          BY DEF TypeOK
        <5>2. mirrored[d] \in 0 .. n
          <6>1. mirrored[d] \in 0 .. MaxSeq /\ mirrored[d] <= count[d]
            BY DEF TypeOK, ChildInv
          <6> QED
            BY <5>1, <6>1, BoundAssumption
        <5>3. PICK lane \in Seq(Messages), T \in SUBSET Seqs, m \in 0 .. n :
                 lane = Lane(d) /\ T = Taken(d) /\ m = mirrored[d]
          BY <5>2, LaneType, TakenType
        <5>4. Replays(s, d, n)
          <6>1. s = <<s[1]>> \o Replay(c) /\ Len(Replay(c)) = n
            BY <1>2, <1>8, <3>2, <5>1, ReplayType
          <6>2. Len(s) = n + 1 /\ \A i \in 1 .. n : s[i + 1] = Mirror(d, i)
            BY <1>3, <1>8, <6>1, AnswerAndReplay
          <6>3. \A seq \in Seqs : s[1] # Mirror(d, seq)
            BY <1>3, Kinds
          <6> QED
            BY <6>2, <6>3 DEF Replays
        <5>5. Ordered(lane, d, T)
          BY <4>1, <5>3 DEF OrderInv
        <5>6. Ordered(lane \o s, d, T) /\ Whole(lane \o s, d, T, m)
          BY <5>4, <5>5, LaneReplayed
        <5>7. Lane(d)' = lane \o s
          BY <1>2, <1>6, <5>3, LaneLonger
        <5> QED
          BY <5>3, <5>6, <5>7
      <4>2. /\ Taken(d)' = Taken(d) /\ (InOrder(d)' <=> InOrder(d)) /\ (Streams(d)' <=> Streams(d))
            /\ UNCHANGED <<taken, mirrored, earlier>>
        BY <1>1 DEF Taken, InOrder, Streams, generator, scenario
      <4>3. /\ (Ordered(Lane(d), d, Taken(d)))' <=> Ordered(Lane(d)', d, Taken(d))
            /\ (Whole(Lane(d), d, Taken(d), mirrored[d]))' <=> Whole(Lane(d)', d, Taken(d), mirrored[d])
        BY <4>2 DEF Ordered, Whole, Mirror, Seqs
      <4> QED
        BY <3>2, <4>1, <4>2, <4>3 DEF OrderInv, OnceInv
    <3> QED
      BY <3>1, <3>2
  <2>9. EndInv(d)'
    BY <1>1, <2>1 DEF EndInv, InOrder, generator, scenario
  <2> QED
    BY <2>4, <2>5, <2>6, <2>7, <2>8, <2>9
<1> QED
  BY <1>7, <1>8

-----------------------------------------------------------------------------
(* The theorems.                                                           *)

LEMMA InitInv == Init => IInv
<1> SUFFICES ASSUME Init, NEW c \in Calls PROVE CallInv(c)
  BY InitType DEF IInv
<1>1. /\ pc[c] = "idle" /\ outcome[c] = "none" /\ taken[c] = <<>> /\ answer[c] = "none"
      /\ pending = {} /\ queues = {} /\ queue[c] = <<>> /\ orphans[c] = <<>>
      /\ toServer = <<>> /\ toAgent = <<>> /\ owed = {} /\ answered = {} /\ cancelSent = {}
  BY DEF Init
<1>2. TypeOK
  BY InitType
<1>3. DOMAIN toServer = {} /\ DOMAIN toAgent = {} /\ DOMAIN taken[c] = {}
  BY <1>1
<1>4. mirrored[c] <= count[c] /\ (c \notin earlier => count[c] = 0 /\ mirrored[c] = 0) /\ c \notin earlier \cap Questions
  <2>1. PICK n \in [earlier -> 0 .. MaxSeq], over \in SUBSET earlier, told \in [earlier -> 0 .. MaxSeq] :
          /\ \A e \in earlier : told[e] <= n[e] /\ (e \in over <=> n[e] = MaxSeq)
          /\ count = [e \in Calls |-> IF e \in earlier THEN n[e] ELSE 0]
          /\ mirrored = [e \in Calls |-> IF e \in earlier THEN told[e] ELSE 0]
          /\ ending = [e \in Calls |-> IF e \in over THEN "completed" ELSE "none"]
    BY Zenon DEF Init
  <2> QED
    BY <2>1 DEF Init
<1>5. RequestInv(c) /\ ChildInv(c) /\ GeneratorInv(c) /\ CancelInv(c)
  BY <1>1, <1>3, <1>4 DEF RequestInv, Once, Asked, Replied, Lacks, ChildInv, GeneratorInv, IsInjective, CancelInv
<1>6. DOMAIN Lane(c) = {}
  <2>1. Buffer(c) = <<>> /\ <<>> \in Seq(Seqs) /\ <<>> \in Seq(Messages) /\ toAgent = <<>>
    BY <1>1 DEF Buffer
  <2>2. Marked(c, <<>>) \in Seq(Messages) /\ Len(Marked(c, <<>>)) = 0
    BY <2>1, MarkedFacts
  <2>3. DOMAIN (Marked(c, <<>>) \o <<>>) = 1 .. 0 + 0
    BY <2>1, <2>2, ConcatFacts
  <2> QED
    BY <2>1, <2>3 DEF Lane
<1>7. Taken(c) = {}
  BY <1>3 DEF Taken
<1>8. OrderInv(c)
  <2>1. Ordered(Lane(c), c, Taken(c))
    BY <1>6 DEF Ordered
  <2>2. c \notin earlier \/ c \in answered => Whole(Lane(c), c, Taken(c), mirrored[c])
    BY <1>1, <1>4 DEF Whole
  <2> QED
    BY <1>3, <2>1, <2>2 DEF OrderInv
<1>9. OnceInv(c)
  BY <1>6, <1>7 DEF OnceInv, Single
<1>10. EndInv(c)
  BY <1>1 DEF EndInv
<1> QED
  BY <1>5, <1>8, <1>9, <1>10 DEF CallInv

LEMMA Stutters ==
  ASSUME TypeOK, NEW d \in Calls, CallInv(d), UNCHANGED vars
  PROVE  CallInv(d)'
<1>1. OwnKept(d) /\ UNCHANGED <<toServer, toAgent>>
  BY DEF vars, OwnKept, generator, postman, server
<1>2. RequestsKept(d) /\ AnswersKept(d) /\ MirrorsKept(d) /\ LaneKept(d)
  BY <1>1, NoRequest, NoMessage, OwnBuffer DEF CallInv
<1> QED
  BY <1>1, <1>2, Untouched

LEMMA StepKeeps == ASSUME TypeOK, NEW d \in Calls, CallInv(d), Next PROVE CallInv(d)'
<1>1. UNCHANGED scenario
  BY DEF Next, Same
<1>2. ASSUME NEW c \in Calls, GeneratorStep(c)
      PROVE  CallInv(d)'
  <2>1. CASE c = d
    BY <1>1, <1>2, <2>1, GeneratorKeeps
  <2>2. CASE c # d
    BY <1>1, <1>2, <2>2, OthersGenerator
  <2> QED
    BY <2>1, <2>2
<1>3. ASSUME NEW c \in Calls, ServerAnswers(c)
      PROVE  CallInv(d)'
  BY <1>1, <1>3, AnswersKeep
<1>4. ASSUME NEW c \in Calls, ChildGoesOn(c)
      PROVE  CallInv(d)'
  BY <1>1, <1>4, GoesOnKeeps
<1>5. ASSUME NEW c \in Calls, ServerMirrors(c)
      PROVE  CallInv(d)'
  BY <1>1, <1>5, MirrorsKeep
<1>6. CASE HandleResponse
  BY <1>1, <1>6, ResponseKeeps
<1>7. CASE HandleEvent
  BY <1>1, <1>7, EventKeeps
<1>8. CASE ServerReads
  BY <1>1, <1>8, ReadsKeep
<1> QED
  BY <1>2, <1>3, <1>4, <1>5, <1>6, <1>7, <1>8 DEF Next, Step, GeneratorStep

\* The invariant above holds of every state the agent, its calls and the server reach.
THEOREM Inductive == Spec => []IInv
<1>1. Init => IInv
  BY InitInv
<1>2. IInv /\ [Next]_vars => IInv'
  <2> SUFFICES ASSUME IInv, [Next]_vars PROVE IInv'
    OBVIOUS
  <2>1. TypeOK'
    BY TypeStep DEF IInv
  <2>2. ASSUME NEW d \in Calls PROVE CallInv(d)'
    BY StepKeeps, Stutters DEF IInv
  <2> QED
    BY <2>1, <2>2 DEF IInv
<1> QED
  BY <1>1, <1>2, PTL DEF Spec

-----------------------------------------------------------------------------
(* What a call that is over leaves behind.                                 *)

Unmade(c) == count[c] + 1 .. MaxSeq
UnmadeMirrors(c) == [call : {c}, seq : Unmade(c)]
Refusals(c) == [call : {c}, answer : {"error"}]

\* Whatever is on its way or held for a call is of an event its child has made.
MadeInv(c) == Lacks(Buffer(c), Unmade(c)) /\ Lacks(toAgent, UnmadeMirrors(c))

\* A call that knew its task has put the queue away, and no answer brings it back.
LeftInv(c) ==
    /\ Streams(c) => c \notin cancelSent
    /\ pc[c] = "done" /\ (outcome[c] # "cancelled" \/ c \in cancelSent) =>
          c \notin queues /\ answer[c] # "none"
    /\ outcome[c] = "answered" \/ c \in Questions => c \in Questions /\ c \notin queues

\* A child that was found again is not refused.
FoundInv(c) == c \in earlier =>
    answer[c] # "error" /\ outcome[c] # "refused" /\ Lacks(toAgent, Refusals(c))

LateInv(c) == MadeInv(c) /\ LeftInv(c) /\ FoundInv(c)

LEMMA LateUntouched ==
  ASSUME NEW d \in Calls, LateInv(d), OwnKept(d), UNCHANGED toAgent
  PROVE  LateInv(d)'
<1>1. Buffer(d)' = Buffer(d) /\ Unmade(d)' = Unmade(d)
  BY OwnBuffer DEF OwnKept, Unmade
<1>2. MadeInv(d)'
  BY <1>1 DEF LateInv, MadeInv, Lacks, UnmadeMirrors
<1>3. LeftInv(d)'
  BY DEF LateInv, LeftInv, OwnKept, Streams
<1>4. FoundInv(d)'
  BY DEF LateInv, FoundInv, OwnKept, scenario, Lacks, Refusals
<1> QED
  BY <1>2, <1>3, <1>4 DEF LateInv

LEMMA MadeKept ==
  ASSUME NEW c \in Calls, MadeInv(c), UNCHANGED toAgent, count'[c] = count[c], Lacks(Buffer(c)', Unmade(c))
  PROVE  MadeInv(c)'
BY DEF MadeInv, Lacks, Unmade, UnmadeMirrors

\* A call ends.
LEMMA EndLeaves ==
  ASSUME TypeOK, NEW c \in Calls, CallInv(c), LateInv(c), pc[c] # "done",
         NEW how \in {"ended", "answered", "refused", "cancelled", "closed"}, End(c, how),
         UNCHANGED <<taken, answer, toAgent, server, scenario>>,
         pc[c] \in {"idle", "asking"} /\ how # "cancelled" => c \notin queues /\ answer[c] # "none",
         pc[c] \in {"idle", "asking"} => c \notin cancelSent',
         how = "answered" => c \in Questions, how = "refused" => c \notin earlier
  PROVE  LateInv(c)'
<1> USE DEF CallInv, LateInv
<1>1. pc'[c] = "done" /\ outcome'[c] = how /\ c \notin pending'
  BY DEF TypeOK, End, CleanUp
<1>2. Lacks(Buffer(c)', Unmade(c))
  BY DEF TypeOK, End, CleanUp, MadeInv, Lacks, Buffer
<1>3. MadeInv(c)'
  BY <1>2, MadeKept DEF server
<1>4. c \in queues' => c \in queues /\ pc[c] \in {"idle", "asking"}
  BY DEF End, CleanUp
<1>5. pc[c] \notin {"idle", "asking"} => answer[c] # "none"
  BY DEF TypeOK, GeneratorInv
<1>6. LeftInv(c)'
  BY <1>1, <1>4, <1>5 DEF LeftInv, Streams
<1>7. FoundInv(c)'
  BY <1>1 DEF FoundInv, scenario, Lacks, Refusals
<1> QED
  BY <1>3, <1>6, <1>7

\* A call goes on: nothing of it is over.
LEMMA GoesOnLeaves ==
  ASSUME NEW c \in Calls, LateInv(c), pc'[c] # "done", outcome'[c] = outcome[c],
         Streams(c)' => Streams(c) /\ c \notin cancelSent',
         c \in queues' => c \in queues \/ c \notin Questions,
         Lacks(Buffer(c)', Unmade(c)), UNCHANGED <<answer, toAgent, server, scenario>>
  PROVE  LateInv(c)'
<1>1. MadeInv(c)'
  BY MadeKept DEF LateInv, server
<1>2. LeftInv(c)'
  BY DEF LateInv, LeftInv
<1>3. FoundInv(c)'
  BY DEF LateInv, FoundInv, scenario, Lacks, Refusals
<1> QED
  BY <1>1, <1>2, <1>3 DEF LateInv

LEMMA GeneratorLeaves ==
  ASSUME TypeOK, NEW c \in Calls, CallInv(c), LateInv(c), GeneratorStep(c), UNCHANGED scenario
  PROVE  LateInv(c)'
<1> USE DEF CallInv
<1>1. Streams(c) => c \notin cancelSent
  BY DEF LateInv, LeftInv
<1>2. queue[c] \in Seq(Seqs) /\ pc \in [Calls -> {"idle", "asking", "streaming", "yielded", "cancelling", "interrupting", "done"}]
  BY DEF TypeOK
<1>3. queue[c] # <<>> /\ c \in queues => Lacks(Tail(queue[c]), Unmade(c))
  BY <1>2, LacksTail DEF LateInv, MadeInv, Buffer
<1>4. CASE Ask(c)
  <2>1. pc'[c] = "asking" /\ Streams(c) /\ Buffer(c)' = Buffer(c)
    BY <1>2, <1>4 DEF Ask, Streams, Buffer
  <2> QED
    BY <1>1, <1>4, <2>1, GoesOnLeaves DEF Ask, LateInv, MadeInv
<1>5. CASE Answered(c)
  <2>1. pc[c] = "asking" /\ answer[c] # "none" /\ Streams(c) /\ UNCHANGED <<taken, answer, toServer, toAgent, server, cancelSent>>
    BY <1>5 DEF Answered, Streams
  <2>2. CASE answer[c] = "error" /\ End(c, "refused")
    <3>1. c \notin queues /\ c \notin earlier
      BY <2>2 DEF RequestInv, GeneratorInv, LateInv, FoundInv
    <3> QED
      BY <1>1, <2>1, <2>2, <3>1, EndLeaves
  <2>3. CASE answer[c] = "task" /\ c \in Questions /\ End(c, "answered")
    <3>1. c \notin queues
      BY <2>3 DEF LateInv, LeftInv
    <3> QED
      BY <1>1, <2>1, <2>3, <3>1, EndLeaves
  <2>4. CASE c \notin Questions /\ pc' = [pc EXCEPT ![c] = "streaming"] /\ Bound(c) /\ UNCHANGED <<outcome, pending>>
    <3>1. Buffer(c)' = Buffer(c)
      BY <2>4, BoundKeeps
    <3>2. pc'[c] = "streaming"
      BY <1>2, <2>4
    <3> QED
      BY <1>1, <2>1, <2>4, <3>1, <3>2, GoesOnLeaves DEF LateInv, MadeInv
  <2> QED
    BY <1>5, <2>2, <2>3, <2>4 DEF Answered
<1>6. CASE Take(c)
  <2>1. pc[c] = "streaming" /\ c \in queues /\ queue[c] # <<>> /\ Streams(c)
    BY <1>6 DEF Take, GeneratorInv, Streams
  <2>2. pc'[c] \in {"streaming", "yielded"} /\ UNCHANGED outcome
    BY <1>2, <1>6, <2>1 DEF Take, generator
  <2>3. Buffer(c)' = Tail(queue[c])
    BY <1>6, <2>1 DEF Take, Buffer, TypeOK
  <2> QED
    BY <1>1, <1>3, <1>6, <2>1, <2>2, <2>3, GoesOnLeaves DEF Take
<1>7. CASE Resume(c)
  <2>1. pc[c] = "yielded" /\ Streams(c) /\ UNCHANGED <<taken, answer, toServer, toAgent, server, cancelSent>>
    BY <1>7 DEF Resume, Streams
  <2>2. CASE End(c, "ended")
    BY <2>1, <2>2, EndLeaves
  <2>3. CASE pc' = [pc EXCEPT ![c] = "streaming"] /\ UNCHANGED <<outcome, pending, queues, queue, orphans>>
    <3>1. pc'[c] = "streaming" /\ Buffer(c)' = Buffer(c)
      BY <1>2, <2>3 DEF Buffer
    <3> QED
      BY <1>1, <2>1, <2>3, <3>1, GoesOnLeaves DEF LateInv, MadeInv
  <2> QED
    BY <1>7, <2>2, <2>3 DEF Resume
<1>8. CASE CancelAsking(c)
  <2>1. pc[c] = "asking" /\ Streams(c)
    BY <1>8 DEF CancelAsking, Streams
  <2> QED
    BY <1>1, <1>8, <2>1, EndLeaves DEF CancelAsking
<1>9. CASE CancelStreaming(c)
  <2>1. pc'[c] = "cancelling" /\ ~Streams(c)' /\ Buffer(c)' = Buffer(c)
    BY <1>2, <1>9 DEF CancelStreaming, Streams, Buffer, postman
  <2> QED
    BY <1>9, <2>1, GoesOnLeaves DEF CancelStreaming, postman, LateInv, MadeInv
<1>10. CASE Close(c)
  BY <1>10, EndLeaves DEF Close
<1>11. CASE Drain(c)
  <2>1. pc[c] \in {"cancelling", "interrupting"} /\ c \in queues /\ queue[c] # <<>> /\ ~Streams(c)
    BY <1>11 DEF Drain, GeneratorInv, Streams
  <2>2. CASE End(c, "cancelled")
    BY <1>11, <2>1, <2>2, EndLeaves DEF Drain
  <2>3. CASE queue' = [queue EXCEPT ![c] = Tail(@)] /\ UNCHANGED <<pc, outcome, pending, queues, orphans>>
    <3>1. Buffer(c)' = Tail(queue[c]) /\ ~Streams(c)' /\ pc'[c] # "done"
      BY <2>1, <2>3 DEF Buffer, TypeOK, Streams
    <3> QED
      BY <1>3, <1>11, <2>1, <2>3, <3>1, GoesOnLeaves DEF Drain
  <2> QED
    BY <1>11, <2>2, <2>3 DEF Drain
<1>12. CASE Unconfirmed(c)
  <2>1. pc[c] \in {"cancelling", "interrupting"} /\ UNCHANGED <<taken, answer, toAgent, server, cancelSent>>
    BY <1>12 DEF Unconfirmed
  <2>2. CASE End(c, "cancelled")
    BY <2>1, <2>2, EndLeaves
  <2>3. CASE pc' = [pc EXCEPT ![c] = "interrupting"] /\ UNCHANGED <<outcome, pending, queues, queue, orphans>>
    <3>1. pc'[c] = "interrupting" /\ ~Streams(c)' /\ Buffer(c)' = Buffer(c)
      BY <1>2, <2>3 DEF Streams, Buffer
    <3> QED
      BY <2>1, <2>3, <3>1, GoesOnLeaves DEF LateInv, MadeInv
  <2> QED
    BY <1>12, <2>2, <2>3 DEF Unconfirmed
<1>13. CASE CancelAgain(c)
  BY <1>13, EndLeaves DEF CancelAgain
<1> QED
  BY <1>4, <1>5, <1>6, <1>7, <1>8, <1>9, <1>10, <1>11, <1>12, <1>13 DEF GeneratorStep

\* The postman is handed a message, of d or of another call.
LEMMA MessagesLeave ==
  ASSUME TypeOK, NEW d \in Calls, LateInv(d), toAgent # <<>>, toAgent' = Tail(toAgent), UNCHANGED <<server, scenario>>
  PROVE  /\ Lacks(toAgent', UnmadeMirrors(d)')
         /\ d \in earlier => Lacks(toAgent', Refusals(d))
         /\ \A s \in Seqs : Head(toAgent) = Mirror(d, s) => s \notin Unmade(d)
         /\ d \in earlier => Head(toAgent) \notin Refusals(d)
<1>1. toAgent \in Seq(Messages)
  BY DEF TypeOK, Messages
<1>2. UnmadeMirrors(d)' = UnmadeMirrors(d)
  BY DEF UnmadeMirrors, Unmade, server
<1>3. Lacks(toAgent', UnmadeMirrors(d)) /\ Head(toAgent) \notin UnmadeMirrors(d)
  BY <1>1, LacksTail DEF LateInv, MadeInv
<1>4. d \in earlier => Lacks(toAgent', Refusals(d)) /\ Head(toAgent) \notin Refusals(d)
  BY <1>1, LacksTail DEF LateInv, FoundInv
<1>5. \A s \in Unmade(d) : Mirror(d, s) \in UnmadeMirrors(d)
  BY DEF Mirror, UnmadeMirrors
<1> QED
  BY <1>2, <1>3, <1>4, <1>5

LEMMA ResponseLeaves ==
  ASSUME TypeOK, NEW d \in Calls, CallInv(d), LateInv(d), HandleResponse, UNCHANGED scenario
  PROVE  LateInv(d)'
<1> USE DEF CallInv
<1>1. toAgent \in Seq(Messages) /\ toAgent # <<>> /\ toAgent' = Tail(toAgent)
  BY DEF TypeOK, Messages, HandleResponse
<1>2. Head(toAgent) \in Responses /\ Head(toAgent) \in Messages /\ Head(toAgent) = toAgent[1] /\ 1 \in DOMAIN toAgent
  BY <1>1, TailFacts DEF HandleResponse
<1>3. PICK c \in Calls, a \in {"task", "error"} : c = Head(toAgent).call /\ a = Head(toAgent).answer
  BY <1>2, Kinds
<1>4. /\ UNCHANGED <<generator, pending, toServer, server, cancelSent>>
      /\ (a = "task" /\ c \notin Questions /\ Bound(c)) \/ UNCHANGED <<queues, queue, orphans>>
      /\ answer' = IF c \in pending THEN [answer EXCEPT ![c] = a] ELSE answer
  BY <1>3 DEF HandleResponse
<1>5. /\ Lacks(toAgent', UnmadeMirrors(d)')
      /\ d \in earlier => Lacks(toAgent', Refusals(d)) /\ Head(toAgent) \notin Refusals(d)
  BY <1>1, <1>4, MessagesLeave
<1>6. Refusals(d)' = Refusals(d) /\ Unmade(d)' = Unmade(d)
  BY <1>4 DEF Refusals, Unmade, server
<1>7. /\ Buffer(d)' = Buffer(d)
      /\ d \in queues' => d \in queues \/ (d = c /\ d \notin Questions)
  <2>1. CASE UNCHANGED <<queues, queue, orphans>>
    BY <2>1 DEF Buffer
  <2>2. CASE c \notin Questions /\ Bound(c) /\ c = d
    BY <2>2, BoundKeeps
  <2>3. CASE c \notin Questions /\ Bound(c) /\ c # d
    BY <2>3 DEF Bound, Buffer, TypeOK
  <2> QED
    BY <1>4, <2>1, <2>2, <2>3
<1>8. MadeInv(d)'
  <2>1. Lacks(Buffer(d)', Unmade(d)')
    BY <1>6, <1>7 DEF LateInv, MadeInv
  <2> QED
    BY <1>5, <2>1 DEF MadeInv, Lacks
<1>9. d = c => answer[d] = "none" /\ pc[d] # "idle"
  <2>1. d = c => Replied(d)
    BY <1>2, <1>3, Kinds DEF Replied, Lacks
  <2> QED
    BY <2>1 DEF RequestInv
<1>10. answer'[d] = IF d = c /\ d \in pending THEN a ELSE answer[d]
  BY <1>4 DEF TypeOK
<1>11. LeftInv(d)'
  BY <1>4, <1>7, <1>9, <1>10 DEF LateInv, LeftInv, generator, Streams
<1>12. FoundInv(d)'
  <2>1. d = c /\ a = "error" => Head(toAgent) \in Refusals(d)
    <3>1. PICK c0 \in Calls, a0 \in {"task", "error"} : Head(toAgent) = [call |-> c0, answer |-> a0]
      BY <1>2 DEF Responses
    <3>2. c0 = c /\ a0 = a
      BY <1>3, <3>1
    <3> QED
      BY <3>1, <3>2 DEF Refusals
  <2>2. d \in earlier => answer'[d] # "error"
    BY <1>5, <1>10, <2>1 DEF LateInv, FoundInv
  <2> QED
    BY <1>4, <1>5, <1>6, <2>2 DEF LateInv, FoundInv, generator, scenario, Lacks
<1> QED
  BY <1>8, <1>11, <1>12 DEF LateInv

LEMMA EventLeaves ==
  ASSUME TypeOK, NEW d \in Calls, CallInv(d), LateInv(d), HandleEvent, UNCHANGED scenario
  PROVE  LateInv(d)'
<1>1. toAgent \in Seq(Messages) /\ toAgent # <<>> /\ toAgent' = Tail(toAgent)
  BY DEF TypeOK, Messages, HandleEvent
<1>2. Head(toAgent) \in Mirrors /\ Head(toAgent) \in Messages
  BY <1>1, TailFacts DEF HandleEvent
<1>3. PICK c \in Calls, s \in Seqs : c = Head(toAgent).call /\ s = Head(toAgent).seq /\ Head(toAgent) = Mirror(c, s)
  BY <1>2, Kinds
<1>4. /\ UNCHANGED <<generator, pending, answer, queues, toServer, server, cancelSent>>
      /\ \/ c \in queues /\ queue' = [queue EXCEPT ![c] = Append(@, s)] /\ UNCHANGED orphans
         \/ c \notin queues /\ orphans' = [orphans EXCEPT ![c] = Append(@, s)] /\ UNCHANGED queue
  BY <1>3 DEF HandleEvent, Park
<1>5. /\ Lacks(toAgent', UnmadeMirrors(d)')
      /\ d \in earlier => Lacks(toAgent', Refusals(d))
      /\ d = c => s \notin Unmade(d)
  BY <1>1, <1>3, <1>4, MessagesLeave
<1>6. Refusals(d)' = Refusals(d) /\ Unmade(d)' = Unmade(d)
  BY <1>4 DEF Refusals, Unmade, server
<1>7. Buffer(d)' = IF d = c THEN Append(Buffer(d), s) ELSE Buffer(d)
  <2>1. CASE c \in queues /\ queue' = [queue EXCEPT ![c] = Append(@, s)] /\ UNCHANGED orphans
    BY <1>4, <2>1 DEF Buffer, TypeOK
  <2>2. CASE c \notin queues /\ orphans' = [orphans EXCEPT ![c] = Append(@, s)] /\ UNCHANGED queue
    BY <1>4, <2>2 DEF Buffer, TypeOK
  <2> QED
    BY <1>4, <2>1, <2>2
<1>8. Lacks(Buffer(d)', Unmade(d))
  <2>1. Buffer(d) \in Seq(Seqs) /\ Lacks(Buffer(d), Unmade(d))
    BY BufferType DEF LateInv, MadeInv
  <2> QED
    BY <1>5, <1>7, <2>1, LacksAppend
<1>9. MadeInv(d)'
  BY <1>5, <1>6, <1>8 DEF MadeInv, Lacks
<1>10. LeftInv(d)'
  BY <1>4 DEF LateInv, LeftInv, generator, Streams
<1>11. FoundInv(d)'
  BY <1>4, <1>5, <1>6 DEF LateInv, FoundInv, generator, scenario, Lacks
<1> QED
  BY <1>9, <1>10, <1>11 DEF LateInv

\* The server's steps: of the child's events, it mirrors and replays those that are.
LEMMA ServerLeaves ==
  ASSUME TypeOK, NEW d \in Calls, CallInv(d), LateInv(d), UNCHANGED scenario,
         ServerReads \/ \E c \in Calls : ServerAnswers(c) \/ ChildGoesOn(c) \/ ServerMirrors(c)
  PROVE  LateInv(d)'
<1>1. UNCHANGED generator /\ UNCHANGED postman /\ UNCHANGED cancelSent /\ Buffer(d)' = Buffer(d)
  BY DEF ServerReads, ServerAnswers, ChildGoesOn, ServerMirrors, Buffer, postman
<1>2. LeftInv(d)'
  BY <1>1 DEF LateInv, LeftInv, generator, postman, Streams
<1>3. toAgent \in Seq(Messages) /\ count[d] \in 0 .. MaxSeq /\ mirrored[d] \in 0 .. MaxSeq
  BY DEF TypeOK, Messages
<1>4. Lacks(toAgent, UnmadeMirrors(d)) /\ Lacks(Buffer(d), Unmade(d)) /\ (d \in earlier => Lacks(toAgent, Refusals(d)))
  BY DEF LateInv, MadeInv, FoundInv
<1> DEFINE Goes == /\ Lacks(toAgent', UnmadeMirrors(d)') /\ Unmade(d)' \subseteq Unmade(d)
                   /\ d \in earlier => Lacks(toAgent', Refusals(d)')
<1>5. Goes
  <2>1. CASE ServerReads
    BY <1>4, <2>1 DEF ServerReads, Unmade, UnmadeMirrors, Refusals
  <2>2. ASSUME NEW c \in Calls, ServerAnswers(c)
        PROVE  Goes
    <3>1. count' = count /\ UnmadeMirrors(d)' = UnmadeMirrors(d) /\ Refusals(d)' = Refusals(d) /\ Unmade(d)' = Unmade(d)
      BY <2>2 DEF ServerAnswers, UnmadeMirrors, Unmade, Refusals
    <3>2. PICK a \in {"task", "error"} :
             /\ toAgent' = IF a = "task" THEN Append(toAgent, [call |-> c, answer |-> a]) \o Replay(c)
                                         ELSE Append(toAgent, [call |-> c, answer |-> a])
             /\ a = "error" => c \notin earlier
      BY <2>2 DEF ServerAnswers
    <3> DEFINE x == [call |-> c, answer |-> a]
    <3>3. x \in Responses /\ x \in Messages /\ x.call = c /\ x.answer = a
      BY DEF Responses, Messages
    <3>4. x \notin UnmadeMirrors(d)
      <4>1. x \notin MirrorsOf(d)
        BY <3>3, Kinds
      <4>2. Unmade(d) \subseteq Seqs
        BY <1>3, BoundAssumption DEF Unmade, Seqs
      <4> QED
        BY <4>1, <4>2 DEF UnmadeMirrors, MirrorsOf
    <3>5. d \in earlier => x \notin Refusals(d)
      BY <3>2, <3>3 DEF Refusals
    <3> HIDE DEF x
    <3>6. /\ Append(toAgent, x) \in Seq(Messages) /\ Lacks(Append(toAgent, x), UnmadeMirrors(d))
          /\ d \in earlier => Lacks(Append(toAgent, x), Refusals(d))
      BY <1>3, <1>4, <3>3, <3>4, <3>5, AppendFacts, LacksAppend
    <3>7. Replay(c) \in Seq(Messages) /\ \A i \in 1 .. Len(Replay(c)) : Replay(c)[i] = Mirror(c, i)
      BY ReplayType
    <3>8. Lacks(Replay(c), UnmadeMirrors(d)) /\ Lacks(Replay(c), Refusals(d))
      <4> SUFFICES ASSUME NEW i \in DOMAIN Replay(c)
                   PROVE  Replay(c)[i] \notin UnmadeMirrors(d) /\ Replay(c)[i] \notin Refusals(d)
        BY DEF Lacks
      <4>1. DOMAIN Replay(c) = 1 .. Len(Replay(c))
        BY <3>7
      <4>2. Replay(c)[i] = Mirror(c, i) /\ i \in Seqs
        BY <4>1, ReplayType
      <4>3. Mirror(c, i) \in Messages /\ Mirror(c, i) \in Mirrors /\ Mirror(c, i).call = c /\ Mirror(c, i).seq = i
        BY <4>2 DEF Mirror, Mirrors, Messages
      <4>4. Mirror(c, i) \notin Answers(d)
        BY <4>3, Kinds
      <4>5. c = d => i <= count[d]
        BY <4>1, ReplayType, <1>3, BoundAssumption
      <4>6. Mirror(c, i) \notin UnmadeMirrors(d)
        <5> SUFFICES ASSUME Mirror(c, i) \in UnmadeMirrors(d) PROVE FALSE
          OBVIOUS
        <5>1. c = d /\ i \in Unmade(d)
          BY <4>3 DEF UnmadeMirrors
        <5> QED
          BY <1>3, <4>5, <5>1, BoundAssumption DEF Unmade
      <4>7. Refusals(d) \subseteq Answers(d)
        BY DEF Refusals, Answers
      <4> QED
        BY <4>2, <4>4, <4>6, <4>7
    <3>9. /\ Lacks(Append(toAgent, x) \o Replay(c), UnmadeMirrors(d))
          /\ d \in earlier => Lacks(Append(toAgent, x) \o Replay(c), Refusals(d))
      BY <3>6, <3>7, <3>8, LacksConcat
    <3> QED
      BY <3>1, <3>2, <3>6, <3>9 DEF x
  <2>3. ASSUME NEW c \in Calls, ChildGoesOn(c)
        PROVE  Goes
    <3>1. UNCHANGED toAgent /\ count'[d] \in {count[d], count[d] + 1}
      BY <2>3 DEF ChildGoesOn, TypeOK
    <3>2. Unmade(d)' \subseteq Unmade(d)
      BY <1>3, <3>1, BoundAssumption DEF Unmade
    <3>3. Refusals(d)' = Refusals(d) /\ UnmadeMirrors(d)' \subseteq UnmadeMirrors(d)
      BY <3>2 DEF Refusals, UnmadeMirrors
    <3> QED
      BY <1>4, <3>1, <3>2, <3>3 DEF Lacks
  <2>4. ASSUME NEW c \in Calls, ServerMirrors(c)
        PROVE  Goes
    <3>1. count' = count /\ UnmadeMirrors(d)' = UnmadeMirrors(d) /\ Refusals(d)' = Refusals(d) /\ Unmade(d)' = Unmade(d)
      BY <2>4 DEF ServerMirrors, UnmadeMirrors, Unmade, Refusals
    <3>2. mirrored[c] \in 0 .. MaxSeq /\ count[c] \in 0 .. MaxSeq /\ mirrored[c] < count[c]
      BY <2>4 DEF ServerMirrors, TypeOK
    <3>3. PICK s \in Seqs : s = mirrored[c] + 1 /\ s <= count[c]
      BY <3>2, BoundAssumption DEF Seqs
    <3>4. toAgent' = Append(toAgent, Mirror(c, s))
      BY <2>4, <3>3 DEF ServerMirrors, Mirror
    <3>5. Mirror(c, s) \in Messages /\ Mirror(c, s) \in Mirrors /\ Mirror(c, s).call = c /\ Mirror(c, s).seq = s
      BY DEF Mirror, Mirrors, Messages
    <3>6. Mirror(c, s) \notin UnmadeMirrors(d)
      <4> SUFFICES ASSUME Mirror(c, s) \in UnmadeMirrors(d) PROVE FALSE
        OBVIOUS
      <4>1. c = d /\ s \in Unmade(d)
        BY <3>5 DEF UnmadeMirrors
      <4> QED
        BY <3>2, <3>3, <4>1, BoundAssumption DEF Unmade
    <3>7. Mirror(c, s) \notin Refusals(d)
      <4>1. Mirror(c, s) \notin Answers(d)
        BY <3>5, Kinds
      <4> QED
        BY <4>1 DEF Refusals, Answers
    <3> QED
      BY <1>3, <1>4, <3>1, <3>4, <3>5, <3>6, <3>7, LacksAppend
  <2> QED
    BY <2>1, <2>2, <2>3, <2>4
<1>6. MadeInv(d)'
  BY <1>1, <1>4, <1>5 DEF MadeInv, Lacks
<1>7. FoundInv(d)'
  BY <1>1, <1>5 DEF LateInv, FoundInv, generator, postman, scenario
<1> QED
  BY <1>2, <1>6, <1>7 DEF LateInv

LEMMA LateInit == ASSUME Init, NEW c \in Calls PROVE LateInv(c)
<1>1. /\ pc[c] = "idle" /\ outcome[c] = "none" /\ answer[c] = "none" /\ queues = {}
      /\ orphans[c] = <<>> /\ toAgent = <<>> /\ cancelSent = {}
  BY DEF Init
<1>2. DOMAIN toAgent = {} /\ DOMAIN Buffer(c) = {}
  BY <1>1 DEF Buffer
<1> QED
  BY <1>1, <1>2 DEF LateInv, MadeInv, LeftInv, FoundInv, Lacks

LEMMA LateStep == ASSUME TypeOK, NEW d \in Calls, CallInv(d), LateInv(d), [Next]_vars PROVE LateInv(d)'
<1>1. CASE UNCHANGED vars
  BY <1>1, LateUntouched DEF vars, OwnKept, generator, postman, server
<1>2. CASE Next
  <2>1. UNCHANGED scenario
    BY <1>2 DEF Next, Same
  <2>2. ASSUME NEW c \in Calls, GeneratorStep(c)
        PROVE  LateInv(d)'
    BY <2>1, <2>2, GeneratorLeaves, OthersKept, LateUntouched
  <2>3. CASE HandleResponse
    BY <2>1, <2>3, ResponseLeaves
  <2>4. CASE HandleEvent
    BY <2>1, <2>4, EventLeaves
  <2>5. CASE ServerReads \/ \E c \in Calls : ServerAnswers(c) \/ ChildGoesOn(c) \/ ServerMirrors(c)
    BY <2>1, <2>5, ServerLeaves
  <2> QED
    BY <1>2, <2>2, <2>3, <2>4, <2>5 DEF Next, Step, GeneratorStep
<1> QED
  BY <1>1, <1>2

\* What is held or on its way is of the child's events, for as long as it may come.
THEOREM LateInductive == Spec => [](\A c \in Calls : LateInv(c))
<1> DEFINE Late == \A c \in Calls : LateInv(c)
<1>1. Init => Late
  BY LateInit
<1>2. IInv /\ Late /\ [Next]_vars => Late'
  <2> SUFFICES ASSUME IInv, Late, [Next]_vars, NEW d \in Calls PROVE LateInv(d)'
    OBVIOUS
  <2> QED
    BY LateStep DEF IInv
<1> QED
  BY <1>1, <1>2, Inductive, PTL DEF Spec

-----------------------------------------------------------------------------
(* What holds.                                                             *)

\* The types of AgentPostman: the postman's tables are about calls, and the socket
\* carries requests one way, answers and mirrors of events the other.
THEOREM TypesHold == Spec => []TypeOK
<1>1. IInv => TypeOK
  BY DEF IInv
<1> QED
  BY <1>1, Inductive, PTL

\* A call takes its child's events each once, in order and without a gap, and ends
\* only with the last, in whatever order the answer, the mirrors and the replay of a
\* child found again arrive.  (_ensure_queue, handle_execution_event, seen in
\* _astream.)
THEOREM StreamInOrderHolds == Spec => []StreamInOrder
<1>1. IInv => StreamInOrder
  BY DEF IInv, CallInv, GeneratorInv, OrderInv, EndInv, InOrder, StreamInOrder
<1> QED
  BY <1>1, Inductive, PTL

\* What a call that is over leaves in the postman, whatever still arrives: never its
\* request; a queue only where it was cancelled before it learned its task; parked events
\* only of a child it went away from, or of one found again, and then none that it has
\* not taken.  (The finally of _astream, handle_response, handle_execution_event.)
THEOREM OnlyLateEventsStayHolds == Spec => []OnlyLateEventsStay
<1>1. IInv /\ (\A c \in Calls : LateInv(c)) => OnlyLateEventsStay
  <2> SUFFICES ASSUME TypeOK, NEW c \in Calls, CallInv(c), LateInv(c), pc[c] = "done"
               PROVE  /\ c \notin pending
                      /\ c \in queues => outcome[c] = "cancelled" /\ c \notin cancelSent
                      /\ orphans[c] # <<>> =>
                            \/ outcome[c] \in {"cancelled", "closed"}
                            \/ /\ outcome[c] = "ended" /\ c \in earlier
                               /\ liveFirst \/ Range(orphans[c]) \subseteq Range(taken[c])
    BY DEF IInv, OnlyLateEventsStay
  <2>1. c \notin pending /\ outcome[c] # "none"
    BY DEF CallInv, GeneratorInv
  <2>2. c \in queues => outcome[c] = "cancelled" /\ c \notin cancelSent
    BY DEF LateInv, LeftInv
  <2>3. ASSUME orphans[c] # <<>>, outcome[c] \notin {"cancelled", "closed"}
        PROVE  /\ outcome[c] = "ended" /\ c \in earlier
               /\ liveFirst \/ Range(orphans[c]) \subseteq Range(taken[c])
    <3>1. orphans[c] \in Seq(Seqs) /\ taken[c] \in Seq(Seqs) /\ count[c] \in 0 .. MaxSeq
      BY DEF TypeOK
    <3>2. c \notin queues /\ Buffer(c) = orphans[c]
      BY <2>3 DEF LateInv, LeftInv, Buffer
    <3>3. \A i \in DOMAIN orphans[c] : orphans[c][i] \in 1 .. count[c]
      <4> SUFFICES ASSUME NEW i \in DOMAIN orphans[c] PROVE orphans[c][i] \in 1 .. count[c]
        OBVIOUS
      <4>1. orphans[c][i] \in Seqs /\ orphans[c][i] \notin Unmade(c)
        BY <3>1, <3>2 DEF LateInv, MadeInv, Lacks
      <4> QED
        BY <3>1, <4>1, BoundAssumption DEF Seqs, Unmade
    <3>4. 1 \in DOMAIN orphans[c]
      BY <2>3, <3>1
    <3>5. outcome[c] # "refused"
      BY <2>3 DEF LateInv, FoundInv, CallInv, EndInv
    <3>6. outcome[c] # "answered"
      BY <3>3, <3>4 DEF LateInv, LeftInv, CallInv, ChildInv
    <3>7. outcome[c] = "ended"
      BY <2>1, <2>3, <3>5, <3>6 DEF TypeOK
    <3>8. c \in earlier
      BY <2>3, <3>7 DEF CallInv, EndInv
    <3>9. ASSUME ~liveFirst
          PROVE  Range(orphans[c]) \subseteq Range(taken[c])
      <4>1. Len(taken[c]) = count[c] /\ \A i \in DOMAIN taken[c] : taken[c][i] = i
        BY <3>7, <3>9 DEF CallInv, OrderInv, EndInv, InOrder
      <4>2. DOMAIN taken[c] = 1 .. count[c]
        BY <3>1, <4>1
      <4> QED
        BY <3>3, <4>1, <4>2 DEF Range
    <3> QED
      BY <3>7, <3>8, <3>9
  <2> QED
    BY <2>1, <2>2, <2>3
<1> QED
  BY <1>1, Inductive, LateInductive, PTL

\* A child whose caller went away after it heard from it is cancelled.
\* (_confirm_cancellation and the GeneratorExit of _astream.)
THEOREM AbandonedChildIsCancelledHolds == Spec => []AbandonedChildIsCancelled
<1>1. IInv => AbandonedChildIsCancelled
  BY DEF IInv, CallInv, CancelInv, AbandonedChildIsCancelled
<1> QED
  BY <1>1, Inductive, PTL

=============================================================================
