------------------------- MODULE GraphQLPostman_proofs -------------------------
(***************************************************************************)
(* Proofs about GraphQLPostman, for any number of calls, of events and of  *)
(* changes: a call's stream is in order and whole whatever the feed loses, *)
(* a call is told of a feed that is gone, and it leaves no queue and no    *)
(* reader behind.                                                          *)
(***************************************************************************)
EXTENDS GraphQLPostman, FiniteSetTheorems, SequenceTheorems, TLAPS

-----------------------------------------------------------------------------
(* The invariant.                                                          *)

\* The feed runs if it is watched, and carries something once it is subscribed.  It
\* comes alive before what it carries is handed on.
FeedInv ==
    /\ watching <=> feed # "off"
    /\ feedLive \/ changes # <<>> => feed = "subscribed"
    /\ behind # {} => feedLive

Waits(c) == pc[c] \in {"assigning", "unanswered", "first", "waiting", "yielded"}

\* Nothing is known of a task the server does not hold, nor of events it has not.
HistoryInv(c) ==
    /\ ending[c] = "none" => count[c] < MaxSeq
    /\ pc[c] = "idle" /\ c \notin Elsewhere => c \notin created
    /\ c \in bound => c \in created
    /\ c \notin created => count[c] = 0
    /\ \A seq \in routed[c] : seq <= count[c]
    /\ \A by \in Readers : asked[<<by, c>>] <= count[c]
    /\ \A i \in DOMAIN changes : changes[i].call = c => c \in created /\ changes[i].seq <= count[c]

\* Where the generator of c is, and what the postman holds for it.
GeneratorInv(c) ==
    /\ c \in Elsewhere => pc[c] = "idle"
    /\ pc[c] = "done" <=> outcome[c] # "none"
    /\ pc[c] \in {"idle", "assigning", "unanswered", "first"} => taken[c] = <<>>
    /\ pc[c] = "yielded" => taken[c] # <<>>
    /\ Waits(c) \/ pc[c] \in {"cancelling", "interrupting"} => c \in queues
    /\ pc[c] = "idle" \/ (pc[c] = "done" /\ outcome[c] # "abandoned") => c \notin queues
    /\ pc[c] \in {"first", "waiting", "yielded", "cancelling", "interrupting"} => c \in bound
    /\ c \notin queues => queue[c] = <<>>
    /\ c \in bound /\ c \in queues => orphans[c] = <<>>
    /\ pc[c] = "first" <=> asked[<<"first", c>>] # NoRead
    /\ c \in again => pc[c] \in {"waiting", "yielded", "cancelling", "interrupting"}
    /\ asked[<<"feed", c>>] # NoRead => c \in behind
    /\ c \in behind => c \in bound \/ pc[c] = "done"

\* A call that waits was told that the feed is gone, if it is.
HeardInv(c) == Waits(c) => feed # "off" \/ FeedLost \in Range(queue[c])

\* What the postman holds for the generator of c, of which it will hand on, in this
\* order, what is ahead of the loss of the feed.
Ahead(c) == queue[c] \o orphans[c]
Taken(c) == {taken[c][i] : i \in DOMAIN taken[c]}
Streams(c) == pc[c] \in {"assigning", "first", "waiting", "yielded"}

\* Each event was routed once, and is taken or waits.
Single(q, T) ==
    /\ \A i \in DOMAIN q : q[i] # FeedLost => q[i] \notin T
    /\ \A i, j \in DOMAIN q : q[i] # FeedLost /\ q[i] = q[j] => i = j
OnceInv(c) == Streams(c) \/ (pc[c] = "idle" /\ c \notin Elsewhere) =>
    /\ Single(Ahead(c), Taken(c))
    /\ routed[c] = Taken(c) \cup (Range(Ahead(c)) \ {FeedLost})

\* What an event follows is in T, or ahead of it, unless the feed was lost before.
Lost(q, i) == \E j \in 1 .. i : q[j] = FeedLost
Ordered(q, T) ==
    \A i \in DOMAIN q : Lost(q, i) \/ \A n \in 1 .. q[i] - 1 : n \in T \/ \E j \in 1 .. i - 1 : q[j] = n

\* Of the events of c that the feed carries: what they follow is in S, or ahead of
\* them; and all those up to m are in S, or on it.
FeedOrdered(ch, c, S) ==
    \A i \in DOMAIN ch : ch[i].call = c =>
        \A n \in 1 .. ch[i].seq - 1 : n \in S \/ \E j \in 1 .. i - 1 : (ch[j].call = c /\ ch[j].seq = n)
FeedWhole(ch, c, S, m) ==
    \A n \in 1 .. m : n \in S \/ \E j \in DOMAIN ch : (ch[j].call = c /\ ch[j].seq = n)

\* What the first read will bring, and what the feed's read will.
First(c) == IF pc[c] = "first" THEN 1 .. asked[<<"first", c>>] ELSE {}
Missed(c) == IF c \in behind
             THEN 1 .. IF asked[<<"feed", c>>] = NoRead THEN count[c] ELSE asked[<<"feed", c>>]
             ELSE {}

\* The calls that rely on the order of what comes: they were assigned while the feed
\* was alive, or have asked for their history.
Relies(c) == c \notin unread /\ (Streams(c) /\ (pc[c] = "assigning" => wasLive[c]))
Sources(c) == Taken(c) \cup First(c) \cup Range(Ahead(c)) \cup Missed(c)

OrderInv(c) ==
    /\ c \notin unread => \A i \in DOMAIN taken[c] : taken[c][i] = i
    /\ Relies(c) =>
          /\ Ordered(Ahead(c), Taken(c) \cup First(c))
          /\ FeedLost \notin Range(Ahead(c)) =>
                /\ wasLive[c] => feedLive
                /\ feedLive => /\ FeedOrdered(changes, c, Sources(c))
                               /\ FeedWhole(changes, c, Sources(c), count[c])

\* A call that ended saw the last event.
EndInv(c) == outcome[c] = "ended" /\ c \notin unread => Len(taken[c]) = count[c] /\ ending[c] # "none"

CallInv(c) == HistoryInv(c) /\ GeneratorInv(c) /\ HeardInv(c) /\ OnceInv(c) /\ OrderInv(c) /\ EndInv(c)

IInv == TypeOK /\ FeedInv /\ \A c \in Calls : CallInv(c)

-----------------------------------------------------------------------------
(* Sequences.                                                              *)

LEMMA TailFacts ==
  ASSUME NEW S, NEW q \in Seq(S), q # <<>>
  PROVE  /\ 1 \in DOMAIN q /\ Head(q) = q[1] /\ Head(q) \in S /\ Tail(q) \in Seq(S)
         /\ DOMAIN q = 1 .. Len(q) /\ DOMAIN Tail(q) = 1 .. Len(q) - 1
         /\ Len(q) \in Nat \ {0} /\ Len(Tail(q)) = Len(q) - 1
         /\ \A i \in 1 .. Len(q) - 1 : Tail(q)[i] = q[i + 1]
OBVIOUS

LEMMA AppendFacts ==
  ASSUME NEW S, NEW q \in Seq(S), NEW x \in S
  PROVE  /\ Append(q, x) \in Seq(S) /\ Len(q) \in Nat
         /\ DOMAIN q = 1 .. Len(q) /\ DOMAIN Append(q, x) = 1 .. Len(q) + 1
         /\ Len(Append(q, x)) = Len(q) + 1
         /\ Append(q, x)[Len(q) + 1] = x
         /\ \A i \in 1 .. Len(q) : Append(q, x)[i] = q[i]
OBVIOUS

LEMMA ConcatFacts ==
  ASSUME NEW S, NEW p \in Seq(S), NEW q \in Seq(S)
  PROVE  /\ p \o q \in Seq(S) /\ Len(p) \in Nat /\ Len(q) \in Nat
         /\ DOMAIN p = 1 .. Len(p) /\ DOMAIN q = 1 .. Len(q)
         /\ DOMAIN (p \o q) = 1 .. Len(p) + Len(q)
         /\ Len(p \o q) = Len(p) + Len(q)
         /\ \A i \in 1 .. Len(p) : (p \o q)[i] = p[i]
         /\ \A i \in 1 .. Len(q) : (p \o q)[i + Len(p)] = q[i]
OBVIOUS

\* t is s without what is not in S: e says where in s each of it was.
Embeds(e, t, s, S) ==
    /\ e \in [DOMAIN t -> DOMAIN s]
    /\ \A i \in DOMAIN t : t[i] = s[e[i]] /\ s[e[i]] \in S
    /\ \A i, j \in DOMAIN t : i < j => e[i] < e[j]
    /\ \A k \in DOMAIN s : s[k] \in S => \E i \in DOMAIN t : e[i] = k

LEMMA OnlyFacts ==
  ASSUME NEW U, NEW s \in Seq(U), NEW S
  PROVE  Only(s, S) \in Seq(U) /\ \E e : Embeds(e, Only(s, S), s, S)
<1> DEFINE at == {i \in DOMAIN s : s[i] \in S}
           Below(i) == {j \in at : j <= i}
           Rank(i) == Cardinality(Below(i))
           n == Cardinality(at)
           e == [k \in 1 .. n |-> CHOOSE i \in at : Rank(i) = k]
           t == [k \in 1 .. n |-> s[CHOOSE i \in at : Rank(i) = k]]
<1>1. t = Only(s, S)
  BY DEF Only
<1>2. DOMAIN s = 1 .. Len(s) /\ Len(s) \in Nat /\ at \subseteq Int /\ \A i \in DOMAIN s : s[i] \in U
  OBVIOUS
<1>3. IsFiniteSet(at) /\ n \in Nat
  <2>1. IsFiniteSet(1 .. Len(s))
    BY <1>2, FS_Interval
  <2>2. at \in SUBSET (1 .. Len(s))
    BY <1>2
  <2> HIDE DEF at
  <2>3. IsFiniteSet(at)
    BY <2>1, <2>2, FS_Subset
  <2> QED
    BY <2>3, FS_CardinalityType
<1>4. \A i \in at : s[i] \in S /\ i \in DOMAIN s
  OBVIOUS
<1>5. \A k \in DOMAIN s : s[k] \in S => k \in at
  OBVIOUS
<1> HIDE DEF at
<1>6. ASSUME NEW i \in at
      PROVE  Rank(i) \in 1 .. n /\ IsFiniteSet(Below(i)) /\ Rank(i) \in Nat
  <2>1. Below(i) \in SUBSET at /\ i \in Below(i)
    BY <1>2
  <2> HIDE DEF Below
  <2>2. IsFiniteSet(Below(i)) /\ Rank(i) <= n
    BY <1>3, <2>1, FS_Subset
  <2>3. Rank(i) \in Nat /\ Rank(i) # 0
    BY <2>1, <2>2, FS_CardinalityType, FS_EmptySet
  <2> HIDE DEF Rank, n
  <2> QED
    BY <1>3, <2>2, <2>3
<1>7. ASSUME NEW i \in at, NEW j \in at, i < j
      PROVE  Rank(i) < Rank(j)
  <2>0. i \in Int /\ j \in Int /\ i < j
    BY <1>2, <1>7
  <2>1. Below(i) \in SUBSET Below(j) /\ j \in Below(j) /\ j \notin Below(i)
    <3>1. \A k \in Below(i) : k \in at /\ k \in Int /\ k <= i
      BY <1>2
    <3>2. \A k \in Below(i) : k \in Below(j)
      BY <2>0, <3>1
    <3>3. j \in Below(j)
      BY <2>0
    <3>4. j \notin Below(i)
      BY <2>0
    <3> HIDE DEF Below
    <3> QED
      BY <3>2, <3>3, <3>4
  <2>2. IsFiniteSet(Below(j)) /\ Rank(i) \in Nat /\ Rank(j) \in Nat
    BY <1>6
  <2> HIDE DEF Below
  <2>3. Rank(i) <= Rank(j) /\ (Rank(i) = Rank(j) => Below(i) = Below(j))
    BY <2>1, <2>2, FS_Subset
  <2> HIDE DEF Rank
  <2> QED
    BY <2>1, <2>2, <2>3
<1> HIDE DEF Below
<1>8. \A i, j \in at : Rank(i) = Rank(j) => i = j
  <2> SUFFICES ASSUME NEW i \in at, NEW j \in at, Rank(i) = Rank(j) PROVE i = j
    OBVIOUS
  <2> HIDE DEF Rank
  <2> QED
    BY <1>2, <1>6, <1>7
<1>9. \A k \in 1 .. n : \E i \in at : Rank(i) = k
  <2> DEFINE f == [i \in at |-> Rank(i)]
  <2>1. f \in [at -> 1 .. n] /\ \A i, j \in at : f[i] = f[j] => i = j
    BY <1>6, <1>8
  <2>2. f \in Injection(at, 1 .. n)
    BY <2>1 DEF Injection, IsInjective
  <2>3. IsFiniteSet(1 .. n) /\ Cardinality(1 .. n) = n
    <3> HIDE DEF n
    <3>1. IsFiniteSet(1 .. n) /\ Cardinality(1 .. n) = IF 1 > n THEN 0 ELSE n - 1 + 1
      BY <1>3, FS_Interval
    <3> QED
      BY <1>3, <3>1
  <2> HIDE DEF f
  <2>4. f \in Surjection(at, 1 .. n)
    BY <2>2, <2>3, FS_Injection
  <2>5. \A k \in 1 .. n : \E i \in at : f[i] = k
    BY <2>4 DEF Surjection
  <2> QED
    BY <2>5 DEF f
<1>10. \A k \in 1 .. n : e[k] \in at /\ Rank(e[k]) = k
  BY <1>9
<1>11. DOMAIN e = 1 .. n /\ DOMAIN t = 1 .. n /\ t \in Seq(U) /\ \A k \in 1 .. n : t[k] = s[e[k]]
  <2>1. \A k \in 1 .. n : t[k] = s[e[k]] /\ t[k] \in U
    BY <1>2, <1>4, <1>10
  <2>2. DOMAIN e = 1 .. n /\ DOMAIN t = 1 .. n
    OBVIOUS
  <2>3. t = [k \in 1 .. n |-> t[k]]
    OBVIOUS
  <2> HIDE DEF t, n, e
  <2>4. t \in [1 .. n -> U]
    BY <2>1, <2>3
  <2>5. t \in Seq(U)
    BY <1>3, <2>4
  <2> QED
    BY <2>1, <2>2, <2>5
<1> HIDE DEF e, t, n, Rank
<1>12. ASSUME NEW i \in 1 .. n, NEW j \in 1 .. n, i < j
       PROVE  e[i] < e[j]
  <2>1. e[i] \in at /\ e[j] \in at /\ Rank(e[i]) = i /\ Rank(e[j]) = j
    BY <1>10
  <2>2. e[i] \in Int /\ e[j] \in Int /\ i \in Int /\ j \in Int
    <3>1. e[i] \in Int /\ e[j] \in Int
      BY <1>2, <2>1
    <3> QED
      BY <1>3, <3>1
  <2>3. e[j] < e[i] => Rank(e[j]) < Rank(e[i])
    BY <1>7, <2>1
  <2>4. e[j] = e[i] => Rank(e[j]) = Rank(e[i])
    OBVIOUS
  <2> QED
    BY <1>12, <2>1, <2>2, <2>3, <2>4
<1>13. ASSUME NEW k \in DOMAIN s, s[k] \in S
       PROVE  \E i \in 1 .. n : e[i] = k
  <2>1. k \in at /\ Rank(k) \in 1 .. n
    BY <1>5, <1>6, <1>13
  <2>2. e[Rank(k)] \in at /\ Rank(e[Rank(k)]) = Rank(k)
    BY <1>10, <2>1
  <2> QED
    BY <1>8, <2>1, <2>2
<1>14. e \in [DOMAIN t -> DOMAIN s]
  BY <1>4, <1>10, <1>11 DEF e
<1>15. Embeds(e, t, s, S)
  BY <1>4, <1>10, <1>11, <1>12, <1>13, <1>14 DEF Embeds
<1> QED
  BY <1>1, <1>11, <1>15

Events == Seqs \cup {FeedLost}

LEMMA EventFacts == /\ Seqs \subseteq Nat /\ FeedLost \notin Seqs /\ Events \subseteq Nat /\ FeedLost = 0
                    /\ Seqs \subseteq Events /\ MaxSeq \in Nat
BY BoundAssumption DEF Seqs, FeedLost, Events

LEMMA RangeFacts ==
  ASSUME NEW S, NEW q \in Seq(S)
  PROVE  /\ Range(q) \subseteq S
         /\ q # <<>> => Range(q) = Range(Tail(q)) \cup {Head(q)}
         /\ \A x \in S : Range(Append(q, x)) = Range(q) \cup {x}
         /\ \A r \in Seq(S) : Range(q \o r) = Range(q) \cup Range(r)
<1>1. Range(q) \subseteq S
  BY DEF Range
<1>2. ASSUME q # <<>>
      PROVE  Range(q) = Range(Tail(q)) \cup {Head(q)}
  <2>1. /\ 1 \in DOMAIN q /\ Head(q) = q[1]
        /\ DOMAIN q = 1 .. Len(q) /\ DOMAIN Tail(q) = 1 .. Len(q) - 1
        /\ Len(q) \in Nat \ {0}
        /\ \A i \in 1 .. Len(q) - 1 : Tail(q)[i] = q[i + 1]
    BY <1>2, TailFacts
  <2>2. ASSUME NEW i \in DOMAIN q
        PROVE  q[i] \in Range(Tail(q)) \cup {Head(q)}
    <3>1. CASE i = 1
      BY <2>1, <3>1
    <3>2. CASE i # 1
      <4>1. i - 1 \in DOMAIN Tail(q) /\ Tail(q)[i - 1] = q[(i - 1) + 1] /\ (i - 1) + 1 = i
        BY <2>1, <2>2, <3>2
      <4> QED
        BY <4>1 DEF Range
    <3> QED
      BY <3>1, <3>2
  <2>3. ASSUME NEW i \in DOMAIN Tail(q)
        PROVE  Tail(q)[i] \in Range(q)
    <3>1. i + 1 \in DOMAIN q /\ Tail(q)[i] = q[i + 1]
      BY <2>1, <2>3
    <3> QED
      BY <3>1 DEF Range
  <2> QED
    BY <2>1, <2>2, <2>3 DEF Range
<1>3. ASSUME NEW x \in S
      PROVE  Range(Append(q, x)) = Range(q) \cup {x}
  <2> DEFINE r == Append(q, x)
  <2>1. /\ DOMAIN q = 1 .. Len(q) /\ DOMAIN r = 1 .. Len(q) + 1 /\ Len(q) \in Nat
        /\ r[Len(q) + 1] = x
        /\ \A i \in 1 .. Len(q) : r[i] = q[i]
    BY AppendFacts
  <2> HIDE DEF r
  <2>2. \A i \in DOMAIN r : r[i] \in Range(q) \cup {x}
    BY <2>1 DEF Range
  <2>3. Len(q) + 1 \in DOMAIN r /\ \A i \in DOMAIN q : i \in DOMAIN r
    BY <2>1
  <2>4. Range(r) = Range(q) \cup {x}
    BY <2>1, <2>2, <2>3 DEF Range
  <2> QED
    BY <2>4 DEF r
<1>4. ASSUME NEW p \in Seq(S)
      PROVE  Range(q \o p) = Range(q) \cup Range(p)
  <2> DEFINE r == q \o p
  <2>1. /\ DOMAIN q = 1 .. Len(q) /\ DOMAIN p = 1 .. Len(p) /\ DOMAIN r = 1 .. Len(q) + Len(p)
        /\ Len(q) \in Nat /\ Len(p) \in Nat
        /\ \A i \in 1 .. Len(q) : r[i] = q[i]
        /\ \A i \in 1 .. Len(p) : r[i + Len(q)] = p[i]
    BY ConcatFacts
  <2> HIDE DEF r
  <2>2. ASSUME NEW i \in DOMAIN r
        PROVE  r[i] \in Range(q) \cup Range(p)
    <3>1. CASE i <= Len(q)
      <4>1. i \in DOMAIN q
        BY <2>1, <2>2, <3>1
      <4> QED
        BY <2>1, <4>1 DEF Range
    <3>2. CASE i > Len(q)
      <4>1. i - Len(q) \in DOMAIN p /\ (i - Len(q)) + Len(q) = i
        BY <2>1, <2>2, <3>2
      <4> QED
        BY <2>1, <4>1 DEF Range
    <3> QED
      BY <2>1, <2>2, <3>1, <3>2
  <2>3. ASSUME NEW i \in DOMAIN q
        PROVE  q[i] \in Range(r)
    <3>1. i \in DOMAIN r /\ r[i] = q[i]
      BY <2>1, <2>3
    <3> QED
      BY <3>1 DEF Range
  <2>4. ASSUME NEW i \in DOMAIN p
        PROVE  p[i] \in Range(r)
    <3>1. i + Len(q) \in DOMAIN r /\ r[i + Len(q)] = p[i]
      BY <2>1, <2>4
    <3> QED
      BY <3>1 DEF Range
  <2>5. Range(r) = Range(q) \cup Range(p)
    BY <2>2, <2>3, <2>4 DEF Range
  <2> QED
    BY <2>5 DEF r
<1> QED
  BY <1>1, <1>2, <1>3, <1>4

\* What is in t stood in s, in the same order, and was kept for being in S.
Thinned(t, s, S) ==
    /\ \A i \in DOMAIN t : \E k \in DOMAIN s :
          /\ t[i] = s[k] /\ s[k] \in S
          /\ \A l \in 1 .. k : s[l] \in S => \E j \in 1 .. i : t[j] = s[l] /\ (l < k => j < i)
    /\ \A i, j \in DOMAIN t : i < j =>
          \E k, l \in DOMAIN s : k < l /\ t[i] = s[k] /\ t[j] = s[l]

LEMMA OnlyKeeps ==
  ASSUME NEW U, NEW s \in Seq(U), NEW S
  PROVE  Only(s, S) \in Seq(U) /\ Range(Only(s, S)) = Range(s) \cap S /\ Thinned(Only(s, S), s, S)
<1>0. PICK t : t = Only(s, S)
  OBVIOUS
<1>1. t \in Seq(U)
  BY <1>0, OnlyFacts
<1>2. PICK e : Embeds(e, t, s, S)
  BY <1>0, OnlyFacts
<1>3. /\ e \in [DOMAIN t -> DOMAIN s]
      /\ \A i \in DOMAIN t : t[i] = s[e[i]] /\ s[e[i]] \in S
      /\ \A i, j \in DOMAIN t : i < j => e[i] < e[j]
      /\ \A k \in DOMAIN s : s[k] \in S => \E i \in DOMAIN t : e[i] = k
  BY <1>2 DEF Embeds
<1>4. /\ DOMAIN t = 1 .. Len(t) /\ DOMAIN s = 1 .. Len(s) /\ Len(t) \in Nat /\ Len(s) \in Nat
      /\ \A i \in DOMAIN t : e[i] \in DOMAIN s
  BY <1>1, <1>3
<1>5. Range(t) = Range(s) \cap S
  <2>1. \A i \in DOMAIN t : t[i] \in Range(s) \cap S
    BY <1>3, <1>4 DEF Range
  <2>2. ASSUME NEW k \in DOMAIN s, s[k] \in S
        PROVE  s[k] \in Range(t)
    <3>1. PICK i \in DOMAIN t : e[i] = k
      BY <1>3, <2>2
    <3>2. t[i] = s[k]
      BY <1>3, <3>1
    <3> QED
      BY <3>2 DEF Range
  <2> QED
    BY <2>1, <2>2 DEF Range
<1>6. ASSUME NEW i \in DOMAIN t, NEW l \in 1 .. e[i], s[l] \in S
      PROVE  \E j \in 1 .. i : t[j] = s[l] /\ (l < e[i] => j < i)
  <2>1. l \in DOMAIN s /\ e[i] \in Int /\ l \in Int /\ i \in Int
    BY <1>4
  <2>2. PICK j \in DOMAIN t : e[j] = l
    BY <1>3, <1>6, <2>1
  <2>3. t[j] = s[l] /\ j \in Int /\ j >= 1
    BY <1>3, <1>4, <2>2
  <2>4. i < j => e[i] < e[j]
    BY <1>3
  <2>5. j <= i
    BY <1>6, <2>1, <2>2, <2>3, <2>4
  <2>6. l < e[i] => j < i
    BY <2>1, <2>2, <2>3, <2>5
  <2>7. j \in 1 .. i
    BY <2>1, <2>3, <2>5
  <2> QED
    BY <2>3, <2>6, <2>7
<1>7. ASSUME NEW i \in DOMAIN t
      PROVE  \E k \in DOMAIN s :
               /\ t[i] = s[k] /\ s[k] \in S
               /\ \A l \in 1 .. k : s[l] \in S => \E j \in 1 .. i : t[j] = s[l] /\ (l < k => j < i)
  <2>1. e[i] \in DOMAIN s /\ t[i] = s[e[i]] /\ s[e[i]] \in S
    BY <1>3, <1>4
  <2> QED
    BY <1>6, <2>1
<1>8. ASSUME NEW i \in DOMAIN t, NEW j \in DOMAIN t, i < j
      PROVE  \E k, l \in DOMAIN s : k < l /\ t[i] = s[k] /\ t[j] = s[l]
  BY <1>3, <1>4, <1>8
<1> QED
  BY <1>0, <1>1, <1>5, <1>7, <1>8 DEF Thinned

-----------------------------------------------------------------------------
(* What waits for a call.                                                  *)

LEMMA SingleFacts ==
  ASSUME NEW q \in Seq(Events), NEW T
  PROVE  /\ DOMAIN q = {} => Single(q, T) /\ Ordered(q, T)
         /\ \A x \in Seqs : Single(q, T) /\ x \notin T /\ x \notin Range(q) => Single(Append(q, x), T)
         /\ Single(q, T) /\ q # <<>> /\ Head(q) # FeedLost =>
               Head(q) \notin T /\ Single(Tail(q), T \cup {Head(q)})
<1>1. DOMAIN q = {} => Single(q, T) /\ Ordered(q, T)
  BY DEF Single, Ordered
<1>2. ASSUME NEW x \in Seqs, Single(q, T), x \notin T, x \notin Range(q)
      PROVE  Single(Append(q, x), T)
  <2> DEFINE r == Append(q, x)
  <2>0. x \in Events
    BY EventFacts
  <2>1. /\ DOMAIN q = 1 .. Len(q) /\ DOMAIN r = 1 .. Len(q) + 1 /\ Len(q) \in Nat
        /\ r[Len(q) + 1] = x
        /\ \A i \in 1 .. Len(q) : r[i] = q[i]
    BY <2>0, AppendFacts
  <2> HIDE DEF r
  <2>2. \A i \in DOMAIN q : q[i] # x
    BY <1>2 DEF Range
  <2>3. \A i \in DOMAIN r : i \in DOMAIN q \/ i = Len(q) + 1
    BY <2>1
  <2>4. Single(r, T)
    BY <1>2, <2>1, <2>2, <2>3 DEF Single
  <2> QED
    BY <2>4 DEF r
<1>3. ASSUME Single(q, T), q # <<>>, Head(q) # FeedLost
      PROVE  Head(q) \notin T /\ Single(Tail(q), T \cup {Head(q)})
  <2>1. /\ 1 \in DOMAIN q /\ Head(q) = q[1]
        /\ DOMAIN q = 1 .. Len(q) /\ DOMAIN Tail(q) = 1 .. Len(q) - 1
        /\ Len(q) \in Nat \ {0}
        /\ \A i \in 1 .. Len(q) - 1 : Tail(q)[i] = q[i + 1]
    BY <1>3, TailFacts
  <2>2. \A i \in DOMAIN Tail(q) : i + 1 \in DOMAIN q /\ i + 1 # 1 /\ Tail(q)[i] = q[i + 1] /\ i \in Int
    BY <2>1
  <2>3. ASSUME NEW i \in DOMAIN Tail(q), NEW j \in DOMAIN Tail(q), Tail(q)[i] # FeedLost, Tail(q)[i] = Tail(q)[j]
        PROVE  i = j
    <3>1. i + 1 = j + 1
      BY <1>3, <2>2, <2>3 DEF Single
    <3> QED
      BY <2>2, <3>1
  <2>4. ASSUME NEW i \in DOMAIN Tail(q), Tail(q)[i] # FeedLost
        PROVE  Tail(q)[i] \notin T \cup {Head(q)}
    BY <1>3, <2>1, <2>2, <2>4 DEF Single
  <2>5. Head(q) \notin T
    BY <1>3, <2>1 DEF Single
  <2> QED
    BY <2>3, <2>4, <2>5 DEF Single
<1> QED
  BY <1>1, <1>2, <1>3

LEMMA OrderedFacts ==
  ASSUME NEW q \in Seq(Events), NEW T, Ordered(q, T)
  PROVE  /\ \A S : T \subseteq S => Ordered(q, S)
         /\ \A x \in Seqs : FeedLost \in Range(q) \/ (\A n \in 1 .. x - 1 : n \in T \cup Range(q)) =>
               Ordered(Append(q, x), T)
         /\ q # <<>> /\ Head(q) # FeedLost =>
               (\A n \in 1 .. Head(q) - 1 : n \in T) /\ Ordered(Tail(q), T \cup {Head(q)})
<1>1. \A S : T \subseteq S => Ordered(q, S)
  BY DEF Ordered
<1>2. ASSUME NEW x \in Seqs, FeedLost \in Range(q) \/ \A n \in 1 .. x - 1 : n \in T \cup Range(q)
      PROVE  Ordered(Append(q, x), T)
  <2> DEFINE r == Append(q, x)
  <2>0. x \in Events
    BY EventFacts
  <2>1. /\ DOMAIN q = 1 .. Len(q) /\ DOMAIN r = 1 .. Len(q) + 1 /\ Len(q) \in Nat
        /\ r[Len(q) + 1] = x
        /\ \A i \in 1 .. Len(q) : r[i] = q[i]
    BY <2>0, AppendFacts
  <2> HIDE DEF r
  <2>2. ASSUME NEW i \in DOMAIN q
        PROVE  Lost(r, i) \/ \A n \in 1 .. r[i] - 1 : n \in T \/ \E j \in 1 .. i - 1 : r[j] = n
    <3>1. r[i] = q[i] /\ \A j \in 1 .. i : r[j] = q[j]
      BY <2>1, <2>2
    <3>2. \A j \in 1 .. i - 1 : r[j] = q[j]
      BY <2>1, <2>2, <3>1
    <3>3. CASE Lost(q, i)
      BY <3>1, <3>3 DEF Lost
    <3>4. CASE \A n \in 1 .. q[i] - 1 : n \in T \/ \E j \in 1 .. i - 1 : q[j] = n
      BY <3>1, <3>2, <3>4
    <3> QED
      BY <3>3, <3>4 DEF Ordered
  <2>3. CASE FeedLost \in Range(q)
    <3>1. PICK k \in DOMAIN q : q[k] = FeedLost
      BY <2>3 DEF Range
    <3>2. k \in 1 .. Len(q) + 1 /\ r[k] = FeedLost
      BY <2>1, <3>1
    <3>3. Lost(r, Len(q) + 1)
      BY <3>2 DEF Lost
    <3>4. \A i \in DOMAIN r : i \in DOMAIN q \/ i = Len(q) + 1
      BY <2>1
    <3>5. Ordered(r, T)
      BY <2>2, <3>3, <3>4 DEF Ordered
    <3> QED
      BY <3>5 DEF r
  <2>4. CASE \A n \in 1 .. x - 1 : n \in T \cup Range(q)
    <3>1. ASSUME NEW n \in 1 .. x - 1, n \notin T
          PROVE  \E j \in 1 .. (Len(q) + 1) - 1 : r[j] = n
      <4>1. PICK j \in DOMAIN q : q[j] = n
        BY <2>4, <3>1 DEF Range
      <4>2. j \in 1 .. (Len(q) + 1) - 1 /\ r[j] = n
        BY <2>1, <4>1
      <4> QED
        BY <4>2
    <3>2. \A i \in DOMAIN r : i \in DOMAIN q \/ i = Len(q) + 1
      BY <2>1
    <3>3. \A n \in 1 .. r[Len(q) + 1] - 1 : n \in T \/ \E j \in 1 .. (Len(q) + 1) - 1 : r[j] = n
      BY <2>1, <3>1
    <3>4. Ordered(r, T)
      BY <2>2, <3>2, <3>3 DEF Ordered
    <3> QED
      BY <3>4 DEF r
  <2> QED
    BY <1>2, <2>3, <2>4
<1>3. ASSUME q # <<>>, Head(q) # FeedLost
      PROVE  (\A n \in 1 .. Head(q) - 1 : n \in T) /\ Ordered(Tail(q), T \cup {Head(q)})
  <2>1. /\ 1 \in DOMAIN q /\ Head(q) = q[1]
        /\ DOMAIN q = 1 .. Len(q) /\ DOMAIN Tail(q) = 1 .. Len(q) - 1
        /\ Len(q) \in Nat \ {0}
        /\ \A i \in 1 .. Len(q) - 1 : Tail(q)[i] = q[i + 1]
    BY <1>3, TailFacts
  <2>2. ~Lost(q, 1)
    <3>1. \A j \in 1 .. 1 : j = 1
      OBVIOUS
    <3> QED
      BY <1>3, <2>1, <3>1 DEF Lost
  <2>3. \A n \in 1 .. Head(q) - 1 : n \in T
    <3>1. ~\E j \in 1 .. 1 - 1 : TRUE
      OBVIOUS
    <3> QED
      BY <2>1, <2>2, <3>1 DEF Ordered
  <2>4. ASSUME NEW i \in DOMAIN Tail(q), ~Lost(Tail(q), i), NEW n \in 1 .. Tail(q)[i] - 1
        PROVE  n \in T \cup {Head(q)} \/ \E j \in 1 .. i - 1 : Tail(q)[j] = n
    <3>1. i + 1 \in DOMAIN q /\ Tail(q)[i] = q[i + 1] /\ i \in Nat \ {0}
      BY <2>1
    <3>2. ~Lost(q, i + 1)
      <4> SUFFICES ASSUME NEW k \in 1 .. i + 1, q[k] = FeedLost PROVE FALSE
        BY DEF Lost
      <4>1. k # 1
        BY <1>3, <2>1
      <4>2. k - 1 \in 1 .. i /\ (k - 1) \in 1 .. Len(q) - 1 /\ (k - 1) + 1 = k
        BY <2>1, <3>1, <4>1
      <4>3. Tail(q)[k - 1] = FeedLost
        BY <2>1, <4>2
      <4> QED
        BY <2>4, <4>2, <4>3 DEF Lost
    <3>3. n \in T \/ \E j \in 1 .. (i + 1) - 1 : q[j] = n
      BY <2>4, <3>1, <3>2 DEF Ordered
    <3>4. ASSUME NEW j \in 1 .. (i + 1) - 1, q[j] = n
          PROVE  n = Head(q) \/ \E k \in 1 .. i - 1 : Tail(q)[k] = n
      <4>1. CASE j = 1
        BY <2>1, <3>4, <4>1
      <4>2. CASE j # 1
        <5>1. j - 1 \in 1 .. i - 1 /\ j - 1 \in 1 .. Len(q) - 1 /\ (j - 1) + 1 = j
          BY <2>1, <3>1, <4>2
        <5>2. Tail(q)[j - 1] = n
          BY <2>1, <3>4, <5>1
        <5> QED
          BY <5>1, <5>2
      <4> QED
        BY <4>1, <4>2
    <3> QED
      BY <3>3, <3>4
  <2> QED
    BY <2>3, <2>4 DEF Ordered
<1> QED
  BY <1>1, <1>2, <1>3

\* The loss of the feed may come between.
LEMMA LossFacts ==
  ASSUME NEW p \in Seq(Events), NEW r \in Seq(Events), NEW T
  PROVE  /\ Append(p, FeedLost) \in Seq(Events)
         /\ Range(Append(p, FeedLost) \o r) = Range(p \o r) \cup {FeedLost}
         /\ Single(p \o r, T) => Single(Append(p, FeedLost) \o r, T)
         /\ Ordered(p \o r, T) => Ordered(Append(p, FeedLost) \o r, T)
<1> DEFINE a == Append(p, FeedLost)
           u == p \o r
           v == a \o r
           L == Len(p)
<1>1. FeedLost \in Events
  BY DEF Events
<1>2. /\ a \in Seq(Events) /\ L \in Nat /\ Len(a) = L + 1 /\ a[L + 1] = FeedLost
      /\ \A i \in 1 .. L : a[i] = p[i]
  BY <1>1, AppendFacts
<1> HIDE DEF a, L
<1>3. /\ u \in Seq(Events) /\ Len(r) \in Nat /\ DOMAIN u = 1 .. L + Len(r)
      /\ \A i \in 1 .. L : u[i] = p[i]
      /\ \A i \in 1 .. Len(r) : u[i + L] = r[i]
  BY ConcatFacts DEF L
<1>4. /\ v \in Seq(Events) /\ DOMAIN v = 1 .. (L + 1) + Len(r)
      /\ \A i \in 1 .. L + 1 : v[i] = a[i]
      /\ \A i \in 1 .. Len(r) : v[i + (L + 1)] = r[i]
  <2>1. /\ v \in Seq(Events) /\ DOMAIN v = 1 .. Len(a) + Len(r)
        /\ \A i \in 1 .. Len(a) : v[i] = a[i]
        /\ \A i \in 1 .. Len(r) : v[i + Len(a)] = r[i]
    <3>1. a \in Seq(Events)
      BY <1>2
    <3> QED
      BY <3>1, ConcatFacts
  <2> HIDE DEF v
  <2> QED
    BY <1>2, <2>1
<1>5. Range(v) = Range(u) \cup {FeedLost}
  <2>1. Range(v) = Range(a) \cup Range(r) /\ Range(u) = Range(p) \cup Range(r)
    BY <1>2, RangeFacts
  <2>2. Range(a) = Range(p) \cup {FeedLost}
    BY <1>1, RangeFacts DEF a
  <2> QED
    BY <2>1, <2>2
<1> HIDE DEF u, v
\* Where in u what is in v was.
<1> DEFINE At(i) == IF i <= L THEN i ELSE i - 1
<1>6. v[L + 1] = FeedLost /\ L + 1 \in DOMAIN v
  BY <1>2, <1>3, <1>4
<1>7. ASSUME NEW i \in DOMAIN v, i # L + 1
      PROVE  At(i) \in DOMAIN u /\ v[i] = u[At(i)]
  <2>1. CASE i <= L
    BY <1>2, <1>3, <1>4, <1>7, <2>1
  <2>2. CASE i > L + 1
    <3>1. i - (L + 1) \in 1 .. Len(r) /\ (i - (L + 1)) + (L + 1) = i /\ (i - (L + 1)) + L = i - 1
      <4>1. i \in Int /\ i <= (L + 1) + Len(r) /\ L \in Nat /\ Len(r) \in Nat
        BY <1>2, <1>3, <1>4, <1>7
      <4> QED
        BY <2>2, <4>1
    <3>2. v[i] = r[i - (L + 1)] /\ u[i - 1] = r[i - (L + 1)]
      BY <1>3, <1>4, <3>1
    <3>3. ~(i <= L) /\ i - 1 \in DOMAIN u
      <4>1. i \in Int /\ i <= (L + 1) + Len(r)
        BY <1>2, <1>3, <1>4, <1>7
      <4> QED
        BY <1>2, <1>3, <2>2, <4>1
    <3> QED
      BY <3>2, <3>3
  <2> QED
    BY <1>2, <1>4, <1>7, <2>1, <2>2
<1>8. ASSUME Single(u, T)
      PROVE  Single(v, T)
  <2>1. ASSUME NEW i \in DOMAIN v, v[i] # FeedLost
        PROVE  v[i] \notin T
    BY <1>6, <1>7, <1>8, <2>1 DEF Single
  <2>2. ASSUME NEW i \in DOMAIN v, NEW j \in DOMAIN v, v[i] # FeedLost, v[i] = v[j]
        PROVE  i = j
    <3>1. i # L + 1 /\ j # L + 1
      BY <1>6, <2>2
    <3>2. At(i) \in DOMAIN u /\ At(j) \in DOMAIN u /\ v[i] = u[At(i)] /\ v[j] = u[At(j)]
      BY <1>7, <3>1
    <3> HIDE DEF At
    <3>3. At(i) = At(j)
      BY <1>8, <2>2, <3>2 DEF Single
    <3> QED
      BY <1>2, <1>3, <1>4, <3>1, <3>3 DEF At
  <2> QED
    BY <2>1, <2>2 DEF Single
<1>9. ASSUME Ordered(u, T)
      PROVE  Ordered(v, T)
  <2>1. ASSUME NEW i \in DOMAIN v, ~Lost(v, i), NEW n \in 1 .. v[i] - 1
        PROVE  n \in T \/ \E j \in 1 .. i - 1 : v[j] = n
    <3>1. i <= L
      <4>1. i \in Nat /\ (i > L => L + 1 \in 1 .. i)
        BY <1>2, <1>3, <1>4
      <4> QED
        BY <1>2, <1>6, <2>1, <4>1 DEF Lost
    <3>2. i \in DOMAIN u /\ \A j \in 1 .. i : v[j] = u[j] /\ j \in DOMAIN v
      <4>1. i \in DOMAIN u
        BY <1>2, <1>3, <1>4, <3>1
      <4>2. ASSUME NEW j \in 1 .. i
            PROVE  v[j] = u[j] /\ j \in DOMAIN v
        <5>1. j \in DOMAIN v /\ j # L + 1 /\ At(j) = j
          BY <1>2, <1>3, <1>4, <3>1
        <5> QED
          BY <1>7, <5>1
      <4> QED
        BY <4>1, <4>2
    <3>3. i \in 1 .. i /\ \A j \in 1 .. i - 1 : j \in 1 .. i
      BY <1>2, <1>3, <1>4
    <3>4. ~Lost(u, i) /\ v[i] = u[i]
      BY <2>1, <3>2, <3>3 DEF Lost
    <3>5. n \in T \/ \E j \in 1 .. i - 1 : u[j] = n
      BY <1>9, <2>1, <3>2, <3>4 DEF Ordered
    <3> QED
      BY <3>2, <3>3, <3>5
  <2> QED
    BY <2>1 DEF Ordered
<1> QED
  BY <1>2, <1>5, <1>8, <1>9 DEF a, u, v

\* A place in the second of two sequences, other than the last.
LEMMA Second ==
  \A m, n \in Nat : \A i \in Int :
     i > m /\ i - m \in 1 .. n + 1 /\ i - m # n + 1 => i - m \in 1 .. n /\ i \in 1 .. m + n
OBVIOUS

\* What is parked goes after what is there.
LEMMA ParkFacts ==
  ASSUME NEW p \in Seq(Events), NEW r \in Seq(Events), NEW x \in Events
  PROVE  /\ p \o Append(r, x) = Append(p \o r, x) /\ p \o <<>> = p
         /\ p \o r \in Seq(Events) /\ Range(p \o r) = Range(p) \cup Range(r)
<1>1. p \o Append(r, x) = Append(p \o r, x)
  <2> DEFINE a == Append(r, x)
             u == p \o r
             b == Append(u, x)
             v == p \o a
  <2>1. a \in Seq(Events) /\ Len(a) = Len(r) + 1 /\ a[Len(r) + 1] = x /\ \A i \in 1 .. Len(r) : a[i] = r[i]
    BY AppendFacts
  <2>2. /\ u \in Seq(Events) /\ Len(p) \in Nat /\ Len(r) \in Nat /\ Len(u) = Len(p) + Len(r)
        /\ \A i \in 1 .. Len(p) : u[i] = p[i]
        /\ \A i \in 1 .. Len(r) : u[i + Len(p)] = r[i]
    BY ConcatFacts
  <2> HIDE DEF a, u
  <2>3. /\ b \in Seq(Events) /\ Len(b) = Len(u) + 1 /\ b[Len(u) + 1] = x /\ \A i \in 1 .. Len(u) : b[i] = u[i]
        /\ DOMAIN b = 1 .. Len(u) + 1
    BY <2>2, AppendFacts
  <2>4. /\ v \in Seq(Events) /\ DOMAIN v = 1 .. Len(p) + Len(a)
        /\ \A i \in 1 .. Len(p) : v[i] = p[i]
        /\ \A i \in 1 .. Len(a) : v[i + Len(p)] = a[i]
        /\ Len(v) = Len(p) + Len(a)
    <3>1. a \in Seq(Events)
      BY <2>1
    <3> QED
      BY <3>1, ConcatFacts
  <2> HIDE DEF b, v
  <2>5. ASSUME NEW i \in 1 .. Len(b)
        PROVE  v[i] = b[i]
    <3>1. CASE i <= Len(p)
      BY <2>2, <2>3, <2>4, <3>1
    <3>2. CASE i > Len(p)
      <4>1. i - Len(p) \in 1 .. Len(a) /\ (i - Len(p)) + Len(p) = i
        BY <2>1, <2>2, <2>3, <3>2
      <4>2. v[i] = a[i - Len(p)]
        BY <2>4, <4>1
      <4>3. CASE i - Len(p) = Len(r) + 1
        BY <2>1, <2>2, <2>3, <4>2, <4>3
      <4>4. CASE i - Len(p) # Len(r) + 1
        <5>0. i \in Int /\ Len(a) = Len(r) + 1 /\ Len(u) = Len(p) + Len(r)
          BY <2>1, <2>2
        <5>1. i - Len(p) \in 1 .. Len(r) /\ i \in 1 .. Len(u)
          <6>1. /\ Len(p) \in Nat /\ Len(r) \in Nat /\ i > Len(p)
                /\ i - Len(p) \in 1 .. Len(r) + 1 /\ i - Len(p) # Len(r) + 1
            BY <2>2, <3>2, <4>1, <4>4, <5>0
          <6>2. i - Len(p) \in 1 .. Len(r) /\ i \in 1 .. Len(p) + Len(r)
            BY <5>0, <6>1, Second
          <6> QED
            BY <5>0, <6>2
        <5>2. a[i - Len(p)] = r[i - Len(p)] /\ u[i] = r[i - Len(p)] /\ b[i] = u[i]
          BY <2>1, <2>2, <2>3, <4>1, <5>1
        <5> QED
          BY <4>2, <5>2
      <4> QED
        BY <4>3, <4>4
    <3> QED
      BY <2>2, <2>3, <3>1, <3>2
  <2>6. Len(v) = Len(b)
    BY <2>1, <2>2, <2>3, <2>4
  <2>7. v = b
    BY <2>3, <2>4, <2>5, <2>6, SeqEqual
  <2> QED
    BY <2>7 DEF a, u, b, v
<1>2. p \o <<>> = p
  OBVIOUS
<1>3. p \o r \in Seq(Events) /\ Range(p \o r) = Range(p) \cup Range(r)
  BY ConcatFacts, RangeFacts
<1> QED
  BY <1>1, <1>2, <1>3

-----------------------------------------------------------------------------
(* A history that is read, before what waits and is newer.                 *)

LEMMA ReadFacts ==
  ASSUME NEW n \in 0 .. MaxSeq, NEW H,
         NEW s \in Seq(Seqs), DOMAIN s = 1 .. n, \A i \in 1 .. n : s[i] = i,
         NEW S, \A x : x \in S <=> x \in Seqs /\ x \notin H, NEW a, a = Only(s, S)
  PROVE  a \in Seq(Seqs) /\ Range(a) = (1 .. n) \ H /\ Single(a, H) /\ Ordered(a, H)
<1>1. n \in Nat /\ n <= MaxSeq /\ MaxSeq \in Nat
  BY EventFacts
<1>2. DOMAIN s = 1 .. n /\ \A i \in 1 .. n : s[i] = i /\ i \in Seqs /\ i \in Nat
  BY <1>1 DEF Seqs
<1>5. /\ a \in Seq(Seqs) /\ Range(a) = Range(s) \cap S
      /\ \A i \in DOMAIN a : \E k \in DOMAIN s :
            /\ a[i] = s[k] /\ s[k] \in S
            /\ \A l \in 1 .. k : s[l] \in S => \E j \in 1 .. i : a[j] = s[l] /\ (l < k => j < i)
      /\ \A i, j \in DOMAIN a : i < j =>
            \E k, l \in DOMAIN s : k < l /\ a[i] = s[k] /\ a[j] = s[l]
  <2>1. a \in Seq(Seqs) /\ Range(a) = Range(s) \cap S /\ Thinned(a, s, S)
    BY OnlyKeeps
  <2> QED
    BY <2>1 DEF Thinned
<1>6. Range(a) = (1 .. n) \ H
  <2>1. Range(s) = 1 .. n
    BY <1>2 DEF Range
  <2>2. 1 .. n \subseteq Seqs
    BY <1>2
  <2> QED
    BY <1>5, <2>1, <2>2
<1>7. DOMAIN a = 1 .. Len(a) /\ Len(a) \in Nat
  BY <1>5
<1>8. ASSUME NEW i \in DOMAIN a, NEW j \in DOMAIN a, i < j
      PROVE  a[i] # a[j]
  <2>1. PICK k, l \in DOMAIN s : k < l /\ a[i] = s[k] /\ a[j] = s[l]
    BY <1>5, <1>8
  <2> QED
    BY <1>2, <2>1
<1>9. ASSUME NEW i \in DOMAIN a, NEW j \in DOMAIN a, a[i] = a[j]
      PROVE  i = j
  <2>1. i \in Int /\ j \in Int
    BY <1>7
  <2> QED
    <3>1. i < j => a[i] # a[j]
      BY <1>8
    <3>2. j < i => a[j] # a[i]
      BY <1>8
    <3> QED
      BY <1>9, <2>1, <3>1, <3>2
<1>10. ASSUME NEW i \in DOMAIN a, NEW l \in 1 .. a[i] - 1, l \notin H
       PROVE  \E j \in 1 .. i - 1 : a[j] = l
  <2>1. PICK k \in DOMAIN s :
            /\ a[i] = s[k]
            /\ \A g \in 1 .. k : s[g] \in S => \E j \in 1 .. i : a[j] = s[g] /\ (g < k => j < i)
    BY <1>5
  <2>2. a[i] = k /\ k \in 1 .. n /\ l \in 1 .. k /\ l < k /\ l \in 1 .. n
    BY <1>1, <1>2, <1>10, <2>1
  <2>3. s[l] = l /\ l \in S
    BY <1>2, <1>10, <2>2
  <2>4. PICK j \in 1 .. i : a[j] = l /\ j < i
    BY <2>1, <2>2, <2>3
  <2>5. j \in 1 .. i - 1
    BY <1>7, <2>4
  <2> QED
    BY <2>4, <2>5
<1> QED
  <2>1. Single(a, H)
    BY <1>6, <1>9 DEF Single, Range
  <2>2. Ordered(a, H)
    BY <1>10 DEF Ordered
  <2> QED
    BY <1>5, <1>6, <2>1, <2>2

\* m is q with a history of n events, but for those in H, before what is newer.
Renewed(m, q, n, H) ==
    /\ Range(m) = ((1 .. n) \ H) \cup {x \in Range(q) : x = FeedLost \/ x \in n + 1 .. MaxSeq}
    /\ Single(m, H)
    /\ \A B, C : Ordered(q, B) /\ H \subseteq C /\ B \subseteq C \cup 1 .. n => Ordered(m, C)

LEMMA MergedFacts ==
  ASSUME NEW n \in 0 .. MaxSeq, NEW q \in Seq(Events), NEW H, Single(q, H),
         NEW s \in Seq(Seqs), DOMAIN s = 1 .. n, \A i \in 1 .. n : s[i] = i,
         NEW S, \A x : x \in S <=> x \in Seqs /\ x \notin H,
         NEW R, \A x : x \in R <=> x = FeedLost \/ x \in n + 1 .. MaxSeq,
         NEW m, m = Only(s, S) \o Only(q, R)
  PROVE  m \in Seq(Events) /\ Renewed(m, q, n, H)
<1>0. n \in Nat /\ n <= MaxSeq /\ MaxSeq \in Nat /\ FeedLost = 0
  BY EventFacts
<1>1. PICK a : a = Only(s, S)
  OBVIOUS
<1>2. PICK b : b = Only(q, R)
  OBVIOUS
<1>3. /\ a \in Seq(Events) /\ Range(a) = (1 .. n) \ H
      /\ \A i, j \in DOMAIN a : a[i] = a[j] => i = j
      /\ \A i \in DOMAIN a : a[i] # FeedLost /\ a[i] \in 1 .. n /\ a[i] \notin H
      /\ \A i \in DOMAIN a : \A l \in 1 .. a[i] - 1 : l \in H \/ \E j \in 1 .. i - 1 : a[j] = l
  <2>1. a \in Seq(Seqs) /\ Range(a) = (1 .. n) \ H /\ Single(a, H) /\ Ordered(a, H)
    BY <1>1, ReadFacts
  <2>2. a \in Seq(Events)
    <3>1. Seqs \subseteq Events /\ a \in Seq(Seqs)
      BY <2>1, EventFacts
    <3> QED
      BY <3>1
  <2>3. ASSUME NEW i \in DOMAIN a
        PROVE  a[i] # FeedLost /\ a[i] \in 1 .. n /\ a[i] \notin H
    <3>1. a[i] \in Range(a)
      BY DEF Range
    <3> QED
      BY <1>0, <2>1, <3>1
  <2>4. \A i, j \in DOMAIN a : a[i] = a[j] => i = j
    BY <2>1, <2>3 DEF Single
  <2>5. DOMAIN a = 1 .. Len(a) /\ Len(a) \in Nat
    BY <2>1
  <2>6. ASSUME NEW i \in DOMAIN a, NEW l \in 1 .. a[i] - 1
        PROVE  l \in H \/ \E j \in 1 .. i - 1 : a[j] = l
    <3>1. \A j \in 1 .. i : j \in DOMAIN a
      BY <2>5
    <3>2. ~Lost(a, i)
      BY <2>3, <3>1 DEF Lost
    <3> QED
      BY <2>1, <3>2 DEF Ordered
  <2> QED
    BY <2>1, <2>2, <2>3, <2>4, <2>6
<1>4. /\ b \in Seq(Events) /\ Range(b) = Range(q) \cap R
      /\ \A i \in DOMAIN b : \E k \in DOMAIN q :
            /\ b[i] = q[k] /\ q[k] \in R
            /\ \A l \in 1 .. k : q[l] \in R => \E j \in 1 .. i : b[j] = q[l] /\ (l < k => j < i)
      /\ \A i, j \in DOMAIN b : i < j =>
            \E k, l \in DOMAIN q : k < l /\ b[i] = q[k] /\ b[j] = q[l]
  <2>1. b \in Seq(Events) /\ Range(b) = Range(q) \cap R /\ Thinned(b, q, R)
    BY <1>2, OnlyKeeps
  <2> QED
    BY <2>1 DEF Thinned
<1> DEFINE L == Len(a)
<1>5. m = a \o b
  BY <1>1, <1>2
<1>6. /\ m \in Seq(Events) /\ L \in Nat /\ Len(b) \in Nat
      /\ DOMAIN a = 1 .. L /\ DOMAIN b = 1 .. Len(b)
      /\ DOMAIN m = 1 .. L + Len(b)
      /\ \A i \in 1 .. L : m[i] = a[i]
      /\ \A i \in 1 .. Len(b) : m[i + L] = b[i]
  <2>1. a \in Seq(Events) /\ b \in Seq(Events)
    BY <1>3, <1>4
  <2> QED
    <3> HIDE DEF L
    <3>1. /\ a \o b \in Seq(Events) /\ Len(a) \in Nat /\ Len(b) \in Nat
          /\ DOMAIN a = 1 .. Len(a) /\ DOMAIN b = 1 .. Len(b)
          /\ DOMAIN (a \o b) = 1 .. Len(a) + Len(b)
          /\ \A i \in 1 .. Len(a) : (a \o b)[i] = a[i]
          /\ \A i \in 1 .. Len(b) : (a \o b)[i + Len(a)] = b[i]
      BY <2>1, ConcatFacts
    <3> QED
      BY <1>5, <3>1 DEF L
<1>7. Range(m) = ((1 .. n) \ H) \cup (Range(q) \cap R)
  <2>1. a \in Seq(Events) /\ b \in Seq(Events)
    BY <1>3, <1>4
  <2>2. Range(m) = Range(a) \cup Range(b)
    <3>1. Range(a \o b) = Range(a) \cup Range(b)
      BY <2>1, RangeFacts
    <3> QED
      BY <1>5, <3>1
  <2> QED
    BY <1>3, <1>4, <2>2
<1> HIDE DEF L
<1>8. ASSUME NEW i \in DOMAIN m
      PROVE  \/ i \in DOMAIN a /\ m[i] = a[i]
             \/ /\ i > L /\ i - L \in DOMAIN b /\ m[i] = b[i - L] /\ i \in Int
  <2>1. i \in Int
    BY <1>6
  <2>2. CASE i <= L
    <3>1. i \in DOMAIN a
      BY <1>6, <2>1, <2>2
    <3> QED
      BY <1>6, <3>1
  <2>3. CASE i > L
    <3>1. i - L \in 1 .. Len(b) /\ (i - L) + L = i
      BY <1>6, <2>1, <2>3
    <3> QED
      BY <1>6, <2>1, <2>3, <3>1
  <2> QED
    BY <1>6, <2>1, <2>2, <2>3
<1>9. \A i \in DOMAIN b : b[i] \in R /\ b[i] \in Range(q)
  BY <1>4 DEF Range
<1>10. \A i \in DOMAIN b : b[i] \in Nat /\ (b[i] # FeedLost => b[i] > n /\ b[i] \notin H)
  <2>1. ASSUME NEW i \in DOMAIN b
        PROVE  b[i] \in Nat /\ (b[i] # FeedLost => b[i] > n)
    BY <1>0, <1>9
  <2>2. ASSUME NEW i \in DOMAIN b, b[i] # FeedLost
        PROVE  b[i] \notin H
    <3>1. PICK k \in DOMAIN q : b[i] = q[k]
      BY <1>9 DEF Range
    <3> QED
      BY <2>2, <3>1 DEF Single
  <2> QED
    BY <2>1, <2>2
<1>11. ASSUME NEW i \in DOMAIN b, NEW j \in DOMAIN b, i < j, b[i] # FeedLost
       PROVE  b[i] # b[j]
  <2>1. PICK k, l \in DOMAIN q : k < l /\ b[i] = q[k] /\ b[j] = q[l]
    BY <1>4, <1>11
  <2>2. k \in Int /\ l \in Int
    OBVIOUS
  <2> QED
    BY <1>11, <2>1, <2>2 DEF Single
<1>12. ASSUME NEW i \in DOMAIN b, NEW j \in DOMAIN b, b[i] # FeedLost, b[i] = b[j]
       PROVE  i = j
  <2>1. i \in Int /\ j \in Int
    BY <1>6
  <2>2. i < j => b[i] # b[j]
    BY <1>11, <1>12
  <2>3. j < i => b[j] # b[i]
    BY <1>11, <1>12
  <2> QED
    BY <1>12, <2>1, <2>2, <2>3
<1>13. Single(m, H)
  <2>1. ASSUME NEW i \in DOMAIN m, m[i] # FeedLost
        PROVE  m[i] \notin H
    BY <1>3, <1>8, <1>10, <2>1
  <2>2. ASSUME NEW i \in DOMAIN m, NEW j \in DOMAIN m, m[i] # FeedLost, m[i] = m[j]
        PROVE  i = j
    <3>1. CASE i \in DOMAIN a /\ m[i] = a[i]
      <4>1. m[i] \in 1 .. n
        BY <1>3, <3>1
      <4>2. ~(j > L /\ j - L \in DOMAIN b /\ m[j] = b[j - L])
        BY <1>0, <1>10, <2>2, <4>1
      <4>3. j \in DOMAIN a /\ m[j] = a[j]
        BY <1>8, <4>2
      <4> QED
        BY <1>3, <2>2, <3>1, <4>3
    <3>2. CASE i > L /\ i - L \in DOMAIN b /\ m[i] = b[i - L] /\ i \in Int
      <4>1. ~(j \in DOMAIN a /\ m[j] = a[j])
        <5>1. m[i] > n /\ m[i] \in Nat
          BY <1>10, <2>2, <3>2
        <5>2. j \in DOMAIN a /\ m[j] = a[j] => m[j] \in 1 .. n
          BY <1>3
        <5> QED
          BY <1>0, <2>2, <5>1, <5>2
      <4>2. j > L /\ j - L \in DOMAIN b /\ m[j] = b[j - L] /\ j \in Int
        BY <1>8, <4>1
      <4>3. i - L = j - L
        BY <1>12, <2>2, <3>2, <4>2
      <4> QED
        BY <1>6, <3>2, <4>2, <4>3
    <3> QED
      BY <1>8, <3>1, <3>2
  <2> QED
    BY <2>1, <2>2 DEF Single
<1>14. ASSUME NEW B, NEW C, Ordered(q, B), H \subseteq C, B \subseteq C \cup 1 .. n
       PROVE  Ordered(m, C)
  <2>1. ASSUME NEW i \in DOMAIN m, ~Lost(m, i), NEW l \in 1 .. m[i] - 1
        PROVE  l \in C \/ \E j \in 1 .. i - 1 : m[j] = l
    <3>1. CASE i \in DOMAIN a /\ m[i] = a[i]
      <4>1. l \in H \/ \E j \in 1 .. i - 1 : a[j] = l
        BY <1>3, <2>1, <3>1
      <4>2. \A j \in 1 .. i - 1 : m[j] = a[j]
        BY <1>6, <3>1
      <4> QED
        BY <1>14, <4>1, <4>2
    <3>2. CASE i > L /\ i - L \in DOMAIN b /\ m[i] = b[i - L] /\ i \in Int
      <4>1. PICK k \in DOMAIN q :
               /\ b[i - L] = q[k]
               /\ \A g \in 1 .. k : q[g] \in R => \E j \in 1 .. i - L : b[j] = q[g] /\ (g < k => j < i - L)
        BY <1>4, <3>2
      <4>2. ASSUME NEW j \in 1 .. i - L
            PROVE  j + L \in 1 .. i /\ m[j + L] = b[j] /\ j \in DOMAIN b /\ j \in Int
        <5>1. i - L \in 1 .. Len(b) /\ i \in Int /\ L \in Nat /\ Len(b) \in Nat
          BY <1>6, <3>2
        <5>2. j \in 1 .. Len(b) /\ j + L \in 1 .. i /\ j \in Int
          BY <5>1
        <5> QED
          BY <1>6, <5>2
      <4>3. ~Lost(q, k)
        <5> SUFFICES ASSUME NEW g \in 1 .. k, q[g] = FeedLost PROVE FALSE
          BY DEF Lost
        <5>1. PICK j \in 1 .. i - L : b[j] = FeedLost
          BY <4>1
        <5> QED
          BY <2>1, <4>2, <5>1 DEF Lost
      <4>4. l \in B \/ \E g \in 1 .. k - 1 : q[g] = l
        <5>1. m[i] = q[k]
          BY <3>2, <4>1
        <5>2. l \in 1 .. q[k] - 1
          BY <5>1
        <5> QED
          BY <1>14, <4>3, <5>2 DEF Ordered
      <4>5. l \in Int /\ l >= 1 /\ l <= MaxSeq
        <5>1. q[k] \in Events /\ m[i] = q[k]
          BY <3>2, <4>1
        <5>2. m[i] \in 0 .. MaxSeq
          BY <1>0, <5>1 DEF Events, Seqs
        <5> QED
          BY <1>0, <2>1, <5>2
      <4>6. CASE l \in 1 .. n
        <5>1. CASE l \in H
          BY <1>14, <5>1
        <5>2. CASE l \notin H
          <6>1. l \in Range(a)
            BY <1>3, <4>6, <5>2
          <6>2. PICK j \in DOMAIN a : a[j] = l
            BY <6>1 DEF Range
          <6>3. j \in 1 .. i - 1 /\ m[j] = l
            <7>1. L \in Nat /\ j \in 1 .. L /\ i \in Int /\ i > L
              BY <1>6, <3>2
            <7>2. j \in 1 .. i - 1
              BY <7>1
            <7> QED
              BY <1>6, <6>2, <7>1, <7>2
          <6> QED
            BY <6>3
        <5> QED
          BY <5>1, <5>2
      <4>7. CASE l \notin 1 .. n
        <5>1. CASE l \in B
          BY <1>14, <4>7, <5>1
        <5>2. CASE \E g \in 1 .. k - 1 : q[g] = l
          <6>1. PICK g \in 1 .. k - 1 : q[g] = l
            BY <5>2
          <6>2. l \in R
            <7>1. l \in n + 1 .. MaxSeq
              BY <1>0, <4>5, <4>7
            <7> QED
              BY <7>1
          <6>3. g \in 1 .. k /\ g < k
            BY <6>1
          <6>4. PICK j \in 1 .. i - L : b[j] = l /\ j < i - L
            BY <4>1, <6>1, <6>2, <6>3
          <6>5. j + L \in 1 .. i - 1 /\ m[j + L] = l
            <7>1. j + L \in 1 .. i /\ m[j + L] = l /\ j \in Int /\ i - L \in Int /\ j < i - L
              <8>1. j + L \in 1 .. i /\ m[j + L] = b[j] /\ j \in Int
                BY <4>2
              <8>2. i - L \in Int /\ j < i - L /\ b[j] = l
                BY <1>6, <3>2, <6>4
              <8> QED
                BY <8>1, <8>2
            <7>2. i \in Int /\ L \in Nat
              BY <1>6, <3>2
            <7> QED
              BY <7>1, <7>2
          <6> QED
            BY <6>5
        <5> QED
          BY <4>4, <5>1, <5>2
      <4> QED
        BY <4>6, <4>7
    <3> QED
      BY <1>8, <3>1, <3>2
  <2> QED
    BY <2>1 DEF Ordered
<1>15. Range(m) = ((1 .. n) \ H) \cup {x \in Range(q) : x = FeedLost \/ x \in n + 1 .. MaxSeq}
  BY <1>7
<1> QED
  BY <1>6, <1>13, <1>14, <1>15 DEF Renewed

-----------------------------------------------------------------------------
(* What the feed carries.                                                  *)

LEMMA FeedFacts ==
  ASSUME NEW ch \in Seq(Changes), NEW c \in Calls, NEW S, NEW m \in Nat
  PROVE  /\ \A T : S \subseteq T /\ FeedOrdered(ch, c, S) => FeedOrdered(ch, c, T)
         /\ \A T : S \subseteq T /\ FeedWhole(ch, c, S, m) => FeedWhole(ch, c, T, m)
         /\ (\A n \in 1 .. m : n \in S) => FeedWhole(ch, c, S, m)
         /\ (\A n \in 1 .. m : n \in S) /\ (\A i \in DOMAIN ch : ch[i].call = c => ch[i].seq <= m) =>
               FeedOrdered(ch, c, S)
<1>1. ASSUME \A n \in 1 .. m : n \in S, \A i \in DOMAIN ch : ch[i].call = c => ch[i].seq <= m
      PROVE  FeedOrdered(ch, c, S)
  <2>1. ASSUME NEW i \in DOMAIN ch, ch[i].call = c, NEW n \in 1 .. ch[i].seq - 1
        PROVE  n \in S
    <3>1. ch[i].seq \in 0 .. MaxSeq /\ ch[i].seq <= m /\ MaxSeq \in Nat
      <4>1. ch[i] \in Changes
        OBVIOUS
      <4>2. ch[i].seq \in 0 .. MaxSeq
        BY <4>1 DEF Changes
      <4> QED
        BY <1>1, <2>1, <4>2, EventFacts
    <3>2. n \in 1 .. m
      BY <2>1, <3>1
    <3> QED
      BY <1>1, <3>2
  <2> QED
    BY <2>1 DEF FeedOrdered
<1>2. \A T : S \subseteq T /\ FeedOrdered(ch, c, S) => FeedOrdered(ch, c, T)
  BY DEF FeedOrdered
<1>3. \A T : S \subseteq T /\ FeedWhole(ch, c, S, m) => FeedWhole(ch, c, T, m)
  BY DEF FeedWhole
<1>4. (\A n \in 1 .. m : n \in S) => FeedWhole(ch, c, S, m)
  BY DEF FeedWhole
<1> QED
  BY <1>1, <1>2, <1>3, <1>4

LEMMA FeedAppend ==
  ASSUME NEW ch \in Seq(Changes), NEW x \in Changes, NEW c \in Calls, NEW S
  PROVE  /\ \A m : FeedWhole(ch, c, S, m) => FeedWhole(Append(ch, x), c, S, m)
         /\ FeedOrdered(ch, c, S) /\ (x.call = c => FeedWhole(ch, c, S, x.seq - 1)) =>
               FeedOrdered(Append(ch, x), c, S)
         /\ x.call = c /\ FeedWhole(ch, c, S, x.seq - 1) => FeedWhole(Append(ch, x), c, S, x.seq)
<1> DEFINE r == Append(ch, x)
<1>1. /\ DOMAIN ch = 1 .. Len(ch) /\ DOMAIN r = 1 .. Len(ch) + 1 /\ Len(ch) \in Nat
      /\ r[Len(ch) + 1] = x
      /\ \A i \in 1 .. Len(ch) : r[i] = ch[i]
  BY AppendFacts
<1>2. x.seq \in Nat
  BY EventFacts DEF Changes
<1> HIDE DEF r
<1>3. \A i \in DOMAIN ch : i \in DOMAIN r /\ r[i] = ch[i]
  BY <1>1
<1>4. ASSUME NEW m, FeedWhole(ch, c, S, m)
      PROVE  FeedWhole(r, c, S, m)
  BY <1>3, <1>4 DEF FeedWhole
<1>5. ASSUME FeedOrdered(ch, c, S), x.call = c => FeedWhole(ch, c, S, x.seq - 1)
      PROVE  FeedOrdered(r, c, S)
  <2>1. ASSUME NEW i \in DOMAIN ch, r[i].call = c, NEW n \in 1 .. r[i].seq - 1, n \notin S
        PROVE  \E j \in 1 .. i - 1 : r[j].call = c /\ r[j].seq = n
    <3>1. PICK j \in 1 .. i - 1 : ch[j].call = c /\ ch[j].seq = n
      BY <1>3, <1>5, <2>1 DEF FeedOrdered
    <3>2. j \in DOMAIN ch
      BY <1>1
    <3> QED
      BY <1>3, <3>1, <3>2
  <2>2. ASSUME x.call = c, NEW n \in 1 .. x.seq - 1, n \notin S
        PROVE  \E j \in 1 .. (Len(ch) + 1) - 1 : r[j].call = c /\ r[j].seq = n
    <3>1. PICK j \in DOMAIN ch : ch[j].call = c /\ ch[j].seq = n
      BY <1>5, <2>2 DEF FeedWhole
    <3>2. j \in 1 .. (Len(ch) + 1) - 1 /\ r[j] = ch[j]
      BY <1>1
    <3> QED
      BY <3>1, <3>2
  <2>3. \A i \in DOMAIN r : i \in DOMAIN ch \/ i = Len(ch) + 1
    BY <1>1
  <2>4. ASSUME NEW i \in DOMAIN r, r[i].call = c, NEW n \in 1 .. r[i].seq - 1, n \notin S
        PROVE  \E j \in 1 .. i - 1 : r[j].call = c /\ r[j].seq = n
    <3>1. CASE i \in DOMAIN ch
      BY <2>1, <2>4, <3>1
    <3>2. CASE i = Len(ch) + 1
      BY <1>1, <2>2, <2>4, <3>2
    <3> QED
      BY <2>3, <3>1, <3>2
  <2> QED
    BY <2>4 DEF FeedOrdered
<1>6. ASSUME x.call = c, FeedWhole(ch, c, S, x.seq - 1)
      PROVE  FeedWhole(r, c, S, x.seq)
  <2>1. Len(ch) + 1 \in DOMAIN r
    BY <1>1
  <2>2. \A n \in 1 .. x.seq : n \in 1 .. x.seq - 1 \/ n = x.seq
    BY <1>2
  <2> QED
    BY <1>1, <1>3, <1>6, <2>1, <2>2 DEF FeedWhole
<1> QED
  BY <1>4, <1>5, <1>6 DEF r

LEMMA FeedTail ==
  ASSUME NEW ch \in Seq(Changes), ch # <<>>, NEW c \in Calls, NEW S, NEW T, S \subseteq T,
         Head(ch).call = c /\ Head(ch).seq # 0 => Head(ch).seq \in T
  PROVE  /\ \A m : FeedWhole(ch, c, S, m) => FeedWhole(Tail(ch), c, T, m)
         /\ FeedOrdered(ch, c, S) => FeedOrdered(Tail(ch), c, T)
         /\ FeedOrdered(ch, c, S) /\ Head(ch).call = c => \A n \in 1 .. Head(ch).seq - 1 : n \in S
<1> DEFINE r == Tail(ch)
<1>1. /\ 1 \in DOMAIN ch /\ Head(ch) = ch[1]
      /\ DOMAIN ch = 1 .. Len(ch) /\ DOMAIN r = 1 .. Len(ch) - 1
      /\ Len(ch) \in Nat \ {0}
      /\ \A i \in 1 .. Len(ch) - 1 : r[i] = ch[i + 1]
  BY TailFacts
<1> HIDE DEF r
<1>2. \A i \in DOMAIN r : i + 1 \in DOMAIN ch /\ r[i] = ch[i + 1] /\ i \in Nat
  BY <1>1
<1>3. ASSUME NEW i \in DOMAIN ch, i # 1
      PROVE  i - 1 \in DOMAIN r /\ r[i - 1] = ch[i]
  <2>1. i - 1 \in 1 .. Len(ch) - 1 /\ (i - 1) + 1 = i
    BY <1>1, <1>3
  <2> QED
    BY <1>1, <2>1
<1>4. ASSUME NEW m, FeedWhole(ch, c, S, m), NEW n \in 1 .. m, n \notin T
      PROVE  \E j \in DOMAIN r : r[j].call = c /\ r[j].seq = n
  <2>1. PICK j \in DOMAIN ch : ch[j].call = c /\ ch[j].seq = n
    BY <1>4 DEF FeedWhole
  <2>2. n # 0
    BY <1>4
  <2>3. j # 1
    BY <1>1, <1>4, <2>1, <2>2
  <2> QED
    BY <1>3, <2>1, <2>3
<1>5. ASSUME FeedOrdered(ch, c, S), NEW i \in DOMAIN r, r[i].call = c, NEW n \in 1 .. r[i].seq - 1, n \notin T
      PROVE  \E j \in 1 .. i - 1 : r[j].call = c /\ r[j].seq = n
  <2>1. i + 1 \in DOMAIN ch /\ r[i] = ch[i + 1] /\ i \in Nat
    BY <1>2
  <2>2. PICK j \in 1 .. (i + 1) - 1 : ch[j].call = c /\ ch[j].seq = n
    BY <1>5, <2>1 DEF FeedOrdered
  <2>3. j \in DOMAIN ch /\ n # 0
    BY <1>1, <2>1
  <2>4. j # 1
    BY <1>1, <1>5, <2>2, <2>3
  <2>5. j - 1 \in 1 .. i - 1 /\ r[j - 1] = ch[j]
    BY <1>3, <2>1, <2>3, <2>4
  <2> QED
    BY <2>2, <2>5
<1>6. ASSUME FeedOrdered(ch, c, S), Head(ch).call = c, NEW n \in 1 .. Head(ch).seq - 1
      PROVE  n \in S
  <2>1. ~\E j \in 1 .. 1 - 1 : TRUE
    OBVIOUS
  <2> QED
    BY <1>1, <1>6, <2>1 DEF FeedOrdered
<1>7. \A m : FeedWhole(ch, c, S, m) => FeedWhole(r, c, T, m)
  BY <1>4 DEF FeedWhole
<1>8. FeedOrdered(ch, c, S) => FeedOrdered(r, c, T)
  BY <1>5 DEF FeedOrdered
<1> QED
  BY <1>6, <1>7, <1>8 DEF r

-----------------------------------------------------------------------------
(* Types.                                                                  *)

TablesOK ==
    /\ queues \in SUBSET Calls
    /\ queue \in [Calls -> Seq(Events)]
    /\ bound \in SUBSET Calls
    /\ orphans \in [Calls -> Seq(Seqs)]
    /\ routed \in [Calls -> SUBSET Seqs]

LEMMA TablesType == ASSUME TypeOK PROVE TablesOK
BY DEF TypeOK, TablesOK, Events

LEMMA QueueTypes ==
  ASSUME TypeOK, NEW c \in Calls
  PROVE  /\ queue[c] \in Seq(Events) /\ orphans[c] \in Seq(Seqs) /\ orphans[c] \in Seq(Events)
         /\ Ahead(c) \in Seq(Events) /\ Range(Ahead(c)) = Range(queue[c]) \cup Range(orphans[c])
         /\ Range(orphans[c]) \subseteq Seqs
<1>1. queue[c] \in Seq(Events) /\ orphans[c] \in Seq(Seqs)
  BY DEF TypeOK, Events
<1>2. orphans[c] \in Seq(Events)
  <2>1. Seqs \subseteq Events
    BY DEF Events
  <2> QED
    BY <1>1, <2>1
<1>3. Ahead(c) \in Seq(Events) /\ Range(Ahead(c)) = Range(queue[c]) \cup Range(orphans[c])
  BY <1>1, <1>2, ConcatFacts, RangeFacts DEF Ahead
<1>4. Range(orphans[c]) \subseteq Seqs
  BY <1>1, RangeFacts
<1> QED
  BY <1>1, <1>2, <1>3, <1>4

LEMMA BindTypes == ASSUME TypeOK, NEW c \in Calls, Bind(c) PROVE TablesOK'
<1>1. queue[c] \o orphans[c] \in Seq(Events)
  BY QueueTypes DEF Ahead
<1>2. queue' \in [Calls -> Seq(Events)]
  BY <1>1, TablesType DEF Bind, TablesOK
<1>3. <<>> \in Seq(Seqs)
  OBVIOUS
<1>4. orphans' \in [Calls -> Seq(Seqs)]
  BY <1>3, TablesType DEF Bind, TablesOK
<1> QED
  BY <1>2, <1>4, TablesType DEF Bind, TablesOK

LEMMA RouteTypes == ASSUME TypeOK, NEW c \in Calls, NEW seq \in Seqs, Route(c, seq) PROVE TablesOK'
<1>1. /\ Append(queue[c], seq) \in Seq(Events)
      /\ Append(orphans[c], seq) \in Seq(Seqs)
  <2>1. seq \in Events
    BY DEF Events
  <2> QED
    BY <2>1, QueueTypes, AppendFacts
<1>2. routed[c] \cup {seq} \in SUBSET Seqs
  BY TablesType DEF TablesOK
<1>3. queue' \in [Calls -> Seq(Events)]
  BY <1>1, TablesType DEF Route, TablesOK
<1>4. orphans' \in [Calls -> Seq(Seqs)]
  BY <1>1, TablesType DEF Route, TablesOK
<1>5. routed' \in [Calls -> SUBSET Seqs]
  BY <1>2, TablesType DEF Route, TablesOK
<1> QED
  BY <1>3, <1>4, <1>5, TablesType DEF Route, TablesOK

\* What _acatch_up makes of a queue.
Merged(c, n) == Only([i \in 1 .. n |-> i], Seqs \ Handed(c)) \o Only(queue[c], {FeedLost} \cup n + 1 .. MaxSeq)

LEMMA HistoryFacts ==
  ASSUME NEW n \in 0 .. MaxSeq
  PROVE  /\ [i \in 1 .. n |-> i] \in Seq(Seqs)
         /\ DOMAIN [i \in 1 .. n |-> i] = 1 .. n
         /\ \A i \in 1 .. n : [k \in 1 .. n |-> k][i] = i
<1> DEFINE s == [i \in 1 .. n |-> i]
<1>1. n \in Nat /\ \A i \in 1 .. n : i \in Seqs
  BY EventFacts DEF Seqs
<1>2. s \in [1 .. n -> Seqs]
  BY <1>1
<1>3. s \in Seq(Seqs)
  <2> HIDE DEF s
  <2> QED
    BY <1>1, <1>2
<1> QED
  BY <1>3

LEMMA MergedType ==
  ASSUME TypeOK, NEW c \in Calls, NEW n \in 0 .. MaxSeq
  PROVE  Merged(c, n) \in Seq(Events)
<1>1. PICK s : s = [i \in 1 .. n |-> i]
  OBVIOUS
<1>2. PICK S : S = Seqs \ Handed(c)
  OBVIOUS
<1>3. PICK R : R = {FeedLost} \cup n + 1 .. MaxSeq
  OBVIOUS
<1>4. s \in Seq(Seqs)
  BY <1>1, HistoryFacts
<1>5. s \in Seq(Events)
  <2>1. Seqs \subseteq Events
    BY DEF Events
  <2> QED
    BY <1>4, <2>1
<1>6. Only(s, S) \in Seq(Events)
  BY <1>5, OnlyKeeps
<1>7. Only(queue[c], R) \in Seq(Events)
  BY QueueTypes, OnlyKeeps
<1>8. Only(s, S) \o Only(queue[c], R) \in Seq(Events)
  BY <1>6, <1>7, ConcatFacts
<1> QED
  BY <1>1, <1>2, <1>3, <1>8 DEF Merged

LEMMA CatchUpTypes == ASSUME TypeOK, NEW c \in Calls, NEW n \in 0 .. MaxSeq, CatchUp(c, n) PROVE TablesOK'
<1>1. Merged(c, n) \in Seq(Events)
  BY MergedType
<1>2. routed[c] \cup 1 .. n \in SUBSET Seqs
  BY TablesType, EventFacts DEF TablesOK, Seqs
<1>3. CASE c \in bound /\ c \in queues
  <2>1. queue' = [queue EXCEPT ![c] = Merged(c, n)]
    BY <1>3 DEF CatchUp, Merged, TypeOK
  <2>2. routed' = [routed EXCEPT ![c] = @ \cup 1 .. n] /\ UNCHANGED <<queues, bound, orphans>>
    BY <1>3 DEF CatchUp
  <2>3. queue' \in [Calls -> Seq(Events)]
    BY <1>1, <2>1, TablesType DEF TablesOK
  <2>4. routed' \in [Calls -> SUBSET Seqs]
    BY <1>2, <2>2, TablesType DEF TablesOK
  <2> QED
    BY <2>2, <2>3, <2>4, TablesType DEF TablesOK
<1>4. CASE ~(c \in bound /\ c \in queues)
  BY <1>4, TablesType DEF CatchUp, TablesOK
<1> QED
  BY <1>3, <1>4

GeneratorOK ==
    /\ pc \in [Calls -> {"idle", "assigning", "unanswered", "first", "waiting",
                         "yielded", "cancelling", "interrupting", "done"}]
    /\ outcome \in [Calls -> {"none", "ended", "refused", "lost", "closed",
                              "cancelled", "unknown", "abandoned"}]
    /\ taken \in [Calls -> Seq(Seqs)]
    /\ wasLive \in [Calls -> BOOLEAN]
ReadsOK ==
    /\ again \in SUBSET Calls /\ unread \in SUBSET Calls
    /\ asked \in [Readers \X Calls -> {NoRead} \cup 0 .. MaxSeq]
FeedOK ==
    /\ watching \in BOOLEAN /\ feedLive \in BOOLEAN
    /\ behind \in SUBSET Calls
    /\ feed \in {"off", "opening", "subscribed"}
    /\ changes \in Seq(Changes)
ServerOK ==
    /\ created \in SUBSET Calls
    /\ count \in [Calls -> 0 .. MaxSeq]
    /\ ending \in [Calls -> {"none", "completed", "cancelled", "interrupted"}]

LEMMA TypeParts == TypeOK <=> GeneratorOK /\ TablesOK /\ ReadsOK /\ FeedOK /\ ServerOK
BY DEF TypeOK, GeneratorOK, TablesOK, ReadsOK, FeedOK, ServerOK, Events

LEMMA EndTypes ==
  ASSUME TypeOK, NEW c \in Calls, NEW how \in {"ended", "refused", "lost", "closed", "cancelled", "unknown"},
         End(c, how), UNCHANGED <<taken, wasLive, watch, feed, changes, server, unread>>
  PROVE  TypeOK'
<1>0. GeneratorOK' /\ TablesOK' /\ ReadsOK' /\ FeedOK' /\ ServerOK' => TypeOK'
  BY DEF TypeOK, GeneratorOK, TablesOK, ReadsOK, FeedOK, ServerOK, Events
<1> USE TypeParts, <1>0
<1>1. GeneratorOK'
  BY DEF GeneratorOK, End
<1>2. TablesOK'
  <2>1. <<>> \in Seq(Events) /\ <<>> \in Seq(Seqs) /\ {} \in SUBSET Seqs
    OBVIOUS
  <2>2. queue' \in [Calls -> Seq(Events)] /\ queues' \in SUBSET Calls /\ bound' \in SUBSET Calls
    BY <2>1 DEF TablesOK, End, CleanUp
  <2>3. orphans' \in [Calls -> Seq(Seqs)] /\ routed' \in [Calls -> SUBSET Seqs]
    BY <2>1 DEF TablesOK, End, CleanUp
  <2> QED
    BY <2>2, <2>3 DEF TablesOK
<1>3. ReadsOK'
  BY DEF ReadsOK, End, CleanUp
<1>4. FeedOK' /\ ServerOK'
  BY DEF FeedOK, ServerOK, watch, server
<1> QED
  BY <1>1, <1>2, <1>3, <1>4

LEMMA CaughtUpTypes ==
  ASSUME TypeOK, NEW c \in Calls, NEW by \in Readers, CaughtUp(by, c)
  PROVE  TablesOK' /\ unread' \in SUBSET Calls /\ asked' \in [Readers \X Calls -> {NoRead} \cup 0 .. MaxSeq]
<1>0. GeneratorOK' /\ TablesOK' /\ ReadsOK' /\ FeedOK' /\ ServerOK' => TypeOK'
  BY DEF TypeOK, GeneratorOK, TablesOK, ReadsOK, FeedOK, ServerOK, Events
<1> USE TypeParts, <1>0
<1>1. asked' \in [Readers \X Calls -> {NoRead} \cup 0 .. MaxSeq]
  BY DEF ReadsOK, CaughtUp
<1>2. asked[<<by, c>>] \in 0 .. MaxSeq /\ count[c] \in 0 .. MaxSeq
  BY DEF ReadsOK, ServerOK, CaughtUp
<1>3. CASE \E n \in asked[<<by, c>>] .. count[c] : CatchUp(c, n) /\ UNCHANGED unread
  <2>1. PICK n \in asked[<<by, c>>] .. count[c] : CatchUp(c, n) /\ UNCHANGED unread
    BY <1>3
  <2>2. n \in 0 .. MaxSeq
    BY <1>2, EventFacts
  <2>3. TablesOK'
    BY <2>1, <2>2, CatchUpTypes
  <2> QED
    BY <1>1, <2>1, <2>3 DEF ReadsOK
<1>4. CASE c \in Unreadable /\ unread' = unread \cup {c} /\ UNCHANGED tables
  BY <1>1, <1>4 DEF ReadsOK, TablesOK, tables
<1> QED
  BY <1>3, <1>4 DEF CaughtUp

LEMMA AskForTypes ==
  ASSUME TypeOK, NEW c \in Calls, NEW by \in Readers, AskFor(by, c)
  PROVE  asked' \in [Readers \X Calls -> {NoRead} \cup 0 .. MaxSeq]
BY TypeParts DEF ReadsOK, ServerOK, AskFor

\* The generator's steps.
LEMMA GeneratorTypes ==
  ASSUME TypeOK, NEW c \in Calls,
         \/ Assign(c) \/ Assigned(c) \/ AssignFails(c) \/ FirstDone(c)
         \/ Take(c) \/ Resume(c) \/ Close(c)
  PROVE  TypeOK'
<1>0. GeneratorOK' /\ TablesOK' /\ ReadsOK' /\ FeedOK' /\ ServerOK' => TypeOK'
  BY DEF TypeOK, GeneratorOK, TablesOK, ReadsOK, FeedOK, ServerOK, Events
<1> USE TypeParts, <1>0
<1>1. CASE Assign(c)
  <2>1. GeneratorOK' /\ TablesOK'
    BY <1>1 DEF Assign, GeneratorOK, TablesOK, FeedOK
  <2>2. ReadsOK' /\ FeedOK' /\ ServerOK'
    BY <1>1 DEF Assign, ReadsOK, FeedOK, ServerOK, server
  <2> QED
    BY <2>1, <2>2
<1>2. CASE Assigned(c)
  <2>1. TablesOK'
    BY <1>2, BindTypes DEF Assigned
  <2>2. GeneratorOK'
    BY <1>2 DEF Assigned, GeneratorOK
  <2>3. FeedOK' /\ ServerOK'
    BY <1>2 DEF Assigned, FeedOK, ServerOK, watch, server
  <2>4. ReadsOK'
    BY <1>2, AskForTypes DEF Assigned, ReadsOK, Readers
  <2> QED
    BY <2>1, <2>2, <2>3, <2>4
<1>3. CASE AssignFails(c)
  BY <1>3, EndTypes DEF AssignFails
<1>4. CASE FirstDone(c)
  <2>1. TablesOK' /\ unread' \in SUBSET Calls /\ asked' \in [Readers \X Calls -> {NoRead} \cup 0 .. MaxSeq]
    BY <1>4, CaughtUpTypes DEF FirstDone, Readers
  <2>2. GeneratorOK'
    BY <1>4 DEF FirstDone, GeneratorOK
  <2>3. FeedOK' /\ ServerOK' /\ again' \in SUBSET Calls
    BY <1>4 DEF FirstDone, FeedOK, ServerOK, watch, server, ReadsOK
  <2> QED
    BY <2>1, <2>2, <2>3 DEF ReadsOK
<1>5. CASE Take(c)
  <2>1. CASE Head(queue[c]) = FeedLost
    BY <1>5, <2>1, EndTypes DEF Take
  <2>2. CASE Head(queue[c]) # FeedLost
    <3>1. queue[c] \in Seq(Events) /\ queue[c] # <<>>
      BY <1>5, QueueTypes DEF Take
    <3>2. Head(queue[c]) \in Events /\ Tail(queue[c]) \in Seq(Events)
      BY <3>1, TailFacts
    <3>3. Head(queue[c]) \in Seqs /\ taken[c] \in Seq(Seqs)
      BY <2>2, <3>2 DEF Events, GeneratorOK
    <3>4. Append(taken[c], Head(queue[c])) \in Seq(Seqs)
      BY <3>3, AppendFacts
    <3>5. GeneratorOK'
      BY <1>5, <2>2, <3>4 DEF Take, GeneratorOK
    <3>6. TablesOK'
      BY <1>5, <2>2, <3>2 DEF Take, TablesOK
    <3>7. ReadsOK' /\ FeedOK' /\ ServerOK'
      BY <1>5, <2>2 DEF Take, ReadsOK, FeedOK, ServerOK, watch, server
    <3> QED
      BY <3>5, <3>6, <3>7
  <2> QED
    BY <2>1, <2>2
<1>6. CASE Resume(c)
  <2>1. CASE Kind(c, Last(taken[c])) # "none"
    BY <1>6, <2>1, EndTypes DEF Resume
  <2>2. CASE ~(Kind(c, Last(taken[c])) # "none")
    BY <1>6, <2>2 DEF Resume, GeneratorOK, TablesOK, ReadsOK, FeedOK, ServerOK, tables, watch, server
  <2> QED
    BY <2>1, <2>2
<1>7. CASE Close(c)
  BY <1>7, EndTypes DEF Close
<1> QED
  BY <1>1, <1>2, <1>3, <1>4, <1>5, <1>6, <1>7

\* Its cancellation.
LEMMA CancellationTypes ==
  ASSUME TypeOK, NEW c \in Calls,
         \/ CancelAssigning(c) \/ LateAnswer(c) \/ NoAnswer(c) \/ CancelWaiting(c)
         \/ Drain(c) \/ Unconfirmed(c) \/ CancelAgain(c)
  PROVE  TypeOK'
<1>0. GeneratorOK' /\ TablesOK' /\ ReadsOK' /\ FeedOK' /\ ServerOK' => TypeOK'
  BY DEF TypeOK, GeneratorOK, TablesOK, ReadsOK, FeedOK, ServerOK, Events
<1> USE TypeParts, <1>0
<1>1. CASE CancelAssigning(c)
  BY <1>1 DEF CancelAssigning, GeneratorOK, TablesOK, ReadsOK, FeedOK, ServerOK, tables, watch, server
<1>2. CASE LateAnswer(c)
  <2>1. TablesOK'
    BY <1>2, BindTypes DEF LateAnswer
  <2>2. GeneratorOK' /\ ReadsOK' /\ FeedOK' /\ ServerOK'
    BY <1>2 DEF LateAnswer, GeneratorOK, ReadsOK, FeedOK, ServerOK, watch, server
  <2> QED
    BY <2>1, <2>2
<1>3. CASE NoAnswer(c)
  BY <1>3, EndTypes DEF NoAnswer
<1>4. CASE CancelWaiting(c)
  BY <1>4 DEF CancelWaiting, GeneratorOK, TablesOK, ReadsOK, FeedOK, ServerOK, tables, watch, server
<1>5. CASE Drain(c)
  <2>1. CASE End(c, "cancelled")
    BY <1>5, <2>1, EndTypes DEF Drain
  <2>2. CASE ~End(c, "cancelled")
    <3>1. queue[c] \in Seq(Events) /\ queue[c] # <<>>
      BY <1>5, QueueTypes DEF Drain
    <3>2. Tail(queue[c]) \in Seq(Events)
      BY <3>1, TailFacts
    <3>3. /\ pc' \in {pc, [pc EXCEPT ![c] = "interrupting"]}
          /\ queue' = [queue EXCEPT ![c] = Tail(@)]
          /\ UNCHANGED <<outcome, queues, bound, orphans, routed, again, asked>>
          /\ UNCHANGED <<taken, wasLive, watch, feed, changes, server, unread>>
      BY <1>5, <2>2 DEF Drain
    <3>4. GeneratorOK'
      BY <3>3 DEF GeneratorOK
    <3>5. TablesOK'
      BY <3>2, <3>3 DEF TablesOK
    <3>6. ReadsOK' /\ FeedOK' /\ ServerOK'
      BY <3>3 DEF ReadsOK, FeedOK, ServerOK, watch, server
    <3> QED
      BY <3>4, <3>5, <3>6
  <2> QED
    BY <2>1, <2>2
<1>6. CASE Unconfirmed(c)
  <2>1. CASE ~Escalates(c)
    BY <1>6, <2>1, EndTypes DEF Unconfirmed
  <2>2. CASE Escalates(c)
    BY <1>6, <2>2 DEF Unconfirmed, GeneratorOK, TablesOK, ReadsOK, FeedOK, ServerOK, tables, watch, server
  <2> QED
    BY <2>1, <2>2
<1>7. CASE CancelAgain(c)
  <2>1. CASE End(c, "cancelled")
    BY <1>7, <2>1, EndTypes DEF CancelAgain
  <2>2. CASE ~End(c, "cancelled")
    BY <1>7, <2>2 DEF CancelAgain, GeneratorOK, TablesOK, ReadsOK, FeedOK, ServerOK, tables, watch, server
  <2> QED
    BY <2>1, <2>2
<1> QED
  BY <1>1, <1>2, <1>3, <1>4, <1>5, <1>6, <1>7

LEMMA ReaderTypes ==
  ASSUME TypeOK, NEW c \in Calls, AgainWakes(c) \/ AgainDone(c) \/ FeedReads(c) \/ FeedCaughtUp(c)
  PROVE  TypeOK'
<1>0. GeneratorOK' /\ TablesOK' /\ ReadsOK' /\ FeedOK' /\ ServerOK' => TypeOK'
  BY DEF TypeOK, GeneratorOK, TablesOK, ReadsOK, FeedOK, ServerOK, Events
<1> USE TypeParts, <1>0
<1>1. CASE AgainWakes(c)
  <2>1. ReadsOK'
    BY <1>1, AskForTypes DEF AgainWakes, ReadsOK, Readers
  <2> QED
    BY <1>1, <2>1 DEF AgainWakes, GeneratorOK, TablesOK, FeedOK, ServerOK, generator, tables, watch, server
<1>2. CASE AgainDone(c)
  <2>1. TablesOK' /\ unread' \in SUBSET Calls /\ asked' \in [Readers \X Calls -> {NoRead} \cup 0 .. MaxSeq]
    BY <1>2, CaughtUpTypes DEF AgainDone, Readers
  <2>2. again' \in SUBSET Calls
    BY <1>2 DEF AgainDone, ReadsOK
  <2>3. GeneratorOK' /\ FeedOK' /\ ServerOK'
    BY <1>2 DEF AgainDone, GeneratorOK, FeedOK, ServerOK, generator, watch, server
  <2> QED
    BY <2>1, <2>2, <2>3 DEF ReadsOK
<1>3. CASE FeedReads(c)
  <2>1. ReadsOK'
    BY <1>3, AskForTypes DEF FeedReads, ReadsOK, Readers
  <2> QED
    BY <1>3, <2>1 DEF FeedReads, GeneratorOK, TablesOK, FeedOK, ServerOK, generator, tables, watch, server
<1>4. CASE FeedCaughtUp(c)
  <2>1. TablesOK' /\ unread' \in SUBSET Calls /\ asked' \in [Readers \X Calls -> {NoRead} \cup 0 .. MaxSeq]
    BY <1>4, CaughtUpTypes DEF FeedCaughtUp, Readers
  <2>2. GeneratorOK' /\ ServerOK' /\ FeedOK' /\ again' \in SUBSET Calls
    BY <1>4 DEF FeedCaughtUp, GeneratorOK, FeedOK, ServerOK, ReadsOK, generator, server
  <2> QED
    BY <2>1, <2>2 DEF ReadsOK
<1> QED
  BY <1>1, <1>2, <1>3, <1>4

LEMMA ServerTypes ==
  ASSUME TypeOK, NEW c \in Calls, CallInv(c), ServerAssigns(c) \/ ServerReports(c)
  PROVE  TypeOK'
<1>0. GeneratorOK' /\ TablesOK' /\ ReadsOK' /\ FeedOK' /\ ServerOK' => TypeOK'
  BY DEF TypeOK, GeneratorOK, TablesOK, ReadsOK, FeedOK, ServerOK, Events
<1> USE TypeParts, <1>0
<1>1. CASE ServerAssigns(c)
  <2>1. [call |-> c, seq |-> 0] \in Changes
    BY EventFacts DEF Changes
  <2>2. changes' \in {changes, Append(changes, [call |-> c, seq |-> 0])}
    BY <1>1 DEF ServerAssigns, Carried
  <2>3. changes' \in Seq(Changes)
    BY <2>1, <2>2 DEF FeedOK
  <2>4. FeedOK' /\ ServerOK'
    BY <1>1, <2>3 DEF ServerAssigns, FeedOK, ServerOK, watch
  <2> QED
    BY <1>1, <2>4 DEF ServerAssigns, GeneratorOK, TablesOK, ReadsOK, generator, tables
<1>2. CASE ServerReports(c)
  <2>1. count[c] \in 0 .. MaxSeq /\ count[c] < MaxSeq
    BY <1>2 DEF ServerReports, ServerOK, CallInv, HistoryInv
  <2>2. count[c] + 1 \in 0 .. MaxSeq
    BY <2>1, EventFacts
  <2>3. [call |-> c, seq |-> count[c] + 1] \in Changes
    BY <2>2 DEF Changes
  <2>4. changes' \in {changes, Append(changes, [call |-> c, seq |-> count[c] + 1])}
    BY <1>2 DEF ServerReports, Carried
  <2>5. changes' \in Seq(Changes)
    BY <2>3, <2>4 DEF FeedOK
  <2>6. FeedOK'
    BY <1>2, <2>5 DEF ServerReports, FeedOK, watch
  <2>7. ServerOK'
    BY <1>2, <2>2 DEF ServerReports, ServerOK
  <2> QED
    BY <1>2, <2>6, <2>7 DEF ServerReports, GeneratorOK, TablesOK, ReadsOK, generator, tables
<1> QED
  BY <1>1, <1>2

LEMMA FeedTypes == ASSUME TypeOK, FeedAlive \/ HandleChange \/ FeedEnds \/ Subscribed PROVE TypeOK'
<1>0. GeneratorOK' /\ TablesOK' /\ ReadsOK' /\ FeedOK' /\ ServerOK' => TypeOK'
  BY DEF TypeOK, GeneratorOK, TablesOK, ReadsOK, FeedOK, ServerOK, Events
<1> USE TypeParts, <1>0
<1>1. CASE FeedAlive
  <2>1. FeedOK'
    BY <1>1 DEF FeedAlive, FeedOK, TablesOK
  <2> QED
    BY <1>1, <2>1 DEF FeedAlive, GeneratorOK, TablesOK, ReadsOK, ServerOK, generator, tables, server
<1>2. CASE HandleChange
  <2>1. changes \in Seq(Changes) /\ changes # <<>>
    BY <1>2 DEF HandleChange, FeedOK
  <2>2. Head(changes) \in Changes /\ Tail(changes) \in Seq(Changes)
    BY <2>1, TailFacts
  <2>3. Head(changes).call \in Calls /\ Head(changes).seq \in 0 .. MaxSeq
    BY <2>2 DEF Changes
  <2>4. TablesOK'
    <3>1. CASE Head(changes).seq = 0
      BY <1>2, <2>3, <3>1, BindTypes DEF HandleChange
    <3>2. CASE Head(changes).seq # 0
      <4>1. Head(changes).seq \in Seqs
        BY <2>3, <3>2, EventFacts DEF Seqs
      <4> QED
        BY <1>2, <2>3, <3>2, <4>1, RouteTypes DEF HandleChange
    <3> QED
      BY <3>1, <3>2
  <2>5. GeneratorOK' /\ ReadsOK' /\ FeedOK' /\ ServerOK'
    BY <1>2, <2>2 DEF HandleChange, GeneratorOK, ReadsOK, FeedOK, ServerOK, generator, watch, server
  <2> QED
    BY <2>4, <2>5
<1>3. CASE FeedEnds
  <2>1. \A d \in Calls : Append(queue[d], FeedLost) \in Seq(Events)
    BY QueueTypes, LossFacts
  <2>2. <<>> \in Seq(Events) /\ <<>> \in Seq(Changes)
    OBVIOUS
  <2>3. queue' \in [Calls -> Seq(Events)]
    BY <1>3, <2>1, <2>2 DEF FeedEnds
  <2>4. TablesOK'
    BY <1>3, <2>3 DEF FeedEnds, TablesOK
  <2>5. FeedOK'
    BY <1>3, <2>2 DEF FeedEnds, FeedOK
  <2> QED
    BY <1>3, <2>4, <2>5 DEF FeedEnds, GeneratorOK, ReadsOK, ServerOK, generator, server
<1>4. CASE Subscribed
  BY <1>4 DEF Subscribed, GeneratorOK, TablesOK, ReadsOK, FeedOK, ServerOK, generator, tables, watch, server
<1> QED
  BY <1>1, <1>2, <1>3, <1>4

LEMMA TypeStep == ASSUME IInv, Next PROVE TypeOK'
<1>1. TypeOK /\ \A c \in Calls : CallInv(c)
  BY DEF IInv
<1> QED
  BY <1>1, GeneratorTypes, CancellationTypes, ReaderTypes, ServerTypes, FeedTypes DEF Next

-----------------------------------------------------------------------------
(* What a step leaves of a call.                                           *)

\* All that is kept for d is what it was ...
OwnKept(d) ==
    /\ pc'[d] = pc[d] /\ outcome'[d] = outcome[d] /\ taken'[d] = taken[d] /\ wasLive'[d] = wasLive[d]
    /\ queue'[d] = queue[d] /\ orphans'[d] = orphans[d] /\ routed'[d] = routed[d]
    /\ d \in queues' <=> d \in queues
    /\ d \in bound' <=> d \in bound
    /\ d \in again' <=> d \in again
    /\ d \in behind' <=> d \in behind
    /\ d \in unread' <=> d \in unread
    /\ \A by \in Readers : asked'[<<by, d>>] = asked[<<by, d>>]
    /\ d \in created' <=> d \in created
    /\ count'[d] = count[d] /\ ending'[d] = ending[d]

\* ... and the feed carries the same of it.
FeedKept(d) ==
    /\ feed' = "off" => feed = "off"
    /\ feedLive' = feedLive
    /\ \A i \in DOMAIN changes' : changes'[i].call = d =>
          \E j \in DOMAIN changes : changes[j].call = d /\ changes[j].seq = changes'[i].seq
    /\ Relies(d) /\ FeedOrdered(changes, d, Sources(d)) => FeedOrdered(changes', d, Sources(d))
    /\ Relies(d) /\ FeedWhole(changes, d, Sources(d), count[d]) => FeedWhole(changes', d, Sources(d), count[d])

LEMMA CallTypes ==
  ASSUME TypeOK, NEW c \in Calls
  PROVE  /\ changes \in Seq(Changes) /\ taken[c] \in Seq(Seqs) /\ routed[c] \in SUBSET Seqs
         /\ count[c] \in Nat /\ count[c] <= MaxSeq /\ count[c] \in 0 .. MaxSeq
         /\ \A by \in Readers : asked[<<by, c>>] = NoRead \/ asked[<<by, c>>] \in 0 .. MaxSeq
         /\ Taken(c) \subseteq Seqs
<1>1. taken[c] \in Seq(Seqs)
  BY DEF TypeOK
<1>2. Taken(c) \subseteq Seqs
  BY <1>1 DEF Taken
<1>3. count[c] \in 0 .. MaxSeq
  BY DEF TypeOK
<1>4. \A by \in Readers : asked[<<by, c>>] = NoRead \/ asked[<<by, c>>] \in 0 .. MaxSeq
  BY DEF TypeOK
<1>5. changes \in Seq(Changes) /\ routed[c] \in SUBSET Seqs
  BY DEF TypeOK
<1> QED
  BY <1>1, <1>2, <1>3, <1>4, <1>5, EventFacts

LEMMA FeedSame ==
  ASSUME NEW d \in Calls, UNCHANGED <<feedLive, changes>>, feed' = "off" => feed = "off"
  PROVE  FeedKept(d)
BY DEF FeedKept

LEMMA FeedJoins ==
  ASSUME TypeOK, NEW d \in Calls, NEW x \in Changes, x.call # d,
         changes' = Append(changes, x), UNCHANGED <<feed, feedLive>>
  PROVE  FeedKept(d)
<1>1. changes \in Seq(Changes)
  BY CallTypes
<1>3. /\ FeedOrdered(changes, d, Sources(d)) => FeedOrdered(changes', d, Sources(d))
      /\ FeedWhole(changes, d, Sources(d), count[d]) => FeedWhole(changes', d, Sources(d), count[d])
  BY <1>1, FeedAppend
<1>4. ASSUME NEW i \in DOMAIN changes', changes'[i].call = d
      PROVE  \E j \in DOMAIN changes : changes[j].call = d /\ changes[j].seq = changes'[i].seq
  <2> DEFINE r == Append(changes, x)
  <2>1. /\ DOMAIN changes = 1 .. Len(changes) /\ DOMAIN r = 1 .. Len(changes) + 1 /\ Len(changes) \in Nat
        /\ r[Len(changes) + 1] = x
        /\ \A k \in 1 .. Len(changes) : r[k] = changes[k]
    BY <1>1, AppendFacts
  <2>2. changes' = r
    OBVIOUS
  <2> HIDE DEF r
  <2>3. i # Len(changes) + 1
    BY <1>4, <2>1, <2>2
  <2>4. i \in DOMAIN changes
    BY <2>1, <2>2, <2>3
  <2> QED
    BY <1>4, <2>1, <2>2, <2>4
<1> QED
  BY <1>3, <1>4 DEF FeedKept

LEMMA FeedLeaves ==
  ASSUME TypeOK, NEW d \in Calls, changes # <<>>,
         Relies(d) /\ Head(changes).call = d => Head(changes).seq = 0 \/ Head(changes).seq \in Sources(d),
         changes' = Tail(changes), UNCHANGED <<feed, feedLive>>
  PROVE  FeedKept(d)
<1>1. changes \in Seq(Changes)
  BY CallTypes
<1>2. /\ Relies(d) /\ FeedOrdered(changes, d, Sources(d)) => FeedOrdered(changes', d, Sources(d))
      /\ Relies(d) /\ FeedWhole(changes, d, Sources(d), count[d]) => FeedWhole(changes', d, Sources(d), count[d])
  BY <1>1, FeedTail
<1>3. ASSUME NEW i \in DOMAIN changes'
      PROVE  \E j \in DOMAIN changes : changes[j] = changes'[i]
  <2>1. /\ DOMAIN changes = 1 .. Len(changes) /\ DOMAIN Tail(changes) = 1 .. Len(changes) - 1
        /\ Len(changes) \in Nat \ {0}
        /\ \A k \in 1 .. Len(changes) - 1 : Tail(changes)[k] = changes[k + 1]
    BY <1>1, TailFacts
  <2>2. i + 1 \in DOMAIN changes /\ changes'[i] = changes[i + 1]
    BY <2>1
  <2> QED
    BY <2>2
<1> QED
  BY <1>2, <1>3 DEF FeedKept

LEMMA SourcesKept ==
  ASSUME NEW d, OwnKept(d)
  PROVE  /\ Ahead(d)' = Ahead(d) /\ Taken(d)' = Taken(d) /\ First(d)' = First(d) /\ Missed(d)' = Missed(d)
         /\ Sources(d)' = Sources(d) /\ (Streams(d)' <=> Streams(d)) /\ (Relies(d)' <=> Relies(d))
<1>1. Ahead(d)' = Ahead(d) /\ Taken(d)' = Taken(d)
  BY DEF OwnKept, Ahead, Taken
<1>2. First(d)' = First(d) /\ Missed(d)' = Missed(d)
  BY DEF OwnKept, First, Missed, Readers
<1>3. Sources(d)' = Sources(d)
  BY <1>1, <1>2 DEF Sources
<1>4. (Streams(d)' <=> Streams(d)) /\ (Relies(d)' <=> Relies(d))
  BY DEF OwnKept, Streams, Relies
<1> QED
  BY <1>1, <1>2, <1>3, <1>4

LEMMA HistoryKept ==
  ASSUME TypeOK, NEW d \in Calls, OwnKept(d), FeedKept(d), HistoryInv(d)
  PROVE  HistoryInv(d)'
<1>1. ASSUME NEW i \in DOMAIN changes', changes'[i].call = d
      PROVE  d \in created' /\ changes'[i].seq <= count'[d]
  <2>1. PICK j \in DOMAIN changes : changes[j].call = d /\ changes[j].seq = changes'[i].seq
    BY <1>1 DEF FeedKept
  <2> QED
    BY <1>1, <2>1 DEF HistoryInv, OwnKept
<1> QED
  BY <1>1 DEF HistoryInv, OwnKept, FeedKept

LEMMA GeneratorKept == ASSUME NEW d, OwnKept(d), GeneratorInv(d) PROVE GeneratorInv(d)'
BY DEF GeneratorInv, OwnKept, Waits, Readers

LEMMA HeardKept == ASSUME NEW d, OwnKept(d), FeedKept(d), HeardInv(d) PROVE HeardInv(d)'
BY DEF HeardInv, OwnKept, FeedKept, Waits

LEMMA OnceKept == ASSUME NEW d, OwnKept(d), OnceInv(d) PROVE OnceInv(d)'
<1>1. Ahead(d)' = Ahead(d) /\ Taken(d)' = Taken(d) /\ (Streams(d)' <=> Streams(d))
  BY SourcesKept
<1> QED
  BY <1>1 DEF OnceInv, OwnKept

LEMMA OrderedKept == ASSUME NEW d, OwnKept(d), FeedKept(d), OrderInv(d) PROVE OrderInv(d)'
<1>1. /\ Ahead(d)' = Ahead(d) /\ Taken(d)' = Taken(d) /\ First(d)' = First(d)
      /\ Sources(d)' = Sources(d) /\ (Relies(d)' <=> Relies(d))
  BY SourcesKept
<1> QED
  BY <1>1 DEF OrderInv, OwnKept, FeedKept

LEMMA EndKept == ASSUME NEW d, OwnKept(d), EndInv(d) PROVE EndInv(d)'
BY DEF EndInv, OwnKept

LEMMA Untouched ==
  ASSUME TypeOK, NEW d \in Calls, CallInv(d), OwnKept(d), FeedKept(d)
  PROVE  CallInv(d)'
BY HistoryKept, GeneratorKept, HeardKept, OnceKept, OrderedKept, EndKept DEF CallInv

\* A step of the call itself, which leaves the feed and the server alone, and what the
\* call took ...
Step(c) ==
    /\ UNCHANGED <<changes, count, ending, created>>
    /\ c \in unread => c \in unread'

\* ... keeps the order of what the postman holds for it, if nothing is lost of it.
LEMMA OrderKept ==
  ASSUME TypeOK, NEW c \in Calls, OrderInv(c), Step(c),
         taken'[c] = taken[c], UNCHANGED <<feedLive, wasLive>>,
         Relies(c)' =>
            /\ Relies(c)
            /\ Ordered(Ahead(c)', Taken(c) \cup First(c)')
            /\ FeedLost \in Range(Ahead(c)) => FeedLost \in Range(Ahead(c)')
            /\ Sources(c) \subseteq Sources(c)'
  PROVE  OrderInv(c)'
<1>1. Taken(c)' = Taken(c)
  BY DEF Taken
<1>2. changes \in Seq(Changes) /\ count[c] \in Nat
  BY CallTypes
<1>3. c \notin unread' => \A i \in DOMAIN taken'[c] : taken'[c][i] = i
  BY DEF OrderInv, Step
<1>4. ASSUME Relies(c)'
      PROVE  /\ Ordered(Ahead(c)', Taken(c)' \cup First(c)')
             /\ FeedLost \notin Range(Ahead(c)') =>
                   /\ wasLive'[c] => feedLive'
                   /\ feedLive' => /\ FeedOrdered(changes', c, Sources(c)')
                                   /\ FeedWhole(changes', c, Sources(c)', count'[c])
  <2>1. Ordered(Ahead(c)', Taken(c)' \cup First(c)')
    BY <1>1, <1>4
  <2>2. ASSUME FeedLost \notin Range(Ahead(c)')
        PROVE  /\ wasLive'[c] => feedLive'
               /\ feedLive' => /\ FeedOrdered(changes', c, Sources(c)')
                               /\ FeedWhole(changes', c, Sources(c)', count'[c])
    <3>1. /\ wasLive[c] => feedLive
          /\ feedLive => FeedOrdered(changes, c, Sources(c)) /\ FeedWhole(changes, c, Sources(c), count[c])
      BY <1>4, <2>2 DEF OrderInv
    <3>2. Sources(c) \subseteq Sources(c)'
      BY <1>4
    <3>3. PICK T : T = Sources(c)'
      OBVIOUS
    <3>4. feedLive => FeedOrdered(changes, c, T) /\ FeedWhole(changes, c, T, count[c])
      BY <1>2, <3>1, <3>2, <3>3, FeedFacts
    <3> QED
      BY <3>1, <3>3, <3>4 DEF Step
  <2> QED
    BY <2>1, <2>2
<1> QED
  BY <1>3, <1>4 DEF OrderInv

LEMMA HistoryStep ==
  ASSUME TypeOK, NEW c \in Calls, HistoryInv(c), Step(c),
         pc'[c] = "idle" => pc[c] = "idle", c \in bound' => c \in bound \/ c \in created,
         routed'[c] \subseteq routed[c] \cup 1 .. count[c],
         \A by \in Readers : asked'[<<by, c>>] \in {asked[<<by, c>>], NoRead, count[c]}
  PROVE  HistoryInv(c)'
<1>1. count[c] \in Nat
  BY CallTypes
<1>2. \A seq \in routed'[c] : seq <= count[c]
  BY <1>1 DEF HistoryInv
<1>3. \A by \in Readers : asked'[<<by, c>>] <= count[c]
  <2>1. NoRead <= count[c] /\ count[c] <= count[c]
    BY <1>1 DEF NoRead
  <2> QED
    BY <2>1 DEF HistoryInv
<1> QED
  BY <1>2, <1>3 DEF HistoryInv, Step

\* The end of a call.
LEMMA EndKeeps ==
  ASSUME TypeOK, NEW c \in Calls, CallInv(c),
         NEW how \in {"ended", "refused", "lost", "closed", "cancelled", "unknown"}, End(c, how), pc[c] # "idle",
         how = "ended" /\ c \notin unread => Len(taken[c]) = count[c] /\ ending[c] # "none",
         UNCHANGED <<taken, wasLive, watch, feed, changes, server, unread>>
  PROVE  CallInv(c)'
<1>1. /\ pc'[c] = "done" /\ outcome'[c] = how /\ c \notin queues' /\ c \notin bound' /\ c \notin again'
      /\ queue'[c] = <<>>
      /\ asked'[<<"first", c>>] = NoRead /\ asked'[<<"again", c>>] = NoRead
      /\ asked'[<<"feed", c>>] = asked[<<"feed", c>>]
      /\ routed'[c] \in {routed[c], {}}
  BY DEF End, CleanUp, TypeOK, Readers
<1>2. HistoryInv(c)'
  BY <1>1, HistoryStep DEF CallInv, Step, server, Readers
<1>3. GeneratorInv(c)'
  BY <1>1 DEF CallInv, GeneratorInv, Waits, watch
<1>4. HeardInv(c)'
  BY <1>1 DEF HeardInv, Waits
<1>5. ~Streams(c)'
  BY <1>1 DEF Streams
<1>6. OnceInv(c)'
  BY <1>1, <1>5 DEF OnceInv
<1>7. OrderInv(c)'
  BY <1>5 DEF CallInv, OrderInv, Relies
<1>8. EndInv(c)'
  BY <1>1 DEF EndInv, server
<1> QED
  BY <1>2, <1>3, <1>4, <1>6, <1>7, <1>8 DEF CallInv

-----------------------------------------------------------------------------
(* The tables.                                                             *)

LEMMA OrderedBelow ==
  ASSUME NEW q \in Seq(Events), NEW m \in Nat, \A x \in Range(q) : x <= m, NEW T, 1 .. m \subseteq T
  PROVE  Ordered(q, T)
<1>1. ASSUME NEW i \in DOMAIN q, NEW n \in 1 .. q[i] - 1
      PROVE  n \in T
  <2>1. q[i] \in Range(q) /\ q[i] \in Events
    BY DEF Range
  <2>2. q[i] <= m /\ q[i] \in Nat
    BY <2>1, EventFacts
  <2>3. n \in 1 .. m
    BY <2>2
  <2> QED
    BY <2>3
<1> QED
  BY <1>1 DEF Ordered

LEMMA BindFacts ==
  ASSUME TypeOK, NEW c \in Calls, CallInv(c), Bind(c)
  PROVE  /\ c \in bound' /\ orphans'[c] = <<>> /\ UNCHANGED <<queues, routed>>
         /\ c \in queues => queue'[c] = Ahead(c) /\ Ahead(c)' = Ahead(c)
         /\ c \notin queues => queue'[c] = <<>>
         /\ FeedLost \in Range(queue[c]) => FeedLost \in Range(queue'[c])
<1>1. c \in bound' /\ orphans'[c] = <<>> /\ UNCHANGED <<queues, routed>>
  BY DEF Bind, TypeOK
<1>2. ASSUME c \in queues
      PROVE  queue'[c] = Ahead(c) /\ Ahead(c)' = Ahead(c)
  <2>1. queue'[c] = Ahead(c)
    BY <1>2 DEF Bind, TypeOK, Ahead
  <2>2. Ahead(c) \o <<>> = Ahead(c)
    BY QueueTypes, ParkFacts
  <2> QED
    BY <1>1, <2>1, <2>2 DEF Ahead
<1>3. c \notin queues => queue'[c] = <<>> /\ queue[c] = <<>>
  BY DEF Bind, CallInv, GeneratorInv
<1>4. FeedLost \in Range(queue[c]) => FeedLost \in Range(queue'[c])
  BY <1>2, <1>3, QueueTypes
<1> QED
  BY <1>1, <1>2, <1>3, <1>4

LEMMA MergedRange ==
  ASSUME TypeOK, NEW c \in Calls, NEW n \in 0 .. MaxSeq, FeedLost \in Range(queue[c])
  PROVE  FeedLost \in Range(Merged(c, n))
<1>1. PICK s : s = [i \in 1 .. n |-> i]
  OBVIOUS
<1>2. PICK S : S = Seqs \ Handed(c)
  OBVIOUS
<1>3. PICK R : R = {FeedLost} \cup n + 1 .. MaxSeq
  OBVIOUS
<1>4. s \in Seq(Seqs)
  BY <1>1, HistoryFacts
<1>5. s \in Seq(Events)
  <2>1. Seqs \subseteq Events
    BY DEF Events
  <2> QED
    BY <1>4, <2>1
<1>6. Only(s, S) \in Seq(Events)
  BY <1>5, OnlyKeeps
<1>7. Only(queue[c], R) \in Seq(Events) /\ Range(Only(queue[c], R)) = Range(queue[c]) \cap R
  BY QueueTypes, OnlyKeeps
<1>8. Range(Only(s, S) \o Only(queue[c], R)) = Range(Only(s, S)) \cup Range(Only(queue[c], R))
  BY <1>6, <1>7, RangeFacts
<1>9. FeedLost \in Range(Only(s, S) \o Only(queue[c], R))
  BY <1>3, <1>7, <1>8
<1> QED
  BY <1>1, <1>2, <1>3, <1>9 DEF Merged

\* What a read brings to a call that streams.
LEMMA CatchUpFacts ==
  ASSUME TypeOK, NEW c \in Calls, CallInv(c), NEW n \in 0 .. MaxSeq, CatchUp(c, n)
  PROVE  /\ UNCHANGED <<queues, bound, orphans>>
         /\ FeedLost \in Range(queue[c]) => FeedLost \in Range(queue'[c])
         /\ c \notin queues => queue'[c] = queue[c]
         /\ c \in bound /\ c \in queues /\ Streams(c) =>
               /\ Single(Ahead(c)', Taken(c))
               /\ routed'[c] = Taken(c) \cup (Range(Ahead(c)') \ {FeedLost})
               /\ Range(Ahead(c)) \cup 1 .. n \subseteq Taken(c) \cup Range(Ahead(c)')
               /\ FeedLost \in Range(Ahead(c)) => FeedLost \in Range(Ahead(c)')
               /\ \A B, C : Ordered(Ahead(c), B) /\ Taken(c) \subseteq C /\ B \subseteq C \cup 1 .. n =>
                     Ordered(Ahead(c)', C)
         /\ ~(c \in bound /\ c \in queues) => UNCHANGED tables
         /\ routed'[c] \subseteq routed[c] \cup 1 .. n
<1>1. UNCHANGED <<queues, bound, orphans>>
  BY DEF CatchUp
<1>2. ~(c \in bound /\ c \in queues) => UNCHANGED tables
  BY DEF CatchUp, tables
<1>3. c \in bound /\ c \in queues => queue'[c] = Merged(c, n) /\ routed'[c] = routed[c] \cup 1 .. n
  BY DEF CatchUp, Merged, TypeOK
<1>4. FeedLost \in Range(queue[c]) => FeedLost \in Range(queue'[c])
  BY <1>2, <1>3, MergedRange DEF tables
<1>5. c \notin queues => queue'[c] = queue[c]
  BY <1>2 DEF tables
<1>6. ASSUME c \in bound, c \in queues, Streams(c)
      PROVE  /\ Single(Ahead(c)', Taken(c))
             /\ routed'[c] = Taken(c) \cup (Range(Ahead(c)') \ {FeedLost})
             /\ Range(Ahead(c)) \cup 1 .. n \subseteq Taken(c) \cup Range(Ahead(c)')
             /\ FeedLost \in Range(Ahead(c)) => FeedLost \in Range(Ahead(c)')
             /\ \A B, C : Ordered(Ahead(c), B) /\ Taken(c) \subseteq C /\ B \subseteq C \cup 1 .. n =>
                   Ordered(Ahead(c)', C)
  <2>1. PICK q : q = queue[c]
    OBVIOUS
  <2>2. PICK m : m = queue'[c]
    OBVIOUS
  <2>3. PICK H : H = Taken(c)
    OBVIOUS
  <2>4. q \in Seq(Events) /\ Ahead(c) = q
    <3>1. orphans[c] = <<>>
      BY <1>6 DEF CallInv, GeneratorInv
    <3>2. q \in Seq(Events)
      BY <2>1, QueueTypes
    <3>3. q \o <<>> = q
      BY <3>2
    <3> QED
      BY <2>1, <3>1, <3>2, <3>3 DEF Ahead
  <2>5. m \in Seq(Events)
    BY <1>3, <1>6, <2>2, MergedType
  <2>6. Ahead(c)' = m
    <3>1. m \o <<>> = m
      BY <2>5
    <3> QED
      BY <1>1, <1>6, <2>2, <3>1 DEF CallInv, GeneratorInv, Ahead
  <2>7. Single(q, H) /\ routed[c] = H \cup (Range(q) \ {FeedLost})
    BY <1>6, <2>3, <2>4 DEF CallInv, OnceInv
  <2>8. H \subseteq Seqs /\ FeedLost \notin H
    BY <2>3, CallTypes, EventFacts
  <2>9. Handed(c) = H
    <3>1. \A x \in Range(q) : x \in H => x = FeedLost
      BY <2>7 DEF Single, Range
    <3> QED
      BY <2>1, <2>7, <2>8, <3>1 DEF Handed
  <2>10. PICK s : s = [i \in 1 .. n |-> i]
    OBVIOUS
  <2>11. PICK S : S = Seqs \ H
    OBVIOUS
  <2>12. PICK R : R = {FeedLost} \cup n + 1 .. MaxSeq
    OBVIOUS
  <2>13. m = Only(s, S) \o Only(q, R)
    BY <1>3, <1>6, <2>1, <2>2, <2>9, <2>10, <2>11, <2>12 DEF Merged
  <2>14. s \in Seq(Seqs) /\ DOMAIN s = 1 .. n /\ \A i \in 1 .. n : s[i] = i
    BY <2>10, HistoryFacts
  <2>15. \A x : x \in S <=> x \in Seqs /\ x \notin H
    BY <2>11
  <2>16. \A x : x \in R <=> x = FeedLost \/ x \in n + 1 .. MaxSeq
    BY <2>12
  <2>17. /\ Range(m) = ((1 .. n) \ H) \cup (Range(q) \cap R)
         /\ Single(m, H)
         /\ \A B, C : Ordered(q, B) /\ H \subseteq C /\ B \subseteq C \cup 1 .. n => Ordered(m, C)
    <3>1. Renewed(m, q, n, H)
      BY <2>4, <2>7, <2>13, <2>14, <2>15, <2>16, MergedFacts
    <3> QED
      BY <2>16, <3>1 DEF Renewed
  <2>18. \A x \in Range(q) : x \in R \/ x \in 1 .. n
    <3>1. Range(q) \subseteq Events
      BY <2>4, RangeFacts
    <3> QED
      BY <2>16, <3>1, EventFacts DEF Events, Seqs
  <2>19. FeedLost \notin 1 .. n /\ FeedLost \in R
    BY <2>16 DEF FeedLost
  <2>20. routed'[c] = H \cup (Range(m) \ {FeedLost})
    BY <1>3, <1>6, <2>7, <2>17, <2>18, <2>19
  <2>21. Range(q) \cup 1 .. n \subseteq H \cup Range(m)
    BY <2>17, <2>18
  <2>22. FeedLost \in Range(q) => FeedLost \in Range(m)
    BY <2>17, <2>19
  <2> QED
    BY <2>3, <2>4, <2>6, <2>17, <2>20, <2>21, <2>22
<1>7. routed'[c] \subseteq routed[c] \cup 1 .. n
  BY <1>2, <1>3 DEF tables
<1> QED
  BY <1>1, <1>2, <1>4, <1>5, <1>6, <1>7

-----------------------------------------------------------------------------
(* The steps of a call's generator.                                        *)

\* A call that does not wait for its events any more.
LEMMA NoStream ==
  ASSUME NEW c, OrderInv(c), ~Streams(c)', pc'[c] # "idle", outcome'[c] # "ended",
         taken'[c] = taken[c], c \in unread => c \in unread'
  PROVE  OnceInv(c)' /\ OrderInv(c)' /\ EndInv(c)'
BY DEF OnceInv, OrderInv, EndInv, Relies

LEMMA AssignKeeps ==
  ASSUME TypeOK, FeedInv, NEW c \in Calls, CallInv(c), Assign(c)
  PROVE  CallInv(c)'
<1>1. /\ pc[c] = "idle" /\ c \notin Elsewhere /\ pc'[c] = "assigning" /\ c \in queues'
      /\ wasLive'[c] = feedLive
      /\ feed' # "off"
      /\ UNCHANGED <<outcome, taken, queue, bound, orphans, routed, again, feedLive, behind,
                     asked, changes, server, unread>>
  BY DEF Assign, TypeOK, FeedInv
<1>2. /\ c \notin created /\ count[c] = 0 /\ c \notin bound /\ queue[c] = <<>> /\ taken[c] = <<>>
      /\ c \notin again /\ outcome[c] = "none"
  BY <1>1 DEF CallInv, HistoryInv, GeneratorInv
<1>3. HistoryInv(c)'
  BY <1>1 DEF CallInv, HistoryInv, server
<1>4. GeneratorInv(c)'
  BY <1>1, <1>2 DEF CallInv, GeneratorInv, Waits
<1>5. HeardInv(c)'
  BY <1>1 DEF HeardInv
<1>6. Ahead(c)' = Ahead(c) /\ Taken(c)' = Taken(c)
  BY <1>1 DEF Ahead, Taken
<1>7. OnceInv(c)'
  BY <1>1, <1>6 DEF CallInv, OnceInv
<1>8. EndInv(c)'
  BY <1>1, <1>2 DEF EndInv
<1>9. DOMAIN Ahead(c) = {}
  <2>1. Taken(c) = {}
    BY <1>2 DEF Taken
  <2>2. routed[c] = {}
    <3>1. \A seq \in routed[c] : seq \in Seqs /\ seq <= 0
      BY <1>2, CallTypes DEF CallInv, HistoryInv
    <3> QED
      BY <3>1 DEF Seqs
  <2>3. Range(Ahead(c)) \subseteq {FeedLost}
    BY <1>1, <2>1, <2>2 DEF CallInv, OnceInv
  <2>4. Range(Ahead(c)) \subseteq Seqs
    <3>1. Range(queue[c]) = {}
      BY <1>2 DEF Range
    <3> QED
      BY <3>1, QueueTypes
  <2>5. Range(Ahead(c)) = {}
    BY <2>3, <2>4, EventFacts
  <2> QED
    BY <2>5 DEF Range
<1>10. OrderInv(c)'
  <2>1. PICK A : A = Ahead(c)
    OBVIOUS
  <2>2. Ordered(A, Taken(c)' \cup First(c)')
    BY <1>9, <2>1, QueueTypes, SingleFacts
  <2>3. PICK S : S = Sources(c)'
    OBVIOUS
  <2>4. FeedOrdered(changes, c, S) /\ FeedWhole(changes, c, S, 0)
    <3>1. \A i \in DOMAIN changes : changes[i].call = c => changes[i].seq <= 0
      BY <1>2 DEF CallInv, HistoryInv
    <3>2. \A n \in 1 .. 0 : n \in S
      OBVIOUS
    <3>3. changes \in Seq(Changes)
      BY CallTypes
    <3> QED
      BY <3>1, <3>2, <3>3, FeedFacts
  <2>5. changes' = changes /\ count'[c] = 0
    BY <1>1, <1>2 DEF server
  <2> QED
    BY <1>1, <1>2, <1>6, <2>1, <2>2, <2>3, <2>4, <2>5 DEF OrderInv
<1> QED
  BY <1>3, <1>4, <1>5, <1>7, <1>8, <1>10 DEF CallInv

LEMMA AssignedKeeps ==
  ASSUME TypeOK, NEW c \in Calls, CallInv(c), Assigned(c)
  PROVE  CallInv(c)'
<1>1. /\ pc[c] = "assigning" /\ c \in created /\ c \in queues
      /\ wasLive[c] => pc'[c] = "waiting" /\ asked' = asked
      /\ ~wasLive[c] => pc'[c] = "first" /\ asked' = [asked EXCEPT ![<<"first", c>>] = count[c]]
      /\ UNCHANGED <<outcome, taken, wasLive, again, watch, feed, changes, server, unread>>
  BY DEF Assigned, AskFor, TypeOK, CallInv, GeneratorInv, Waits
<1>2. /\ c \in bound' /\ orphans'[c] = <<>> /\ UNCHANGED <<queues, routed>>
      /\ queue'[c] = Ahead(c) /\ Ahead(c)' = Ahead(c)
      /\ FeedLost \in Range(queue[c]) => FeedLost \in Range(queue'[c])
  BY <1>1, BindFacts DEF Assigned
<1>3. /\ ~wasLive[c] => asked'[<<"first", c>>] = count[c]
      /\ asked'[<<"feed", c>>] = asked[<<"feed", c>>] /\ asked'[<<"again", c>>] = asked[<<"again", c>>]
      /\ wasLive[c] => asked'[<<"first", c>>] = asked[<<"first", c>>]
  BY <1>1 DEF TypeOK, Readers
<1>4. HistoryInv(c)'
  <2>1. \A by \in Readers : asked'[<<by, c>>] \in {asked[<<by, c>>], NoRead, count[c]}
    BY <1>3 DEF Readers
  <2> QED
    BY <1>1, <1>2, <2>1, HistoryStep DEF CallInv, Step, server
<1>5. GeneratorInv(c)'
  <2>1. count[c] # NoRead
    BY CallTypes DEF NoRead
  <2> QED
    BY <1>1, <1>2, <1>3, <2>1 DEF CallInv, GeneratorInv, Waits, watch
<1>6. HeardInv(c)'
  BY <1>1, <1>2 DEF CallInv, HeardInv, Waits
<1>7. Taken(c)' = Taken(c) /\ Streams(c) /\ Streams(c)'
  BY <1>1 DEF Taken, Streams
<1>8. OnceInv(c)'
  BY <1>2, <1>7 DEF CallInv, OnceInv
<1>9. EndInv(c)'
  BY <1>1 DEF CallInv, EndInv, GeneratorInv
<1>10. Missed(c)' = Missed(c)
  BY <1>1, <1>3 DEF Missed, watch, server
<1>11. CASE wasLive[c]
  <2>1. First(c) = {} /\ First(c)' = {}
    BY <1>1, <1>11 DEF First
  <2>2. Sources(c)' = Sources(c)
    BY <1>2, <1>7, <1>10, <2>1 DEF Sources
  <2>3. Relies(c)' => Relies(c)
    BY <1>1, <1>11 DEF Relies, Streams
  <2>4. Relies(c)' => Ordered(Ahead(c), Taken(c) \cup First(c))
    BY <2>3 DEF CallInv, OrderInv
  <2>5. OrderInv(c)'
    BY <1>1, <1>2, <2>1, <2>2, <2>3, <2>4, OrderKept DEF CallInv, Step, server, watch
  <2> QED
    BY <1>4, <1>5, <1>6, <1>8, <1>9, <2>5 DEF CallInv
<1>12. CASE ~wasLive[c]
  <2>1. PICK S : S = Sources(c)'
    OBVIOUS
  <2>2. PICK T : T = Taken(c)' \cup First(c)'
    OBVIOUS
  <2>3. First(c)' = 1 .. count[c]
    BY <1>1, <1>3, <1>12 DEF First
  <2>4. 1 .. count[c] \subseteq T /\ \A n \in 1 .. count[c] : n \in S
    BY <2>1, <2>2, <2>3 DEF Sources
  <2>5. count[c] \in Nat /\ changes \in Seq(Changes)
    BY CallTypes
  <2>6. FeedOrdered(changes, c, S) /\ FeedWhole(changes, c, S, count[c])
    <3>1. \A i \in DOMAIN changes : changes[i].call = c => changes[i].seq <= count[c]
      BY DEF CallInv, HistoryInv
    <3> QED
      BY <2>4, <2>5, <3>1, FeedFacts
  <2>7. Ordered(Ahead(c), T)
    <3>1. \A x \in Range(Ahead(c)) : x <= count[c]
      BY <1>7, <2>5 DEF CallInv, OnceInv, HistoryInv, FeedLost
    <3> QED
      BY <2>4, <2>5, <3>1, QueueTypes, OrderedBelow
  <2>8. OrderInv(c)'
    BY <1>1, <1>2, <1>12, <2>1, <2>2, <2>6, <2>7 DEF CallInv, OrderInv, server
  <2> QED
    BY <1>4, <1>5, <1>6, <1>8, <1>9, <2>8 DEF CallInv
<1> QED
  BY <1>11, <1>12

LEMMA TakeKeeps ==
  ASSUME TypeOK, NEW c \in Calls, CallInv(c), Take(c)
  PROVE  CallInv(c)'
<1>1. CASE Head(queue[c]) = FeedLost
  BY <1>1, EndKeeps DEF Take
<1>2. CASE Head(queue[c]) # FeedLost
  <2>1. /\ pc[c] = "waiting" /\ queue[c] # <<>> /\ c \in queues /\ c \in bound /\ orphans[c] = <<>>
        /\ pc'[c] = "yielded"
        /\ taken'[c] = Append(taken[c], Head(queue[c])) /\ queue'[c] = Tail(queue[c])
        /\ UNCHANGED <<outcome, queues, bound, orphans, routed, again, asked>>
        /\ UNCHANGED <<wasLive, watch, feed, changes, server, unread>>
    BY <1>2 DEF Take, TypeOK, CallInv, GeneratorInv, Waits
  <2>2. PICK q : q = queue[c]
    OBVIOUS
  <2>3. PICK h : h = Head(q)
    OBVIOUS
  <2>4. q \in Seq(Events) /\ q # <<>> /\ h # FeedLost
    BY <1>2, <2>1, <2>2, <2>3, QueueTypes
  <2>5. h \in Seqs /\ Tail(q) \in Seq(Events) /\ Range(q) = Range(Tail(q)) \cup {h}
    <3>1. h \in Events
      BY <2>3, <2>4, TailFacts
    <3> QED
      BY <2>3, <2>4, <3>1, TailFacts, RangeFacts DEF Events
  <2>6. Ahead(c) = q /\ Ahead(c)' = Tail(q)
    <3>1. q \o <<>> = q /\ Tail(q) \o <<>> = Tail(q)
      BY <2>4, <2>5
    <3> QED
      BY <2>1, <2>2, <3>1 DEF Ahead
  <2>7. taken[c] \in Seq(Seqs)
    BY CallTypes
  <2>8. /\ DOMAIN taken[c] = 1 .. Len(taken[c]) /\ DOMAIN taken'[c] = 1 .. Len(taken[c]) + 1
        /\ Len(taken[c]) \in Nat
        /\ taken'[c][Len(taken[c]) + 1] = h
        /\ \A i \in 1 .. Len(taken[c]) : taken'[c][i] = taken[c][i]
    BY <2>1, <2>2, <2>3, <2>5, <2>7, AppendFacts
  <2>9. Taken(c)' = Taken(c) \cup {h}
    <3>1. \A i \in DOMAIN taken'[c] : i \in DOMAIN taken[c] \/ i = Len(taken[c]) + 1
      BY <2>8
    <3>2. Len(taken[c]) + 1 \in DOMAIN taken'[c] /\ \A i \in DOMAIN taken[c] : i \in DOMAIN taken'[c]
      BY <2>8
    <3> QED
      BY <2>8, <3>1, <3>2 DEF Taken
  <2>10. Streams(c) /\ Streams(c)'
    BY <2>1 DEF Streams
  <2>11. Single(q, Taken(c)) /\ routed[c] = Taken(c) \cup (Range(q) \ {FeedLost})
    BY <2>6, <2>10 DEF CallInv, OnceInv
  <2>12. h \notin Taken(c) /\ Single(Tail(q), Taken(c) \cup {h})
    BY <2>3, <2>4, <2>11, SingleFacts
  <2>13. HistoryInv(c)'
    BY <2>1, HistoryStep DEF CallInv, Step, server
  <2>14. GeneratorInv(c)'
    <3>1. taken'[c] # <<>>
      BY <2>8
    <3> QED
      BY <2>1, <3>1 DEF CallInv, GeneratorInv, Waits, watch
  <2>15. HeardInv(c)'
    BY <2>1, <2>2, <2>4, <2>5 DEF CallInv, HeardInv, Waits
  <2>16. OnceInv(c)'
    <3>1. routed[c] = (Taken(c) \cup {h}) \cup (Range(Tail(q)) \ {FeedLost})
      BY <2>4, <2>5, <2>11
    <3> QED
      BY <2>1, <2>6, <2>9, <2>12, <3>1 DEF OnceInv
  <2>17. EndInv(c)'
    BY <2>1 DEF CallInv, EndInv, GeneratorInv
  <2>18. First(c) = {} /\ First(c)' = {} /\ Missed(c)' = Missed(c)
    BY <2>1 DEF First, Missed, watch, server
  <2>19. Sources(c)' = Sources(c)
    BY <2>5, <2>6, <2>9, <2>18 DEF Sources
  <2>20. Relies(c)' <=> Relies(c)
    BY <2>1 DEF Relies, Streams
  <2>21. ASSUME c \notin unread
         PROVE  /\ \A i \in DOMAIN taken'[c] : taken'[c][i] = i
                /\ Ordered(Tail(q), Taken(c) \cup {h})
    <3>1. Relies(c)
      BY <2>1, <2>10, <2>21 DEF Relies
    <3>2. Ordered(q, Taken(c))
      BY <2>6, <2>18, <3>1 DEF CallInv, OrderInv
    <3>3. (\A n \in 1 .. h - 1 : n \in Taken(c)) /\ Ordered(Tail(q), Taken(c) \cup {h})
      BY <2>3, <2>4, <3>2, OrderedFacts
    <3>4. \A i \in DOMAIN taken[c] : taken[c][i] = i
      BY <2>21 DEF CallInv, OrderInv
    <3>5. \A n : n \in Taken(c) <=> n \in 1 .. Len(taken[c])
      BY <2>8, <3>4 DEF Taken
    <3>6. h = Len(taken[c]) + 1
      <4>1. h \in Nat \ {0}
        BY <2>5, EventFacts DEF Seqs
      <4>2. h > Len(taken[c])
        BY <2>8, <2>12, <3>5, <4>1
      <4>3. ~(h > Len(taken[c]) + 1)
        <5> SUFFICES ASSUME h > Len(taken[c]) + 1 PROVE FALSE
          OBVIOUS
        <5>1. Len(taken[c]) + 1 \in 1 .. h - 1
          BY <2>8, <4>1
        <5>2. Len(taken[c]) + 1 \in 1 .. Len(taken[c])
          BY <3>3, <3>5, <5>1
        <5> QED
          BY <2>8, <5>2
      <4> QED
        BY <2>8, <4>1, <4>2, <4>3
    <3>7. \A i \in DOMAIN taken'[c] : i \in DOMAIN taken[c] \/ i = Len(taken[c]) + 1
      BY <2>8
    <3> QED
      BY <2>8, <3>3, <3>4, <3>6, <3>7
  <2>22. OrderInv(c)'
    <3>1. FeedLost \in Range(Tail(q)) <=> FeedLost \in Range(q)
      BY <2>4, <2>5
    <3>2. unread' = unread /\ feedLive' = feedLive /\ changes' = changes /\ count' = count /\ wasLive' = wasLive
      BY <2>1 DEF watch, server
    <3>3. c \notin unread' => \A i \in DOMAIN taken'[c] : taken'[c][i] = i
      BY <2>21, <3>2
    <3>4. Relies(c)' => Ordered(Ahead(c)', Taken(c)' \cup First(c)')
      BY <2>6, <2>9, <2>18, <2>20, <2>21 DEF Relies
    <3>5. Relies(c) /\ FeedLost \notin Range(q) =>
             /\ wasLive[c] => feedLive
             /\ feedLive => FeedOrdered(changes, c, Sources(c)) /\ FeedWhole(changes, c, Sources(c), count[c])
      BY <2>6 DEF CallInv, OrderInv
    <3> QED
      BY <2>6, <2>19, <2>20, <3>1, <3>2, <3>3, <3>4, <3>5 DEF OrderInv
  <2> QED
    BY <2>13, <2>14, <2>15, <2>16, <2>17, <2>22 DEF CallInv
<1> QED
  BY <1>1, <1>2

\* A history that was read, for whoever asked.
LEMMA CaughtUpKeeps ==
  ASSUME TypeOK, NEW c \in Calls, CallInv(c), NEW by \in Readers, CaughtUp(by, c),
         by = "first" => pc[c] = "first",
         pc'[c] = IF by = "first" THEN "waiting" ELSE pc[c],
         c \in behind' <=> c \in behind /\ by # "feed",
         c \in again' => c \in again \/ by = "first",
         UNCHANGED <<outcome, taken, wasLive, feedLive, feed, changes, server>>
  PROVE  CallInv(c)'
<1>1. /\ asked[<<by, c>>] # NoRead /\ asked'[<<by, c>>] = NoRead
      /\ \A r \in Readers : r # by => asked'[<<r, c>>] = asked[<<r, c>>]
      /\ UNCHANGED <<count, ending, created>> /\ "first" \in Readers /\ "again" \in Readers /\ "feed" \in Readers
  BY DEF CaughtUp, TypeOK, Readers, server
<1>2. /\ Streams(c)' <=> Streams(c)
      /\ Waits(c)' <=> Waits(c)
      /\ pc'[c] = "assigning" <=> pc[c] = "assigning"
      /\ pc'[c] = "idle" <=> pc[c] = "idle"
      /\ pc'[c] = "done" <=> pc[c] = "done"
      /\ Taken(c)' = Taken(c)
  BY DEF Streams, Waits, Taken
<1>3. EndInv(c)' /\ (c \in unread => c \in unread')
  BY <1>1 DEF CallInv, EndInv, CaughtUp
\* What follows of how the tables changed.
<1>4. ASSUME /\ UNCHANGED <<queues, bound, orphans>>
             /\ FeedLost \in Range(queue[c]) => FeedLost \in Range(queue'[c])
             /\ c \notin queues => queue'[c] = queue[c]
             /\ routed'[c] \subseteq routed[c] \cup 1 .. count[c]
      PROVE  HistoryInv(c)' /\ GeneratorInv(c)' /\ HeardInv(c)'
  <2>1. HistoryInv(c)'
    <3>1. \A r \in Readers : asked'[<<r, c>>] \in {asked[<<r, c>>], NoRead, count[c]}
      BY <1>1
    <3> QED
      BY <1>1, <1>2, <1>3, <1>4, <3>1, HistoryStep DEF CallInv, Step
  <2>2. GeneratorInv(c)'
    <3>1. CASE by = "first"
      BY <1>1, <1>4, <3>1 DEF CallInv, GeneratorInv, Waits
    <3>2. CASE by # "first"
      BY <1>1, <1>2, <1>4, <3>2 DEF CallInv, GeneratorInv, Waits
    <3> QED
      BY <3>1, <3>2
  <2>3. HeardInv(c)'
    BY <1>2, <1>4 DEF CallInv, HeardInv
  <2> QED
    BY <2>1, <2>2, <2>3
<1>5. ASSUME UNCHANGED tables
      PROVE  /\ HistoryInv(c)' /\ GeneratorInv(c)' /\ HeardInv(c)' /\ OnceInv(c)'
             /\ Ahead(c)' = Ahead(c)
  <2>1. Ahead(c)' = Ahead(c)
    BY <1>5 DEF tables, Ahead
  <2>2. OnceInv(c)'
    BY <1>2, <1>5, <2>1 DEF CallInv, OnceInv, tables
  <2> QED
    BY <1>4, <1>5, <2>1, <2>2 DEF tables
<1>6. CASE c \in Unreadable /\ unread' = unread \cup {c} /\ UNCHANGED tables
  <2>1. OrderInv(c)'
    BY <1>6 DEF OrderInv, Relies
  <2> QED
    BY <1>3, <1>5, <1>6, <2>1 DEF CallInv
<1>7. CASE \E n \in asked[<<by, c>>] .. count[c] : CatchUp(c, n) /\ UNCHANGED unread
  <2>1. PICK n \in asked[<<by, c>>] .. count[c] : CatchUp(c, n) /\ UNCHANGED unread
    BY <1>7
  <2>2. asked[<<by, c>>] \in Nat /\ count[c] \in Nat /\ count[c] <= MaxSeq
    <3>1. asked[<<by, c>>] \in 0 .. MaxSeq
      BY <1>1, CallTypes
    <3> QED
      BY <3>1, CallTypes, EventFacts
  <2>3. n \in 0 .. MaxSeq /\ 1 .. n \subseteq 1 .. count[c] /\ 1 .. asked[<<by, c>>] \subseteq 1 .. n
    BY <2>2, EventFacts
  <2>4. /\ UNCHANGED <<queues, bound, orphans>>
        /\ FeedLost \in Range(queue[c]) => FeedLost \in Range(queue'[c])
        /\ c \notin queues => queue'[c] = queue[c]
        /\ c \in bound /\ c \in queues /\ Streams(c) =>
              /\ Single(Ahead(c)', Taken(c))
              /\ routed'[c] = Taken(c) \cup (Range(Ahead(c)') \ {FeedLost})
              /\ Range(Ahead(c)) \cup 1 .. n \subseteq Taken(c) \cup Range(Ahead(c)')
              /\ FeedLost \in Range(Ahead(c)) => FeedLost \in Range(Ahead(c)')
              /\ \A B, C : Ordered(Ahead(c), B) /\ Taken(c) \subseteq C /\ B \subseteq C \cup 1 .. n =>
                    Ordered(Ahead(c)', C)
        /\ ~(c \in bound /\ c \in queues) => UNCHANGED tables
        /\ routed'[c] \subseteq routed[c] \cup 1 .. n
    BY <2>1, <2>3, CatchUpFacts
  <2>5. HistoryInv(c)' /\ GeneratorInv(c)' /\ HeardInv(c)'
    BY <1>4, <2>3, <2>4
  <2>6. CASE ~Streams(c) /\ pc[c] # "idle"
    <3>1. OnceInv(c)' /\ OrderInv(c)'
      BY <1>2, <1>3, <2>6 DEF OnceInv, OrderInv, Relies, CallInv
    <3> QED
      BY <1>3, <2>5, <3>1 DEF CallInv
  <2>7. CASE pc[c] = "idle"
    <3>1. UNCHANGED tables
      BY <2>4, <2>7 DEF CallInv, GeneratorInv
    <3>2. OrderInv(c)'
      BY <1>2, <1>3, <2>7 DEF OrderInv, Relies, Streams, CallInv
    <3> QED
      BY <1>3, <1>5, <3>1, <3>2 DEF CallInv
  <2>8. CASE Streams(c)
    <3>1. /\ by = "first" => First(c) = 1 .. asked[<<by, c>>] /\ First(c)' = {}
          /\ by # "first" => First(c)' = First(c)
      BY <1>1 DEF First
    <3>2. First(c) \subseteq First(c)' \cup 1 .. n
      BY <2>3, <3>1
    <3>3. /\ by = "feed" => Missed(c) \subseteq 1 .. n
          /\ by # "feed" => Missed(c)' = Missed(c)
      <4>1. ASSUME by = "feed" PROVE Missed(c) \subseteq 1 .. n
        BY <1>1, <2>3, <4>1 DEF Missed
      <4>2. ASSUME by # "feed" PROVE Missed(c)' = Missed(c)
        BY <1>1, <4>2 DEF Missed, Readers
      <4> QED
        BY <4>1, <4>2
    <3>4. Relies(c)' => Relies(c)
      BY <1>2, <1>3 DEF Relies
    <3>5. CASE c \in bound /\ c \in queues
      <4>1. OnceInv(c)'
        BY <1>2, <2>4, <2>8, <3>5 DEF OnceInv
      <4>2. ASSUME Relies(c)'
            PROVE  Ordered(Ahead(c)', Taken(c) \cup First(c)')
        <5>1. PICK A : A = Ahead(c)'
          OBVIOUS
        <5>2. PICK B : B = Taken(c) \cup First(c)
          OBVIOUS
        <5>3. PICK C : C = Taken(c) \cup First(c)'
          OBVIOUS
        <5>4. Ordered(Ahead(c), B) /\ Taken(c) \subseteq C /\ B \subseteq C \cup 1 .. n
          BY <3>2, <3>4, <4>2, <5>2, <5>3 DEF CallInv, OrderInv
        <5>5. Ordered(A, C)
          BY <2>4, <2>8, <3>5, <5>1, <5>4
        <5> QED
          BY <5>1, <5>3, <5>5
      <4>3. Sources(c) \subseteq Sources(c)'
        <5>1. 1 .. n \subseteq Sources(c)' /\ Range(Ahead(c)) \subseteq Sources(c)'
          BY <1>2, <2>4, <2>8, <3>5 DEF Sources
        <5>2. First(c) \subseteq Sources(c)' /\ Taken(c) \subseteq Sources(c)'
          BY <1>2, <3>2, <5>1 DEF Sources
        <5>3. Missed(c) \subseteq Sources(c)'
          BY <3>3, <5>1 DEF Sources
        <5> QED
          BY <5>1, <5>2, <5>3 DEF Sources
      <4>4. OrderInv(c)'
        BY <1>1, <1>3, <2>4, <2>8, <3>4, <3>5, <4>2, <4>3, OrderKept DEF CallInv, Step
      <4> QED
        BY <1>3, <2>5, <4>1, <4>4 DEF CallInv
    <3>6. CASE ~(c \in bound /\ c \in queues)
      <4>1. UNCHANGED tables
        BY <2>4, <3>6
      <4>2. by = "again"
        BY <1>1, <2>8, <3>6 DEF CallInv, GeneratorInv, Streams, Waits, Readers
      <4>3. Ahead(c)' = Ahead(c) /\ First(c)' = First(c) /\ Missed(c)' = Missed(c)
        BY <1>5, <3>1, <3>3, <4>1, <4>2
      <4>4. Sources(c)' = Sources(c)
        BY <1>2, <4>3 DEF Sources
      <4>5. Relies(c)' => Ordered(Ahead(c)', Taken(c) \cup First(c)')
        BY <3>4, <4>3 DEF CallInv, OrderInv
      <4>6. OrderInv(c)'
        BY <1>1, <1>3, <3>4, <4>3, <4>4, <4>5, OrderKept DEF CallInv, Step
      <4> QED
        BY <1>3, <1>5, <4>1, <4>6 DEF CallInv
    <3> QED
      BY <3>5, <3>6
  <2> QED
    BY <2>6, <2>7, <2>8
<1> QED
  BY <1>6, <1>7 DEF CaughtUp

LEMMA FirstDoneKeeps ==
  ASSUME TypeOK, NEW c \in Calls, CallInv(c), FirstDone(c)
  PROVE  CallInv(c)'
<1>1. /\ pc[c] = "first" /\ CaughtUp("first", c) /\ pc'[c] = "waiting"
      /\ c \in behind' <=> c \in behind
      /\ UNCHANGED <<outcome, taken, wasLive, feedLive, feed, changes, server>>
  BY DEF FirstDone, TypeOK, watch
<1> QED
  BY <1>1, CaughtUpKeeps DEF Readers

LEMMA AgainDoneKeeps ==
  ASSUME TypeOK, NEW c \in Calls, CallInv(c), AgainDone(c)
  PROVE  CallInv(c)'
<1>1. /\ CaughtUp("again", c) /\ pc'[c] = pc[c] /\ (c \in again' => c \in again)
      /\ c \in behind' <=> c \in behind
      /\ UNCHANGED <<outcome, taken, wasLive, feedLive, feed, changes, server>>
  BY DEF AgainDone, generator, watch
<1> QED
  BY <1>1, CaughtUpKeeps DEF Readers

LEMMA FeedCaughtUpKeeps ==
  ASSUME TypeOK, NEW c \in Calls, CallInv(c), FeedCaughtUp(c)
  PROVE  CallInv(c)'
<1>1. /\ CaughtUp("feed", c) /\ pc'[c] = pc[c] /\ (c \in again' => c \in again) /\ c \notin behind'
      /\ UNCHANGED <<outcome, taken, wasLive, feedLive, feed, changes, server>>
  BY DEF FeedCaughtUp, generator
<1> QED
  BY <1>1, CaughtUpKeeps DEF Readers

LEMMA ResumeKeeps ==
  ASSUME TypeOK, NEW c \in Calls, CallInv(c), Resume(c)
  PROVE  CallInv(c)'
<1>1. pc[c] = "yielded"
  BY DEF Resume
<1>2. CASE Kind(c, Last(taken[c])) # "none"
  <2>1. Last(taken[c]) = count[c] /\ ending[c] # "none"
    BY <1>2 DEF Kind
  <2>2. c \notin unread => Len(taken[c]) = count[c]
    <3>1. taken[c] # <<>> /\ taken[c] \in Seq(Seqs)
      BY <1>1, CallTypes DEF CallInv, GeneratorInv
    <3>2. Len(taken[c]) \in DOMAIN taken[c] /\ Last(taken[c]) = taken[c][Len(taken[c])]
      BY <3>1 DEF Last
    <3> QED
      BY <2>1, <3>2 DEF CallInv, OrderInv
  <2> QED
    BY <1>1, <1>2, <2>1, <2>2, EndKeeps DEF Resume
<1>3. CASE ~(Kind(c, Last(taken[c])) # "none")
  <2>1. /\ pc'[c] = "waiting"
        /\ UNCHANGED <<outcome, tables, again, asked, taken, wasLive, watch, feed, changes, server, unread>>
    BY <1>3 DEF Resume, TypeOK
  <2>2. HistoryInv(c)'
    BY <1>1, <2>1, HistoryStep DEF CallInv, Step, server, tables
  <2>3. GeneratorInv(c)'
    BY <1>1, <2>1 DEF CallInv, GeneratorInv, Waits, tables, watch
  <2>4. HeardInv(c)'
    BY <1>1, <2>1 DEF CallInv, HeardInv, Waits, tables
  <2>5. /\ Ahead(c)' = Ahead(c) /\ Taken(c)' = Taken(c) /\ First(c)' = First(c) /\ Missed(c)' = Missed(c)
        /\ Streams(c) /\ Streams(c)'
    BY <1>1, <2>1 DEF Ahead, Taken, First, Missed, Streams, tables, watch, server
  <2>6. OnceInv(c)'
    BY <2>1, <2>5 DEF CallInv, OnceInv, tables
  <2>7. Relies(c)' => Relies(c)
    BY <1>1, <2>1 DEF Relies, Streams
  <2>8. Sources(c)' = Sources(c)
    BY <2>5 DEF Sources
  <2>9. Relies(c)' => Ordered(Ahead(c)', Taken(c) \cup First(c)')
    BY <2>5, <2>7 DEF CallInv, OrderInv
  <2>10. OrderInv(c)'
    BY <2>1, <2>5, <2>7, <2>8, <2>9, OrderKept DEF CallInv, Step, server, watch
  <2>11. EndInv(c)'
    BY <2>1 DEF CallInv, EndInv, server
  <2> QED
    BY <2>2, <2>3, <2>4, <2>6, <2>10, <2>11 DEF CallInv
<1> QED
  BY <1>2, <1>3

\* The steps of a call that is, or will be, cancelled.
LEMMA CancellingKeeps ==
  ASSUME TypeOK, NEW c \in Calls, CallInv(c),
         CancelAssigning(c) \/ LateAnswer(c) \/ CancelWaiting(c) \/ Drain(c) \/ Unconfirmed(c) \/ CancelAgain(c)
  PROVE  CallInv(c)'
<1>1. CASE End(c, "cancelled")
  <2>1. pc[c] # "idle"
    BY DEF CancelAssigning, LateAnswer, CancelWaiting, Drain, Unconfirmed, CancelAgain
  <2>2. UNCHANGED <<taken, wasLive, watch, feed, changes, server, unread>>
    BY DEF CancelAssigning, LateAnswer, CancelWaiting, Drain, Unconfirmed, CancelAgain
  <2> QED
    BY <1>1, <2>1, <2>2, EndKeeps
<1>2. ASSUME ~End(c, "cancelled")
      PROVE  CallInv(c)'
  \* The call goes on, but does not stream.
  <2>1. ASSUME UNCHANGED <<taken, wasLive, watch, feed, changes, server, unread, queues, routed, again>>,
               bound \subseteq bound', c \in bound' => c \in bound \/ c \in created,
               pc'[c] \in {"unanswered", "cancelling", "interrupting", "done"},
               pc'[c] = "unanswered" => pc[c] = "assigning",
               pc'[c] \in {"cancelling", "interrupting"} => c \in bound' /\ outcome'[c] = outcome[c],
               pc[c] \notin {"idle", "done"},
               pc'[c] = "done" => outcome'[c] = "abandoned" /\ c \notin again,
               pc'[c] # "done" => outcome'[c] = outcome[c],
               asked'[<<"first", c>>] = NoRead,
               asked'[<<"feed", c>>] = asked[<<"feed", c>>], asked'[<<"again", c>>] = asked[<<"again", c>>],
               pc'[c] = "unanswered" => queue'[c] = queue[c],
               c \in bound' /\ c \in queues => orphans'[c] = <<>>
        PROVE  CallInv(c)'
    <3>1. c \in queues /\ outcome[c] = "none"
      BY <2>1, TypeParts DEF CallInv, GeneratorInv, Waits, GeneratorOK
    <3>2. HistoryInv(c)'
      BY <2>1, HistoryStep DEF CallInv, Step, server, Readers
    <3>3. GeneratorInv(c)'
      BY <2>1, <3>1 DEF CallInv, GeneratorInv, Waits, watch
    <3>4. HeardInv(c)'
      BY <2>1 DEF CallInv, HeardInv, Waits
    <3>5. OnceInv(c)' /\ OrderInv(c)' /\ EndInv(c)'
      BY <2>1, <3>1, NoStream DEF CallInv, Streams
    <3> QED
      BY <3>2, <3>3, <3>4, <3>5 DEF CallInv
  <2>2. ASSUME pc[c] # "first" PROVE asked[<<"first", c>>] = NoRead
    BY <2>2 DEF CallInv, GeneratorInv
  <2>3. c \in bound /\ c \in queues => orphans[c] = <<>>
    BY DEF CallInv, GeneratorInv
  <2>4. CASE CancelAssigning(c)
    BY <2>1, <2>2, <2>3, <2>4 DEF CancelAssigning, TypeOK, tables
  <2>5. CASE LateAnswer(c)
    <3>1. c \in bound' /\ orphans'[c] = <<>> /\ UNCHANGED <<queues, routed>> /\ bound \subseteq bound'
      BY <2>5, BindFacts DEF LateAnswer, Bind
    <3>2. /\ pc[c] = "unanswered" /\ pc'[c] = "cancelling" /\ c \in created
          /\ UNCHANGED <<outcome, taken, wasLive, again, watch, asked, feed, changes, server, unread>>
      BY <2>5 DEF LateAnswer, TypeOK
    <3> QED
      BY <2>1, <2>2, <3>1, <3>2
  <2>6. CASE CancelWaiting(c)
    <3>1. /\ pc[c] \in {"first", "waiting"} /\ pc'[c] = "cancelling" /\ c \in bound
          /\ asked'[<<"first", c>>] = NoRead
          /\ asked'[<<"feed", c>>] = asked[<<"feed", c>>] /\ asked'[<<"again", c>>] = asked[<<"again", c>>]
          /\ UNCHANGED <<outcome, taken, wasLive, tables, again, watch, feed, changes, server, unread>>
      BY <2>6 DEF CancelWaiting, TypeOK, Readers, CallInv, GeneratorInv
    <3> QED
      BY <2>1, <2>3, <3>1 DEF tables
  <2>7. CASE Drain(c)
    <3>1. /\ pc[c] \in {"cancelling", "interrupting"} /\ pc'[c] \in {"cancelling", "interrupting"} /\ c \in bound
          /\ UNCHANGED <<outcome, queues, bound, orphans, routed, again, asked>>
          /\ UNCHANGED <<taken, wasLive, watch, feed, changes, server, unread>>
      BY <1>2, <2>7 DEF Drain, TypeOK, CallInv, GeneratorInv
    <3> QED
      BY <2>1, <2>2, <2>3, <3>1
  <2>8. CASE Unconfirmed(c)
    <3>1. /\ pc[c] \in {"cancelling", "interrupting"} /\ pc'[c] = "interrupting" /\ c \in bound
          /\ UNCHANGED <<outcome, tables, again, asked>>
          /\ UNCHANGED <<taken, wasLive, watch, feed, changes, server, unread>>
      BY <1>2, <2>8 DEF Unconfirmed, TypeOK, CallInv, GeneratorInv
    <3> QED
      BY <2>1, <2>2, <2>3, <3>1 DEF tables
  <2>9. CASE CancelAgain(c)
    <3>1. /\ pc[c] = "unanswered" /\ pc'[c] = "done" /\ outcome'[c] = "abandoned" /\ c \notin again
          /\ UNCHANGED <<tables, again, asked>>
          /\ UNCHANGED <<taken, wasLive, watch, feed, changes, server, unread>>
      BY <1>2, <2>9 DEF CancelAgain, TypeOK, CallInv, GeneratorInv
    <3> QED
      BY <2>1, <2>2, <2>3, <3>1 DEF tables
  <2> QED
    BY <2>4, <2>5, <2>6, <2>7, <2>8, <2>9
<1> QED
  BY <1>1, <1>2

LEMMA AgainWakesKeeps ==
  ASSUME TypeOK, NEW c \in Calls, CallInv(c), AgainWakes(c)
  PROVE  CallInv(c)'
<1>1. /\ c \in again' => c \in again
      /\ asked'[<<"again", c>>] \in {asked[<<"again", c>>], count[c]}
      /\ asked'[<<"first", c>>] = asked[<<"first", c>>] /\ asked'[<<"feed", c>>] = asked[<<"feed", c>>]
      /\ UNCHANGED <<generator, tables, watch, feed, changes, server, unread>>
  BY DEF AgainWakes, AskFor, TypeOK, Readers
<1>2. UNCHANGED <<pc, outcome, taken, wasLive, queues, queue, bound, orphans, routed, watching, feedLive, behind,
                  created, count, ending>>
  BY <1>1 DEF generator, tables, watch, server
<1>3. HistoryInv(c)'
  BY <1>1, <1>2, HistoryStep DEF CallInv, Step, Readers
<1>4. GeneratorInv(c)'
  BY <1>1, <1>2 DEF CallInv, GeneratorInv, Waits
<1>5. HeardInv(c)' /\ EndInv(c)'
  BY <1>1, <1>2 DEF CallInv, HeardInv, EndInv, Waits
<1>6. /\ Ahead(c)' = Ahead(c) /\ Taken(c)' = Taken(c) /\ First(c)' = First(c) /\ Missed(c)' = Missed(c)
      /\ Streams(c)' <=> Streams(c)
  BY <1>1, <1>2 DEF Ahead, Taken, First, Missed, Streams
<1>7. OnceInv(c)'
  BY <1>2, <1>6 DEF CallInv, OnceInv
<1>8. (Relies(c)' <=> Relies(c)) /\ Sources(c)' = Sources(c)
  BY <1>1, <1>2, <1>6 DEF Relies, Sources
<1>9. OrderInv(c)'
  BY <1>1, <1>2, <1>6, <1>8 DEF CallInv, OrderInv
<1> QED
  BY <1>3, <1>4, <1>5, <1>7, <1>9 DEF CallInv

\* The feed's own read of a history brings what was missed until then.
LEMMA FeedReadsKeeps ==
  ASSUME TypeOK, NEW c \in Calls, CallInv(c), FeedReads(c)
  PROVE  CallInv(c)'
<1>1. /\ c \in behind /\ asked[<<"feed", c>>] = NoRead /\ asked'[<<"feed", c>>] = count[c]
      /\ asked'[<<"first", c>>] = asked[<<"first", c>>] /\ asked'[<<"again", c>>] = asked[<<"again", c>>]
      /\ UNCHANGED <<generator, tables, again, watch, feed, changes, server, unread>>
  BY DEF FeedReads, AskFor, TypeOK, Readers
<1>2. UNCHANGED <<pc, outcome, taken, wasLive, queues, queue, bound, orphans, routed, watching, feedLive, behind,
                  created, count, ending>>
  BY <1>1 DEF generator, tables, watch, server
<1>3. HistoryInv(c)'
  BY <1>1, <1>2, HistoryStep DEF CallInv, Step, Readers
<1>4. GeneratorInv(c)'
  BY <1>1, <1>2 DEF CallInv, GeneratorInv, Waits
<1>5. HeardInv(c)' /\ EndInv(c)'
  BY <1>1, <1>2 DEF CallInv, HeardInv, EndInv, Waits
<1>6. Missed(c) = 1 .. count[c] /\ Missed(c)' = 1 .. count[c]
  BY <1>1, <1>2 DEF Missed
<1>7. /\ Ahead(c)' = Ahead(c) /\ Taken(c)' = Taken(c) /\ First(c)' = First(c)
      /\ Streams(c)' <=> Streams(c)
  BY <1>1, <1>2 DEF Ahead, Taken, First, Streams
<1>8. OnceInv(c)'
  BY <1>2, <1>7 DEF CallInv, OnceInv
<1>9. (Relies(c)' <=> Relies(c)) /\ Sources(c)' = Sources(c)
  BY <1>1, <1>2, <1>6, <1>7 DEF Relies, Sources
<1>10. OrderInv(c)'
  BY <1>1, <1>2, <1>7, <1>9 DEF CallInv, OrderInv
<1> QED
  BY <1>3, <1>4, <1>5, <1>8, <1>10 DEF CallInv

-----------------------------------------------------------------------------
(* The steps of other calls, of the feed and of the server.                *)

\* A call's own step leaves the others alone.
LEMMA OthersKept ==
  ASSUME TypeOK, FeedInv, NEW c \in Calls, NEW d \in Calls, c # d,
         \/ Assign(c) \/ Assigned(c) \/ AssignFails(c) \/ FirstDone(c)
         \/ Take(c) \/ Resume(c) \/ Close(c)
         \/ CancelAssigning(c) \/ LateAnswer(c) \/ NoAnswer(c) \/ CancelWaiting(c)
         \/ Drain(c) \/ Unconfirmed(c) \/ CancelAgain(c)
         \/ AgainWakes(c) \/ AgainDone(c) \/ FeedReads(c) \/ FeedCaughtUp(c)
  PROVE  OwnKept(d) /\ FeedKept(d)
<1>1. ASSUME NEW how, End(c, how), UNCHANGED <<taken, wasLive, watch, feed, changes, server, unread>>
      PROVE  OwnKept(d) /\ FeedKept(d)
  <2>1. OwnKept(d)
    BY <1>1 DEF End, CleanUp, OwnKept, watch, server, TypeOK, Readers
  <2> QED
    BY <1>1, <2>1, FeedSame DEF watch
<1>2. ASSUME Bind(c)
      PROVE  /\ queue'[d] = queue[d] /\ orphans'[d] = orphans[d] /\ routed'[d] = routed[d]
             /\ d \in queues' <=> d \in queues
             /\ d \in bound' <=> d \in bound
  BY <1>2 DEF Bind, TypeOK
<1>3. ASSUME NEW by \in Readers, CaughtUp(by, c)
      PROVE  /\ queue'[d] = queue[d] /\ orphans'[d] = orphans[d] /\ routed'[d] = routed[d]
             /\ d \in queues' <=> d \in queues
             /\ d \in bound' <=> d \in bound
             /\ d \in unread' <=> d \in unread
             /\ \A r \in Readers : asked'[<<r, d>>] = asked[<<r, d>>]
  <2>1. \A r \in Readers : asked'[<<r, d>>] = asked[<<r, d>>]
    BY <1>3 DEF CaughtUp, TypeOK, Readers
  <2>2. d \in unread' <=> d \in unread
    BY <1>3 DEF CaughtUp
  <2>3. CASE UNCHANGED tables
    BY <2>1, <2>2, <2>3 DEF tables
  <2>4. CASE \E n : CatchUp(c, n)
    BY <2>1, <2>2, <2>4 DEF CatchUp, TypeOK
  <2> QED
    BY <1>3, <2>3, <2>4 DEF CaughtUp
<1>4. ASSUME NEW by \in Readers, AskFor(by, c)
      PROVE  \A r \in Readers : asked'[<<r, d>>] = asked[<<r, d>>]
  BY <1>4 DEF AskFor, TypeOK, Readers
<1>5. CASE Assign(c)
  <2>1. OwnKept(d) /\ UNCHANGED <<feedLive, changes>>
    BY <1>5 DEF Assign, OwnKept, TypeOK, server
  <2>2. feed' = "off" => feed = "off"
    BY <1>5 DEF Assign
  <2> QED
    BY <2>1, <2>2, FeedSame
<1>6. CASE AssignFails(c) \/ Close(c) \/ NoAnswer(c)
  BY <1>1, <1>6 DEF AssignFails, Close, NoAnswer
<1>7. CASE Assigned(c)
  <2>1. OwnKept(d)
    BY <1>2, <1>4, <1>7 DEF Assigned, OwnKept, TypeOK, Readers, watch, server
  <2> QED
    BY <1>7, <2>1, FeedSame DEF Assigned, watch
<1>8. CASE FirstDone(c)
  <2>1. OwnKept(d)
    BY <1>3, <1>8 DEF FirstDone, OwnKept, TypeOK, Readers, watch, server
  <2> QED
    BY <1>8, <2>1, FeedSame DEF FirstDone, watch
<1>9. CASE Take(c)
  <2>1. CASE Head(queue[c]) = FeedLost
    BY <1>1, <1>9, <2>1 DEF Take
  <2>2. CASE Head(queue[c]) # FeedLost
    <3>1. OwnKept(d)
      BY <1>9, <2>2 DEF Take, OwnKept, TypeOK, watch, server
    <3> QED
      BY <1>9, <3>1, FeedSame DEF Take, watch
  <2> QED
    BY <2>1, <2>2
<1>10. CASE Resume(c)
  <2>1. CASE Kind(c, Last(taken[c])) # "none"
    BY <1>1, <1>10, <2>1 DEF Resume
  <2>2. CASE ~(Kind(c, Last(taken[c])) # "none")
    <3>1. OwnKept(d)
      BY <1>10, <2>2 DEF Resume, OwnKept, TypeOK, tables, watch, server
    <3> QED
      BY <1>10, <3>1, FeedSame DEF Resume, watch
  <2> QED
    BY <2>1, <2>2
<1>11. CASE CancelAssigning(c)
  <2>1. OwnKept(d)
    BY <1>11 DEF CancelAssigning, OwnKept, TypeOK, tables, watch, server
  <2> QED
    BY <1>11, <2>1, FeedSame DEF CancelAssigning, watch
<1>12. CASE LateAnswer(c)
  <2>1. OwnKept(d)
    BY <1>2, <1>12 DEF LateAnswer, OwnKept, TypeOK, watch, server
  <2> QED
    BY <1>12, <2>1, FeedSame DEF LateAnswer, watch
<1>13. CASE CancelWaiting(c)
  <2>1. OwnKept(d)
    BY <1>13 DEF CancelWaiting, OwnKept, TypeOK, Readers, tables, watch, server
  <2> QED
    BY <1>13, <2>1, FeedSame DEF CancelWaiting, watch
<1>14. CASE Drain(c)
  <2>1. CASE End(c, "cancelled")
    BY <1>1, <1>14, <2>1 DEF Drain
  <2>2. CASE ~End(c, "cancelled")
    <3>1. OwnKept(d)
      BY <1>14, <2>2 DEF Drain, OwnKept, TypeOK, watch, server
    <3> QED
      BY <1>14, <3>1, FeedSame DEF Drain, watch
  <2> QED
    BY <2>1, <2>2
<1>15. CASE Unconfirmed(c)
  <2>1. CASE ~Escalates(c)
    BY <1>1, <1>15, <2>1 DEF Unconfirmed
  <2>2. CASE Escalates(c)
    <3>1. OwnKept(d)
      BY <1>15, <2>2 DEF Unconfirmed, OwnKept, TypeOK, tables, watch, server
    <3> QED
      BY <1>15, <3>1, FeedSame DEF Unconfirmed, watch
  <2> QED
    BY <2>1, <2>2
<1>16. CASE CancelAgain(c)
  <2>1. CASE End(c, "cancelled")
    BY <1>1, <1>16, <2>1 DEF CancelAgain
  <2>2. CASE ~End(c, "cancelled")
    <3>1. OwnKept(d)
      BY <1>16, <2>2 DEF CancelAgain, OwnKept, TypeOK, tables, watch, server
    <3> QED
      BY <1>16, <3>1, FeedSame DEF CancelAgain, watch
  <2> QED
    BY <2>1, <2>2
<1>17. CASE AgainWakes(c)
  <2>1. OwnKept(d)
    BY <1>4, <1>17 DEF AgainWakes, OwnKept, Readers, generator, tables, watch, server
  <2> QED
    BY <1>17, <2>1, FeedSame DEF AgainWakes, watch
<1>18. CASE AgainDone(c)
  <2>1. OwnKept(d)
    BY <1>3, <1>18 DEF AgainDone, OwnKept, Readers, generator, watch, server
  <2> QED
    BY <1>18, <2>1, FeedSame DEF AgainDone, watch
<1>19. CASE FeedReads(c)
  <2>1. OwnKept(d)
    BY <1>4, <1>19 DEF FeedReads, OwnKept, Readers, generator, tables, watch, server
  <2> QED
    BY <1>19, <2>1, FeedSame DEF FeedReads, watch
<1>20. CASE FeedCaughtUp(c)
  <2>1. OwnKept(d)
    BY <1>3, <1>20 DEF FeedCaughtUp, OwnKept, Readers, generator, server
  <2> QED
    BY <1>20, <2>1, FeedSame DEF FeedCaughtUp
<1> QED
  BY <1>5, <1>6, <1>7, <1>8, <1>9, <1>10, <1>11, <1>12, <1>13, <1>14, <1>15, <1>16, <1>17, <1>18, <1>19, <1>20

LEMMA FeedAliveKeeps ==
  ASSUME TypeOK, FeedInv, NEW d \in Calls, CallInv(d), FeedAlive
  PROVE  CallInv(d)'
<1>1. /\ ~feedLive /\ feedLive' = TRUE /\ behind' = bound /\ d \notin behind
      /\ UNCHANGED <<generator, tables, again, watching, asked, feed, changes, server, unread>>
  BY DEF FeedAlive, FeedInv
<1>2. UNCHANGED <<pc, outcome, taken, wasLive, queues, queue, bound, orphans, routed, created, count, ending>>
  BY <1>1 DEF generator, tables, server
<1>3. HistoryInv(d)' /\ HeardInv(d)' /\ EndInv(d)'
  BY <1>1, <1>2 DEF CallInv, HistoryInv, HeardInv, EndInv, Waits
<1>4. GeneratorInv(d)'
  BY <1>1, <1>2 DEF CallInv, GeneratorInv, Waits
<1>5. /\ Ahead(d)' = Ahead(d) /\ Taken(d)' = Taken(d) /\ First(d)' = First(d)
      /\ Streams(d)' <=> Streams(d)
      /\ Relies(d)' <=> Relies(d)
  BY <1>1, <1>2 DEF Ahead, Taken, First, Streams, Relies
<1>6. OnceInv(d)'
  BY <1>2, <1>5 DEF CallInv, OnceInv
<1>7. ASSUME Relies(d), FeedLost \notin Range(Ahead(d))
      PROVE  FeedOrdered(changes, d, Sources(d)') /\ FeedWhole(changes, d, Sources(d)', count[d])
  <2>1. ~wasLive[d]
    BY <1>1, <1>7 DEF CallInv, OrderInv
  <2>2. d \in bound
    BY <1>7, <2>1 DEF Relies, Streams, CallInv, GeneratorInv
  <2>3. Missed(d)' = 1 .. count[d]
    BY <1>1, <1>2, <2>2 DEF Missed, CallInv, GeneratorInv
  <2>4. PICK S : S = Sources(d)'
    OBVIOUS
  <2>5. \A n \in 1 .. count[d] : n \in S
    BY <2>3, <2>4 DEF Sources
  <2>6. \A i \in DOMAIN changes : changes[i].call = d => changes[i].seq <= count[d]
    BY DEF CallInv, HistoryInv
  <2>7. FeedOrdered(changes, d, S) /\ FeedWhole(changes, d, S, count[d])
    BY <2>5, <2>6, CallTypes, FeedFacts
  <2> QED
    BY <2>4, <2>7
<1>8. OrderInv(d)'
  BY <1>1, <1>2, <1>5, <1>7 DEF CallInv, OrderInv
<1> QED
  BY <1>3, <1>4, <1>6, <1>8 DEF CallInv

LEMMA FeedEndsKeeps ==
  ASSUME TypeOK, FeedInv, NEW d \in Calls, CallInv(d), FeedEnds
  PROVE  CallInv(d)'
<1>1. /\ feed' = "off" /\ changes' = <<>> /\ feedLive' = FALSE /\ behind = {}
      /\ queue'[d] = IF d \in queues THEN Append(queue[d], FeedLost) ELSE <<>>
      /\ UNCHANGED <<pc, outcome, taken, wasLive, queues, bound, orphans, routed, again, behind, asked,
                     created, count, ending, unread>>
  BY DEF FeedEnds, generator, server
<1>2. HistoryInv(d)'
  BY <1>1 DEF CallInv, HistoryInv
<1>3. GeneratorInv(d)'
  BY <1>1 DEF CallInv, GeneratorInv, Waits
<1>4. EndInv(d)'
  BY <1>1 DEF CallInv, EndInv
<1>5. queue[d] \in Seq(Events) /\ orphans[d] \in Seq(Events)
  BY QueueTypes
<1>6. FeedLost \in Events
  BY DEF Events
<1>7. ASSUME d \in queues
      PROVE  /\ FeedLost \in Range(queue'[d])
             /\ Range(Ahead(d)') = Range(Ahead(d)) \cup {FeedLost}
             /\ \A T : Single(Ahead(d), T) => Single(Ahead(d)', T)
             /\ \A T : Ordered(Ahead(d), T) => Ordered(Ahead(d)', T)
  <2>1. Range(queue'[d]) = Range(queue[d]) \cup {FeedLost}
    BY <1>1, <1>5, <1>6, <1>7, RangeFacts
  <2>2. Ahead(d)' = Append(queue[d], FeedLost) \o orphans[d]
    BY <1>1, <1>7 DEF Ahead
  <2>3. Ahead(d) = queue[d] \o orphans[d]
    BY DEF Ahead
  <2> QED
    BY <1>5, <2>1, <2>2, <2>3, LossFacts
<1>8. d \notin queues => Ahead(d)' = Ahead(d)
  BY <1>1 DEF Ahead, CallInv, GeneratorInv
<1>9. HeardInv(d)'
  BY <1>1, <1>7 DEF HeardInv, Waits, CallInv, GeneratorInv
<1>10. /\ Taken(d)' = Taken(d) /\ First(d)' = First(d)
       /\ Streams(d)' <=> Streams(d)
       /\ Relies(d)' <=> Relies(d)
  BY <1>1 DEF Taken, First, Streams, Relies
<1>11. OnceInv(d)'
  <2>1. CASE d \in queues
    BY <1>1, <1>7, <1>10, <2>1 DEF CallInv, OnceInv
  <2>2. CASE d \notin queues
    BY <1>1, <1>8, <1>10, <2>2 DEF CallInv, OnceInv
  <2> QED
    BY <2>1, <2>2
<1>12. Streams(d) => d \in queues
  BY DEF CallInv, GeneratorInv, Waits, Streams
<1>13. OrderInv(d)'
  BY <1>1, <1>7, <1>10, <1>12 DEF CallInv, OrderInv, Relies
<1> QED
  BY <1>2, <1>3, <1>4, <1>9, <1>11, <1>13 DEF CallInv

LEMMA SubscribedKeeps ==
  ASSUME TypeOK, NEW d \in Calls, CallInv(d), Subscribed
  PROVE  CallInv(d)'
<1>1. OwnKept(d)
  BY DEF Subscribed, OwnKept, generator, tables, watch, server
<1>2. FeedKept(d)
  BY FeedSame DEF Subscribed, watch
<1> QED
  BY <1>1, <1>2, Untouched

LEMMA AssignsKeep ==
  ASSUME TypeOK, FeedInv, NEW c \in Calls, NEW d \in Calls, CallInv(d), ServerAssigns(c)
  PROVE  CallInv(d)'
<1>1. /\ pc[c] # "idle" \/ c \in Elsewhere
      /\ created' = created \cup {c}
      /\ changes' \in {changes, Append(changes, [call |-> c, seq |-> 0])}
      /\ UNCHANGED <<pc, outcome, taken, wasLive, queues, queue, bound, orphans, routed, again, watching, feedLive,
                     behind, asked, feed, count, ending, unread>>
  BY DEF ServerAssigns, Carried, generator, tables, watch
<1>2. [call |-> c, seq |-> 0] \in Changes /\ changes \in Seq(Changes)
  <2>1. 0 \in 0 .. MaxSeq
    BY EventFacts
  <2> QED
    BY <2>1, CallTypes DEF Changes
<1>3. CASE c # d
  <2>1. OwnKept(d)
    BY <1>1, <1>3 DEF OwnKept
  <2>2. FeedKept(d)
    BY <1>1, <1>2, <1>3, FeedSame, FeedJoins
  <2> QED
    BY <2>1, <2>2, Untouched
<1>4. CASE c = d
  <2>1. /\ Ahead(d)' = Ahead(d) /\ Taken(d)' = Taken(d) /\ First(d)' = First(d) /\ Missed(d)' = Missed(d)
        /\ Streams(d)' <=> Streams(d)
        /\ Relies(d)' <=> Relies(d)
    BY <1>1 DEF Ahead, Taken, First, Missed, Streams, Relies
  <2>2. \A i \in DOMAIN changes' : changes'[i].call = d => changes'[i].seq <= count[d]
    <3>1. CASE changes' = changes
      BY <3>1 DEF CallInv, HistoryInv
    <3>2. CASE changes' = Append(changes, [call |-> c, seq |-> 0])
      <4>1. PICK x : x = [call |-> c, seq |-> 0]
        OBVIOUS
      <4>2. x \in Changes /\ x.seq = 0 /\ changes' = Append(changes, x)
        BY <1>2, <3>2, <4>1
      <4>3. /\ DOMAIN changes = 1 .. Len(changes) /\ DOMAIN changes' = 1 .. Len(changes) + 1
            /\ Len(changes) \in Nat /\ changes'[Len(changes) + 1] = x
            /\ \A i \in 1 .. Len(changes) : changes'[i] = changes[i]
        BY <1>2, <4>2, AppendFacts
      <4>4. \A i \in DOMAIN changes' : i \in DOMAIN changes \/ i = Len(changes) + 1
        BY <4>3
      <4>5. count[d] \in Nat
        BY CallTypes
      <4> QED
        BY <4>2, <4>3, <4>4, <4>5 DEF CallInv, HistoryInv
    <3> QED
      BY <1>1, <3>1, <3>2
  <2>3. HistoryInv(d)'
    BY <1>1, <1>4, <2>2 DEF CallInv, HistoryInv
  <2>4. GeneratorInv(d)' /\ HeardInv(d)' /\ EndInv(d)'
    BY <1>1 DEF CallInv, GeneratorInv, HeardInv, EndInv, Waits
  <2>5. OnceInv(d)'
    BY <1>1, <2>1 DEF CallInv, OnceInv
  <2>6. Sources(d)' = Sources(d)
    BY <2>1 DEF Sources
  <2>7. ASSUME NEW S, FeedOrdered(changes, d, S), FeedWhole(changes, d, S, count[d])
        PROVE  FeedOrdered(changes', d, S) /\ FeedWhole(changes', d, S, count[d])
    <3>1. PICK x : x = [call |-> c, seq |-> 0]
      OBVIOUS
    <3>2. x \in Changes /\ x.seq = 0
      BY <1>2, <3>1
    <3>3. FeedWhole(changes, d, S, x.seq - 1)
      <4>1. ~\E n \in 1 .. x.seq - 1 : TRUE
        BY <3>2
      <4> QED
        BY <4>1 DEF FeedWhole
    <3>4. FeedOrdered(Append(changes, x), d, S) /\ FeedWhole(Append(changes, x), d, S, count[d])
      BY <1>2, <2>7, <3>2, <3>3, FeedAppend
    <3> QED
      BY <1>1, <2>7, <3>1, <3>4
  <2>8. OrderInv(d)'
    BY <1>1, <2>1, <2>6, <2>7 DEF CallInv, OrderInv
  <2> QED
    BY <2>3, <2>4, <2>5, <2>8 DEF CallInv
<1> QED
  BY <1>3, <1>4

LEMMA ReportsKeep ==
  ASSUME TypeOK, FeedInv, NEW c \in Calls, NEW d \in Calls, CallInv(c), CallInv(d), ServerReports(c)
  PROVE  CallInv(d)'
<1>1. PICK x : x = [call |-> c, seq |-> count[c] + 1]
  OBVIOUS
<1>2. /\ c \in created /\ ending[c] = "none"
      /\ count' = [count EXCEPT ![c] = @ + 1]
      /\ ending'[c] = "none" => count[c] + 1 # MaxSeq
      /\ \A e \in Calls : e # c => ending'[e] = ending[e]
      /\ changes' = IF feed = "subscribed" THEN Append(changes, x) ELSE changes
      /\ UNCHANGED <<pc, outcome, taken, wasLive, queues, queue, bound, orphans, routed, again, watching, feedLive,
                     behind, asked, feed, created, unread>>
  BY <1>1 DEF ServerReports, Carried, generator, tables, watch, TypeOK
<1>3. count[c] \in Nat /\ count[c] < MaxSeq /\ changes \in Seq(Changes)
  BY <1>2, CallTypes DEF CallInv, HistoryInv
<1>4. x \in Changes /\ x.call = c /\ x.seq = count[c] + 1
  <2>1. count[c] + 1 \in 0 .. MaxSeq
    BY <1>3, EventFacts
  <2> QED
    BY <1>1, <2>1 DEF Changes
<1>5. CASE c # d
  <2>1. OwnKept(d)
    BY <1>2, <1>5, CallTypes DEF OwnKept, TypeOK
  <2>2. FeedKept(d)
    BY <1>2, <1>4, <1>5, FeedSame, FeedJoins
  <2> QED
    BY <2>1, <2>2, Untouched
<1>6. CASE c = d
  <2>1. count'[d] = count[d] + 1 /\ count[d] \in Nat /\ count[d] < MaxSeq /\ MaxSeq \in Nat
    BY <1>2, <1>3, <1>6, EventFacts DEF TypeOK
  <2>2. /\ Ahead(d)' = Ahead(d) /\ Taken(d)' = Taken(d) /\ First(d)' = First(d)
        /\ Streams(d)' <=> Streams(d)
        /\ Relies(d)' <=> Relies(d)
    BY <1>2 DEF Ahead, Taken, First, Streams, Relies
  <2>3. Sources(d) \subseteq Sources(d)'
    <3>1. Missed(d) \subseteq Missed(d)'
      <4>1. CASE d \in behind /\ asked[<<"feed", d>>] = NoRead
        <5>1. Missed(d) = 1 .. count[d] /\ Missed(d)' = 1 .. count[d] + 1
          BY <1>2, <2>1, <4>1 DEF Missed
        <5>2. 1 .. count[d] \subseteq 1 .. count[d] + 1
          BY <2>1
        <5> QED
          BY <5>1, <5>2
      <4>2. CASE ~(d \in behind /\ asked[<<"feed", d>>] = NoRead)
        BY <1>2, <4>2 DEF Missed
      <4> QED
        BY <4>1, <4>2
    <3> QED
      BY <2>2, <3>1 DEF Sources
  <2>4. \A i \in DOMAIN changes' : changes'[i].call = d => changes'[i].seq <= count[d] + 1
    <3>1. \A i \in DOMAIN changes : changes[i].call = d => changes[i].seq <= count[d] + 1
      <4>1. ASSUME NEW i \in DOMAIN changes, changes[i].call = d
            PROVE  changes[i].seq <= count[d] + 1
        <5>1. changes[i].seq <= count[d]
          BY <4>1 DEF CallInv, HistoryInv
        <5>2. changes[i] \in Changes
          BY <1>3
        <5>3. changes[i].seq \in Nat
          BY <5>2, EventFacts DEF Changes
        <5> QED
          BY <2>1, <5>1, <5>3
      <4> QED
        BY <4>1
    <3>2. CASE changes' = changes
      BY <3>1, <3>2
    <3>3. CASE changes' = Append(changes, x)
      <4>1. /\ DOMAIN changes = 1 .. Len(changes) /\ DOMAIN changes' = 1 .. Len(changes) + 1
            /\ Len(changes) \in Nat /\ changes'[Len(changes) + 1] = x
            /\ \A i \in 1 .. Len(changes) : changes'[i] = changes[i]
        BY <1>3, <1>4, <3>3, AppendFacts
      <4>2. \A i \in DOMAIN changes' : i \in DOMAIN changes \/ i = Len(changes) + 1
        BY <4>1
      <4>3. x.seq <= count[d] + 1
        BY <1>4, <1>6, <2>1
      <4> QED
        BY <3>1, <4>1, <4>2, <4>3
    <3> QED
      BY <1>2, <3>2, <3>3
  <2>5. HistoryInv(d)'
    <3>1. \A seq \in routed[d] : seq <= count[d] + 1
      <4>1. \A seq \in routed[d] : seq \in Nat /\ seq <= count[d]
        BY CallTypes, EventFacts DEF CallInv, HistoryInv
      <4> QED
        BY <2>1, <4>1
    <3>2. \A by \in Readers : asked[<<by, d>>] <= count[d] + 1
      <4>1. ASSUME NEW by \in Readers
            PROVE  asked[<<by, d>>] <= count[d] + 1
        <5>1. asked[<<by, d>>] \in Int /\ asked[<<by, d>>] <= count[d]
          BY CallTypes DEF CallInv, HistoryInv, NoRead
        <5> QED
          BY <2>1, <5>1
      <4> QED
        BY <4>1
    <3>3. ending'[d] = "none" => count[d] + 1 < MaxSeq
      BY <1>2, <1>6, <2>1
    <3> QED
      BY <1>2, <1>6, <2>1, <2>4, <3>1, <3>2, <3>3 DEF CallInv, HistoryInv
  <2>6. GeneratorInv(d)' /\ HeardInv(d)'
    BY <1>2 DEF CallInv, GeneratorInv, HeardInv, Waits
  <2>7. EndInv(d)'
    BY <1>2, <1>6 DEF CallInv, EndInv
  <2>8. OnceInv(d)'
    BY <1>2, <2>2 DEF CallInv, OnceInv
  <2>9. ASSUME feedLive, FeedOrdered(changes, d, Sources(d)), FeedWhole(changes, d, Sources(d), count[d])
        PROVE  FeedOrdered(changes', d, Sources(d)') /\ FeedWhole(changes', d, Sources(d)', count'[d])
    <3>1. PICK S : S = Sources(d)'
      OBVIOUS
    <3>2. FeedOrdered(changes, d, S) /\ FeedWhole(changes, d, S, count[d])
      BY <1>3, <2>1, <2>3, <2>9, <3>1, FeedFacts
    <3>3. changes' = Append(changes, x)
      BY <1>2, <2>9 DEF FeedInv
    <3>4. x.seq - 1 = count[d] /\ x.call = d
      BY <1>4, <1>6, <2>1
    <3>5. FeedOrdered(Append(changes, x), d, S) /\ FeedWhole(Append(changes, x), d, S, x.seq)
      BY <1>3, <1>4, <3>2, <3>4, FeedAppend
    <3> QED
      BY <1>4, <1>6, <2>1, <3>1, <3>3, <3>5
  <2>10. OrderInv(d)'
    BY <1>2, <2>2, <2>9 DEF CallInv, OrderInv
  <2> QED
    BY <2>5, <2>6, <2>7, <2>8, <2>10 DEF CallInv
<1> QED
  BY <1>5, <1>6

\* A change the feed carried is handed on.
LEMMA ChangeKeeps ==
  ASSUME TypeOK, FeedInv, NEW d \in Calls, CallInv(d), HandleChange
  PROVE  CallInv(d)'
<1>1. PICK change : change = Head(changes)
  OBVIOUS
<1>2. /\ feedLive /\ behind = {} /\ changes # <<>> /\ changes' = Tail(changes)
      /\ change.seq = 0 => Bind(change.call)
      /\ change.seq # 0 => Route(change.call, change.seq)
      /\ UNCHANGED <<pc, outcome, taken, wasLive, again, watching, feedLive, behind, asked, feed,
                     created, count, ending, unread>>
  BY <1>1 DEF HandleChange, generator, watch, server
<1>3. changes \in Seq(Changes)
  BY CallTypes
<1>4. /\ change \in Changes /\ 1 \in DOMAIN changes /\ change = changes[1]
      /\ \A i \in DOMAIN changes' : \E j \in DOMAIN changes : changes[j] = changes'[i]
  <2>1. /\ 1 \in DOMAIN changes /\ Head(changes) = changes[1] /\ Head(changes) \in Changes
        /\ DOMAIN changes = 1 .. Len(changes) /\ DOMAIN Tail(changes) = 1 .. Len(changes) - 1
        /\ Len(changes) \in Nat \ {0}
        /\ \A i \in 1 .. Len(changes) - 1 : Tail(changes)[i] = changes[i + 1]
    BY <1>2, <1>3, TailFacts
  <2>2. ASSUME NEW i \in DOMAIN changes'
        PROVE  \E j \in DOMAIN changes : changes[j] = changes'[i]
    <3>1. i + 1 \in DOMAIN changes /\ changes'[i] = changes[i + 1]
      BY <1>2, <2>1, <2>2
    <3> QED
      BY <3>1
  <2> QED
    BY <1>1, <2>1, <2>2
<1>5. change.call \in Calls /\ change.seq \in 0 .. MaxSeq /\ (change.seq # 0 => change.seq \in Seqs)
  <2>1. change.call \in Calls /\ change.seq \in 0 .. MaxSeq
    BY <1>4 DEF Changes
  <2> QED
    BY <2>1, EventFacts DEF Seqs
<1>6. CASE change.call # d
  <2>1. OwnKept(d)
    <3>1. CASE change.seq = 0
      BY <1>2, <1>5, <1>6, <3>1 DEF Bind, OwnKept, TypeOK
    <3>2. CASE change.seq # 0
      BY <1>2, <1>5, <1>6, <3>2 DEF Route, OwnKept, TypeOK
    <3> QED
      BY <3>1, <3>2
  <2>2. FeedKept(d)
    BY <1>1, <1>2, <1>6, FeedLeaves
  <2> QED
    BY <2>1, <2>2, Untouched
<1>7. ASSUME change.call = d
      PROVE  CallInv(d)'
  <2>1. d \in created /\ change.seq <= count[d] /\ ~(pc[d] = "idle" /\ d \notin Elsewhere)
    BY <1>4, <1>7 DEF CallInv, HistoryInv
  <2>2. \A i \in DOMAIN changes' : changes'[i].call = d => changes'[i].seq <= count[d]
    BY <1>4 DEF CallInv, HistoryInv
  <2>3. /\ Taken(d)' = Taken(d) /\ First(d)' = First(d) /\ Missed(d) = {} /\ Missed(d)' = {}
        /\ Streams(d)' <=> Streams(d)
        /\ Relies(d)' <=> Relies(d)
        /\ pc[d] # "idle" \/ d \in Elsewhere
    BY <1>2, <2>1 DEF Taken, First, Missed, Streams, Relies
  <2>4. Streams(d) => d \in queues
    BY DEF CallInv, GeneratorInv, Waits, Streams
  <2>5. EndInv(d)'
    BY <1>2 DEF CallInv, EndInv
  \* What follows once the tables of d are as they should be.
  <2>6. ASSUME d \in bound' => d \in bound \/ d \in created, d \in queues' <=> d \in queues,
               bound \subseteq bound',
               \A seq \in routed'[d] : seq <= count[d],
               d \notin queues => queue'[d] = <<>>,
               d \in bound' /\ d \in queues => orphans'[d] = <<>>,
               FeedLost \in Range(queue[d]) => FeedLost \in Range(queue'[d])
        PROVE  HistoryInv(d)' /\ GeneratorInv(d)' /\ HeardInv(d)'
    <3>1. HistoryInv(d)'
      BY <1>2, <2>1, <2>2, <2>6 DEF CallInv, HistoryInv
    <3>2. GeneratorInv(d)'
      BY <1>2, <2>6 DEF CallInv, GeneratorInv, Waits
    <3>3. HeardInv(d)'
      BY <1>2, <2>6 DEF CallInv, HeardInv, Waits
    <3> QED
      BY <3>1, <3>2, <3>3
  <2>7. CASE change.seq = 0
    <3>1. /\ d \in bound' /\ orphans'[d] = <<>> /\ UNCHANGED <<queues, routed>>
          /\ d \in queues => queue'[d] = Ahead(d) /\ Ahead(d)' = Ahead(d)
          /\ d \notin queues => queue'[d] = <<>>
          /\ FeedLost \in Range(queue[d]) => FeedLost \in Range(queue'[d])
          /\ bound \subseteq bound'
      BY <1>2, <1>7, <2>7, BindFacts DEF Bind
    <3>2. HistoryInv(d)' /\ GeneratorInv(d)' /\ HeardInv(d)'
      BY <2>1, <2>6, <3>1 DEF CallInv, HistoryInv
    <3>3. OnceInv(d)'
      BY <1>2, <2>1, <2>3, <2>4, <3>1 DEF CallInv, OnceInv
    <3>4. OrderInv(d)'
      <4>1. FeedKept(d)
        BY <1>1, <1>2, <2>7, FeedLeaves
      <4>2. Streams(d) => Sources(d)' = Sources(d)
        BY <2>3, <2>4, <3>1 DEF Sources
      <4> QED
        BY <1>2, <2>3, <2>4, <3>1, <4>1, <4>2 DEF CallInv, OrderInv, FeedKept, Relies
    <3> QED
      BY <2>5, <3>2, <3>3, <3>4 DEF CallInv
  <2>8. CASE change.seq # 0
    <3>1. PICK seq : seq = change.seq
      OBVIOUS
    <3>2. seq \in Seqs /\ seq # FeedLost /\ Route(d, seq)
      BY <1>2, <1>5, <1>7, <2>8, <3>1 DEF FeedLost
    <3>3. CASE seq \in routed[d]
      <4>1. UNCHANGED <<queues, queue, bound, orphans, routed>>
        BY <3>2, <3>3 DEF Route
      <4>2. OwnKept(d)
        BY <1>2, <4>1 DEF OwnKept
      <4>3. Relies(d) => seq \in Sources(d)
        BY <3>3 DEF Relies, CallInv, OnceInv, Sources
      <4>4. FeedKept(d)
        BY <1>1, <1>2, <3>1, <4>3, FeedLeaves
      <4> QED
        BY <4>2, <4>4, Untouched
    <3>4. CASE seq \notin routed[d]
      <4>1. /\ routed'[d] = routed[d] \cup {seq} /\ UNCHANGED <<queues, bound>>
            /\ d \in bound /\ d \in queues => queue'[d] = Append(queue[d], seq) /\ orphans'[d] = orphans[d]
            /\ ~(d \in bound /\ d \in queues) => queue'[d] = queue[d] /\ orphans'[d] = Append(orphans[d], seq)
        BY <3>2, <3>4 DEF Route, TypeOK
      <4>2. PICK A : A = Ahead(d)
        OBVIOUS
      <4>3. /\ queue[d] \in Seq(Events) /\ orphans[d] \in Seq(Events) /\ seq \in Events /\ A \in Seq(Events)
        BY <3>2, <4>2, QueueTypes, EventFacts
      <4>4. Ahead(d)' = Append(A, seq)
        <5>1. CASE d \in bound /\ d \in queues
          <6>1. orphans[d] = <<>>
            BY <5>1 DEF CallInv, GeneratorInv
          <6>2. A = queue[d]
            BY <4>2, <4>3, <6>1, ParkFacts DEF Ahead
          <6>3. Append(queue[d], seq) \in Seq(Events)
            BY <4>3, AppendFacts
          <6>4. Append(queue[d], seq) \o <<>> = Append(queue[d], seq)
            BY <6>3
          <6> QED
            BY <4>1, <5>1, <6>1, <6>2, <6>4 DEF Ahead
        <5>2. CASE ~(d \in bound /\ d \in queues)
          <6>1. queue[d] \o Append(orphans[d], seq) = Append(queue[d] \o orphans[d], seq)
            BY <4>3, ParkFacts
          <6> QED
            BY <4>1, <4>2, <5>2, <6>1 DEF Ahead
        <5> QED
          BY <5>1, <5>2
      <4>5. Range(Append(A, seq)) = Range(A) \cup {seq}
        BY <4>3, RangeFacts
      <4>6. HistoryInv(d)' /\ GeneratorInv(d)' /\ HeardInv(d)'
        <5>1. \A x \in routed'[d] : x <= count[d]
          BY <2>1, <3>1, <4>1 DEF CallInv, HistoryInv
        <5>2. FeedLost \in Range(queue[d]) => FeedLost \in Range(queue'[d])
          <6>1. Range(Append(queue[d], seq)) = Range(queue[d]) \cup {seq}
            BY <4>3, RangeFacts
          <6> QED
            BY <4>1, <6>1
        <5>3. d \notin queues => queue'[d] = <<>>
          BY <4>1 DEF CallInv, GeneratorInv
        <5>4. d \in bound' /\ d \in queues => orphans'[d] = <<>>
          BY <4>1 DEF CallInv, GeneratorInv
        <5> QED
          BY <2>6, <4>1, <5>1, <5>2, <5>3, <5>4
      <4>7. OnceInv(d)'
        <5> SUFFICES ASSUME Streams(d)
                     PROVE  Single(Ahead(d)', Taken(d)') /\ routed'[d] = Taken(d)' \cup (Range(Ahead(d)') \ {FeedLost})
          BY <1>2, <2>3 DEF OnceInv
        <5>1. Single(A, Taken(d)) /\ routed[d] = Taken(d) \cup (Range(A) \ {FeedLost})
          BY <4>2 DEF CallInv, OnceInv
        <5>2. seq \notin Taken(d) /\ seq \notin Range(A)
          BY <3>2, <3>4, <5>1
        <5>3. Single(Append(A, seq), Taken(d))
          BY <3>2, <4>3, <5>1, <5>2, SingleFacts
        <5> QED
          BY <2>3, <3>2, <4>1, <4>4, <4>5, <5>1, <5>3
      <4>8. ASSUME Relies(d)
            PROVE  /\ Ordered(Append(A, seq), Taken(d) \cup First(d))
                   /\ FeedLost \notin Range(Append(A, seq)) =>
                         FeedOrdered(changes', d, Sources(d)') /\ FeedWhole(changes', d, Sources(d)', count[d])
        <5>1. PICK T : T = Taken(d) \cup First(d)
          OBVIOUS
        <5>2. /\ Ordered(A, T)
              /\ FeedLost \notin Range(A) =>
                    FeedOrdered(changes, d, Sources(d)) /\ FeedWhole(changes, d, Sources(d), count[d])
          BY <1>2, <4>2, <4>8, <5>1 DEF CallInv, OrderInv
        <5>3. PICK S : S = Sources(d)
          OBVIOUS
        <5>4. PICK R : R = Sources(d)'
          OBVIOUS
        <5>5. S = T \cup Range(A) /\ R = S \cup {seq}
          BY <2>3, <4>2, <4>4, <4>5, <5>1, <5>3, <5>4 DEF Sources
        <5>6. ASSUME FeedLost \notin Range(A)
              PROVE  \A n \in 1 .. seq - 1 : n \in S
          <6>1. FeedOrdered(changes, d, S)
            BY <5>2, <5>3, <5>6
          <6>2. S \subseteq R /\ (Head(changes).call = d /\ Head(changes).seq # 0 => Head(changes).seq \in R)
            BY <1>1, <3>1, <5>5
          <6>3. changes # <<>> /\ Head(changes).call = d /\ Head(changes).seq = seq
            BY <1>1, <1>2, <1>7, <3>1
          <6>4. \A n \in 1 .. Head(changes).seq - 1 : n \in S
            BY <1>3, <6>1, <6>2, <6>3, FeedTail
          <6> QED
            BY <6>3, <6>4
        <5>7. Ordered(Append(A, seq), T)
          <6>1. FeedLost \in Range(A) \/ \A n \in 1 .. seq - 1 : n \in T \cup Range(A)
            BY <5>5, <5>6
          <6> QED
            BY <3>2, <4>3, <5>2, <6>1, OrderedFacts
        <5>8. FeedLost \notin Range(A) => FeedOrdered(changes', d, R) /\ FeedWhole(changes', d, R, count[d])
          <6>1. S \subseteq R /\ (Head(changes).call = d /\ Head(changes).seq # 0 => Head(changes).seq \in R)
            BY <1>1, <3>1, <5>5
          <6> QED
            BY <1>2, <1>3, <5>2, <5>3, <6>1, FeedTail
        <5> QED
          BY <4>5, <5>1, <5>4, <5>7, <5>8
      <4>9. OrderInv(d)'
        <5>1. Relies(d) /\ FeedLost \notin Range(A) => (wasLive[d] => feedLive)
          BY <1>2
        <5> QED
          BY <1>2, <2>3, <4>4, <4>5, <4>8, <5>1 DEF CallInv, OrderInv
      <4> QED
        BY <2>5, <4>6, <4>7, <4>9 DEF CallInv
    <3> QED
      BY <3>3, <3>4
  <2> QED
    BY <2>7, <2>8
<1> QED
  BY <1>6, <1>7

-----------------------------------------------------------------------------
(* The theorems.                                                           *)

LEMMA FeedStep ==
  ASSUME TypeOK, FeedInv, Next
  PROVE  FeedInv'
<1>1. CASE UNCHANGED <<watching, feed, feedLive, changes>> /\ behind' \subseteq behind
  BY <1>1 DEF FeedInv
<1>2. ASSUME NEW c \in Calls, Assign(c)
      PROVE  FeedInv'
  <2>1. /\ watching' = TRUE /\ feed' = IF watching THEN feed ELSE "opening"
        /\ UNCHANGED <<feedLive, behind, changes>>
    BY <1>2 DEF Assign
  <2>2. watching \in BOOLEAN
    BY DEF TypeOK
  <2> QED
    BY <2>1, <2>2 DEF FeedInv
<1>3. ASSUME NEW c \in Calls,
             \/ Assigned(c) \/ AssignFails(c) \/ FirstDone(c) \/ Take(c) \/ Resume(c) \/ Close(c)
             \/ CancelAssigning(c) \/ LateAnswer(c) \/ NoAnswer(c) \/ CancelWaiting(c)
             \/ Drain(c) \/ Unconfirmed(c) \/ CancelAgain(c)
             \/ AgainWakes(c) \/ AgainDone(c) \/ FeedReads(c) \/ FeedCaughtUp(c)
      PROVE  FeedInv'
  <2>1. UNCHANGED <<watching, feed, feedLive, changes>> /\ behind' \subseteq behind
    BY <1>3 DEF Assigned, AssignFails, FirstDone, Take, Resume, Close, CancelAssigning, LateAnswer, NoAnswer,
                CancelWaiting, Drain, Unconfirmed, CancelAgain, AgainWakes, AgainDone, FeedReads, FeedCaughtUp, watch
  <2> QED
    BY <1>1, <2>1
<1>4. ASSUME NEW c \in Calls, ServerAssigns(c) \/ ServerReports(c)
      PROVE  FeedInv'
  <2>1. UNCHANGED <<watching, feed, feedLive, behind>> /\ (feed # "subscribed" => changes' = changes)
    BY <1>4 DEF ServerAssigns, ServerReports, Carried, watch
  <2> QED
    BY <2>1 DEF FeedInv
<1>5. CASE FeedAlive
  BY <1>5 DEF FeedAlive, FeedInv
<1>6. CASE HandleChange
  BY <1>6 DEF HandleChange, FeedInv, watch
<1>7. CASE FeedEnds
  BY <1>7 DEF FeedEnds, FeedInv
<1>8. CASE Subscribed
  BY <1>8 DEF Subscribed, FeedInv, watch
<1> QED
  BY <1>2, <1>3, <1>4, <1>5, <1>6, <1>7, <1>8 DEF Next

LEMMA InitInv == Init => IInv
<1> SUFFICES ASSUME Init PROVE IInv
  OBVIOUS
<1>1. TypeOK
  <2>1. <<>> \in Seq(Seqs) /\ <<>> \in Seq(Events) /\ <<>> \in Seq(Changes) /\ 0 \in 0 .. MaxSeq
    BY EventFacts
  <2>2. GeneratorOK
    BY <2>1 DEF Init, GeneratorOK
  <2>3. TablesOK
    BY <2>1 DEF Init, TablesOK
  <2>4. ReadsOK /\ FeedOK /\ ServerOK
    BY <2>1 DEF Init, ReadsOK, FeedOK, ServerOK
  <2> QED
    BY <2>2, <2>3, <2>4, TypeParts
<1>2. FeedInv
  BY DEF Init, FeedInv
<1>3. ASSUME NEW c \in Calls
      PROVE  CallInv(c)
  <2>1. /\ pc[c] = "idle" /\ outcome[c] = "none" /\ taken[c] = <<>> /\ queues = {} /\ queue[c] = <<>>
        /\ bound = {} /\ orphans[c] = <<>> /\ routed[c] = {} /\ again = {} /\ behind = {} /\ created = {}
        /\ changes = <<>> /\ count[c] = 0 /\ ending[c] = "none"
        /\ \A by \in Readers : asked[<<by, c>>] = NoRead
    BY <1>3 DEF Init
  <2>2. DOMAIN changes = {} /\ DOMAIN taken[c] = {}
    BY <2>1
  <2>3. 0 < MaxSeq /\ NoRead <= 0
    BY BoundAssumption DEF NoRead
  <2>4. HistoryInv(c)
    BY <2>1, <2>2, <2>3 DEF HistoryInv
  <2>5. GeneratorInv(c)
    BY <2>1 DEF GeneratorInv, Waits, Readers
  <2>6. HeardInv(c) /\ EndInv(c)
    BY <2>1 DEF HeardInv, Waits, EndInv
  <2>7. OrderInv(c)
    BY <2>1, <2>2 DEF OrderInv, Relies, Streams
  <2>8. DOMAIN Ahead(c) = {} /\ Range(Ahead(c)) = {} /\ Taken(c) = {}
    <3>1. <<>> \in Seq(Events) /\ Ahead(c) = <<>> \o <<>>
      BY <2>1 DEF Ahead
    <3>2. Ahead(c) = <<>>
      BY <3>1, ParkFacts, EventFacts
    <3> QED
      BY <2>2, <3>2 DEF Range, Taken
  <2>9. OnceInv(c)
    BY <2>1, <2>8 DEF OnceInv, Single
  <2> QED
    BY <2>4, <2>5, <2>6, <2>7, <2>9 DEF CallInv
<1> QED
  BY <1>1, <1>2, <1>3 DEF IInv

LEMMA Stutters ==
  ASSUME IInv, UNCHANGED vars
  PROVE  IInv'
<1>1. UNCHANGED <<pc, outcome, taken, wasLive, queues, queue, bound, orphans, routed, again, watching, feedLive,
                  behind, asked, feed, changes, created, count, ending, unread>>
  BY DEF vars, generator, tables, watch, server
<1>2. TypeOK'
  BY <1>1 DEF IInv, TypeOK
<1>3. FeedInv'
  BY <1>1 DEF IInv, FeedInv
<1>4. ASSUME NEW d \in Calls
      PROVE  CallInv(d)'
  <2>1. OwnKept(d)
    BY <1>1 DEF OwnKept
  <2>2. FeedKept(d)
    BY <1>1, FeedSame
  <2> QED
    BY <2>1, <2>2, Untouched DEF IInv
<1> QED
  BY <1>2, <1>3, <1>4 DEF IInv

LEMMA StepKeeps ==
  ASSUME TypeOK, FeedInv, \A c \in Calls : CallInv(c), NEW d \in Calls, Next
  PROVE  CallInv(d)'
<1>1. ASSUME NEW c \in Calls,
             \/ Assign(c) \/ Assigned(c) \/ AssignFails(c) \/ FirstDone(c)
             \/ Take(c) \/ Resume(c) \/ Close(c)
             \/ CancelAssigning(c) \/ LateAnswer(c) \/ NoAnswer(c) \/ CancelWaiting(c)
             \/ Drain(c) \/ Unconfirmed(c) \/ CancelAgain(c)
             \/ AgainWakes(c) \/ AgainDone(c) \/ FeedReads(c) \/ FeedCaughtUp(c)
      PROVE  CallInv(d)'
  <2>1. CASE c # d
    BY <1>1, <2>1, OthersKept, Untouched
  <2>2. CASE c = d
    <3>1. CallInv(c)
      OBVIOUS
    <3>2. CASE AssignFails(c) \/ Close(c) \/ NoAnswer(c)
      <4>1. PICK how \in {"refused", "closed", "unknown"} :
              End(c, how) /\ pc[c] # "idle" /\ UNCHANGED <<taken, wasLive, watch, feed, changes, server, unread>>
        BY <3>2 DEF AssignFails, Close, NoAnswer
      <4>2. how \in {"ended", "refused", "lost", "closed", "cancelled", "unknown"} /\ how # "ended"
        OBVIOUS
      <4> QED
        BY <2>2, <3>1, <4>1, <4>2, EndKeeps
    <3> QED
      BY <1>1, <2>2, <3>1, <3>2, AssignKeeps, AssignedKeeps, FirstDoneKeeps, TakeKeeps, ResumeKeeps, CancellingKeeps,
         AgainWakesKeeps, AgainDoneKeeps, FeedReadsKeeps, FeedCaughtUpKeeps
  <2> QED
    BY <2>1, <2>2
<1>2. ASSUME NEW c \in Calls, ServerAssigns(c) \/ ServerReports(c)
      PROVE  CallInv(d)'
  BY <1>2, AssignsKeep, ReportsKeep
<1>3. CASE FeedAlive \/ HandleChange \/ FeedEnds \/ Subscribed
  BY <1>3, FeedAliveKeeps, ChangeKeeps, FeedEndsKeeps, SubscribedKeeps
<1> QED
  BY <1>1, <1>2, <1>3 DEF Next

\* The invariant above holds of every state the postman, its calls, the feed and the
\* server reach.
THEOREM Inductive == Spec => []IInv
<1>1. Init => IInv
  BY InitInv
<1>2. IInv /\ [Next]_vars => IInv'
  <2> SUFFICES ASSUME IInv, [Next]_vars PROVE IInv'
    OBVIOUS
  <2>1. CASE Next
    <3>1. TypeOK'
      BY <2>1, TypeStep
    <3>2. FeedInv'
      BY <2>1, FeedStep DEF IInv
    <3>3. ASSUME NEW d \in Calls PROVE CallInv(d)'
      BY <2>1, StepKeeps DEF IInv
    <3> QED
      BY <3>1, <3>2, <3>3 DEF IInv
  <2>2. CASE UNCHANGED vars
    BY <2>2, Stutters
  <2> QED
    BY <2>1, <2>2
<1> QED
  BY <1>1, <1>2, PTL DEF Spec

\* The types of GraphQLPostman: the postman's tables are about calls and the events of
\* their tasks, and the feed carries changes.
THEOREM TypesHold == Spec => []TypeOK
<1>1. IInv => TypeOK
  BY DEF IInv
<1> QED
  BY <1>1, Inductive, PTL

\* A call yields its task's events each once and in order, from the first, and one
\* that ended saw them all, however the assign's answer, the feed and the reads of the
\* history interleave, and wherever the feed starts or stops.  (_acatch_up, _route,
\* _bind, feed_was_live.)
THEOREM StreamInOrderHolds == Spec => []StreamInOrder
<1>1. IInv => StreamInOrder
  BY DEF IInv, CallInv, OrderInv, EndInv, StreamInOrder
<1> QED
  BY <1>1, Inductive, PTL

\* No call waits on a feed that is gone without having been told, whatever else is in
\* its queue, and whatever a read of the history took out of it.  (_fail_pending,
\* start_watching, _acatch_up.)
THEOREM FeedLossIsHeardHolds == Spec => []FeedLossIsHeard
<1>1. IInv => FeedLossIsHeard
  BY DEF IInv, CallInv, HeardInv, Waits, FeedLossIsHeard
<1> QED
  BY <1>1, Inductive, PTL

\* A call that is over holds no queue and no reader, in whatever state it was when it
\* ended.  (_cleanup_reference.)
THEOREM NothingLeftBehindHolds == Spec => []NothingLeftBehind
<1>1. IInv => NothingLeftBehind
  BY DEF IInv, CallInv, GeneratorInv, NothingLeftBehind
<1> QED
  BY <1>1, Inductive, PTL

=============================================================================
