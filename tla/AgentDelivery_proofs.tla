----------------------- MODULE AgentDelivery_proofs -----------------------
(***************************************************************************)
(* Proofs about AgentDelivery, for every number of sessions and frames and *)
(* every bound.                                                            *)
(***************************************************************************)
EXTENDS AgentDelivery, FiniteSetTheorems, TLAPS

-----------------------------------------------------------------------------
(* Queues and counts.                                                      *)

\* The empty queue is a queue of anything.
LEMMA EmptyQueue == \A S : <<>> \in Seq(S)
  OBVIOUS

\* Counting the un-numbered frames of a queue gives a natural number.
LEMMA PlainInNat == \A q \in Seq(Frames) : PlainIn(q) \in Nat
<1> TAKE q \in Seq(Frames)
<1>1. IsFiniteSet(1 .. Len(q))
  BY FS_Interval
<1>2. IsFiniteSet({i \in DOMAIN q : q[i] = Plain})
  BY <1>1, FS_Subset
<1> QED
  BY <1>2, FS_CardinalityType DEF PlainIn

\* There are finitely many keys, so counting the retained ones does too.
LEMMA RetainedCount == retained \in SUBSET Keys => Cardinality(retained) \in Nat
<1>1. IsFiniteSet(Sessions) /\ IsFiniteSet(1 .. MaxPos)
  BY FS_Interval, BoundsAssumption DEF Sessions
<1>2. IsFiniteSet(Keys)
  BY <1>1, FS_Product DEF Keys
<1> QED
  BY <1>2, FS_Subset, FS_CardinalityType

\* What HandleInit queues -- the kept un-numbered frames, then every retained
\* frame in resend order -- is a queue of frames.
LEMMA ResendIsQueue ==
  ASSUME TypeOK, NEW q \in ResendOrders
  PROVE  /\ KeptQueue \in Seq({Plain}) /\ q \in Seq(retained)
         /\ KeptQueue \o q \in Seq(Frames)
<1>1. PlainIn(sendQueue) \in Nat
  BY PlainInNat DEF TypeOK
<1>2. Cardinality(retained) \in Nat
  BY RetainedCount DEF TypeOK
<1>3. KeptQueue \in Seq({Plain})
  BY <1>1 DEF KeptQueue
<1>4. q \in Seq(retained)
  BY <1>2 DEF ResendOrders
<1> QED
  BY <1>3, <1>4 DEF TypeOK, Frames

\* What a queue holds, as it grows and shrinks.
LEMMA RangeAppend ==
  ASSUME NEW S, NEW q \in Seq(S), NEW x \in S
  PROVE  /\ Range(Append(q, x)) = Range(q) \cup {x}
         /\ Ahead(Append(q, x), Len(q) + 1) = Range(q)
         /\ \A i \in DOMAIN q : Ahead(Append(q, x), i) = Ahead(q, i)
<1> DEFINE p == Append(q, x)
<1>1. /\ DOMAIN q = 1 .. Len(q) /\ DOMAIN p = 1 .. Len(q) + 1
      /\ p[Len(q) + 1] = x
      /\ \A i \in 1 .. Len(q) : p[i] = q[i]
      /\ Len(q) \in Nat
  OBVIOUS
<1> HIDE DEF p
<1>2. Range(p) = Range(q) \cup {x}
  BY <1>1 DEF Range
<1>3. Ahead(p, Len(q) + 1) = Range(q)
  BY <1>1 DEF Range, Ahead
<1>4. \A i \in DOMAIN q : Ahead(p, i) = Ahead(q, i)
  BY <1>1 DEF Ahead
<1> QED
  BY <1>2, <1>3, <1>4 DEF p

LEMMA RangeTail ==
  ASSUME NEW S, NEW q \in Seq(S), q # <<>>
  PROVE  /\ 1 \in DOMAIN q /\ Head(q) = q[1] /\ Head(q) \in S
         /\ Range(q) = {Head(q)} \cup Range(Tail(q))
         /\ \A i \in DOMAIN Tail(q) :
               /\ i + 1 \in DOMAIN q /\ Tail(q)[i] = q[i + 1]
               /\ Ahead(q, i + 1) = {Head(q)} \cup Ahead(Tail(q), i)
         /\ Ahead(q, 1) = {}
<1> DEFINE p == Tail(q)
<1>1. /\ DOMAIN q = 1 .. Len(q) /\ DOMAIN p = 1 .. Len(q) - 1
      /\ Head(q) = q[1] /\ Head(q) \in S
      /\ \A i \in 1 .. Len(q) - 1 : p[i] = q[i + 1]
      /\ Len(q) \in Nat \ {0}
  OBVIOUS
<1> HIDE DEF p
<1>2. Range(q) = {Head(q)} \cup Range(p)
  <2>1. \A i \in DOMAIN q : i = 1 \/ (i - 1 \in DOMAIN p /\ p[i - 1] = q[i])
    BY <1>1
  <2>2. \A i \in DOMAIN p : i + 1 \in DOMAIN q /\ p[i] = q[i + 1]
    BY <1>1
  <2> QED
    BY <1>1, <2>1, <2>2 DEF Range
<1>3. ASSUME NEW i \in DOMAIN p
      PROVE  /\ i + 1 \in DOMAIN q /\ p[i] = q[i + 1]
             /\ Ahead(q, i + 1) = {Head(q)} \cup Ahead(p, i)
  <2>1. i \in Nat /\ 1 <= i /\ i <= Len(q) - 1
    BY <1>1
  <2>2. \A j \in 1 .. i : j = 1 \/ (j - 1 \in 1 .. i - 1 /\ p[j - 1] = q[j])
    BY <1>1, <2>1
  <2>3. \A j \in 1 .. i - 1 : j + 1 \in 1 .. i /\ p[j] = q[j + 1]
    BY <1>1, <2>1
  <2>4. (i + 1) - 1 = i /\ 1 \in 1 .. i
    BY <2>1
  <2>5. Ahead(q, i + 1) = {q[j] : j \in 1 .. i}
    BY <2>4 DEF Ahead
  <2>6. {q[j] : j \in 1 .. i} = {Head(q)} \cup Ahead(p, i)
    BY <1>1, <2>2, <2>3, <2>4 DEF Ahead
  <2> QED
    BY <1>1, <2>1, <2>5, <2>6
<1>4. Ahead(q, 1) = {}
  BY DEF Ahead
<1> QED
  BY <1>1, <1>2, <1>3, <1>4 DEF p

LEMMA RangeConcat ==
  ASSUME NEW S, NEW p \in Seq(S), NEW q \in Seq(S)
  PROVE  /\ Range(p \o q) = Range(p) \cup Range(q)
         /\ \A i \in DOMAIN (p \o q) :
               \/ i \in DOMAIN p /\ (p \o q)[i] = p[i]
               \/ /\ i - Len(p) \in DOMAIN q /\ (p \o q)[i] = q[i - Len(p)]
                  /\ Ahead(q, i - Len(p)) \subseteq Ahead(p \o q, i)
<1> DEFINE r == p \o q
<1>1. /\ DOMAIN p = 1 .. Len(p) /\ DOMAIN q = 1 .. Len(q) /\ DOMAIN r = 1 .. Len(p) + Len(q)
      /\ Len(p) \in Nat /\ Len(q) \in Nat
      /\ \A i \in 1 .. Len(p) : r[i] = p[i]
      /\ \A i \in 1 .. Len(q) : r[i + Len(p)] = q[i]
  OBVIOUS
<1> HIDE DEF r
<1>2. ASSUME NEW i \in DOMAIN r
      PROVE  \/ i \in DOMAIN p /\ r[i] = p[i]
             \/ i - Len(p) \in DOMAIN q /\ r[i] = q[i - Len(p)]
  <2>1. CASE i \in DOMAIN p
    BY <1>1, <2>1
  <2>2. CASE i \notin DOMAIN p
    <3>1. i - Len(p) \in 1 .. Len(q) /\ (i - Len(p)) + Len(p) = i
      BY <1>1, <2>2
    <3> QED
      BY <1>1, <3>1
  <2> QED
    BY <2>1, <2>2
<1>3. ASSUME NEW i \in DOMAIN r, i - Len(p) \in DOMAIN q
      PROVE  Ahead(q, i - Len(p)) \subseteq Ahead(r, i)
  <2>1. i \in Nat
    BY <1>1
  <2>2. \A j \in 1 .. (i - Len(p)) - 1 : j + Len(p) \in 1 .. i - 1 /\ j \in 1 .. Len(q)
    BY <1>1, <1>3, <2>1
  <2>3. \A j \in 1 .. (i - Len(p)) - 1 : j + Len(p) \in 1 .. i - 1 /\ r[j + Len(p)] = q[j]
    BY <1>1, <2>2
  <2> QED
    BY <2>3 DEF Ahead
<1>4. Range(r) = Range(p) \cup Range(q)
  <2>1. Range(p) \subseteq Range(r)
    BY <1>1 DEF Range
  <2>2. \A i \in 1 .. Len(q) : i + Len(p) \in DOMAIN r /\ r[i + Len(p)] = q[i]
    BY <1>1
  <2>3. Range(q) \subseteq Range(r)
    BY <1>1, <2>2 DEF Range
  <2>4. Range(r) \subseteq Range(p) \cup Range(q)
    BY <1>2 DEF Range
  <2> QED
    BY <2>1, <2>3, <2>4
<1> QED
  BY <1>2, <1>3, <1>4 DEF r

LEMMA RangeEmpty == Range(<<>>) = {} /\ DOMAIN <<>> = {}
  BY DEF Range

-----------------------------------------------------------------------------
(* Types.                                                                  *)

TypeInv == TypeOK /\ (alive => session > 0)

LEMMA TypeInit == Init => TypeInv
<1> SUFFICES ASSUME Init PROVE TypeInv
  OBVIOUS
<1>1. 0 \in 0 .. MaxPos /\ 0 \in 0 .. MaxSession
  BY BoundsAssumption
<1>2. numbered \in [Sessions -> 0 .. MaxPos] /\ ackedPos \in [Sessions -> 0 .. MaxPos]
      /\ watermark \in [Sessions -> 0 .. MaxPos] /\ createdAt \in [Sessions -> 0 .. MaxSession]
  BY <1>1 DEF Init
<1>3. sendQueue \in Seq(Frames) /\ wire \in Seq(Frames) /\ inQueue \in Seq(ServerMessages)
  BY EmptyQueue DEF Init
<1> QED
  BY <1>1, <1>2, <1>3 DEF Init, TypeInv, TypeOK

LEMMA TypeStep == TypeInv /\ [Next]_vars => TypeInv'
<1> SUFFICES ASSUME TypeInv, [Next]_vars
             PROVE  TypeInv'
  OBVIOUS
<1> USE BoundsAssumption DEF TypeInv, TypeOK, process, store, outbound, connection, server
<1>1. CASE Start
  <2>1. session + 1 \in Sessions
    BY <1>1 DEF Start, Sessions
  <2>2. \A s \in Sessions : ClockReading(s) \subseteq 0 .. MaxSession
    BY DEF ClockReading, Sessions
  <2>3. createdAt' \in [Sessions -> 0 .. MaxSession]
    BY <1>1, <2>1, <2>2 DEF Start
  <2>4. retained' \in SUBSET Keys /\ lost' \in SUBSET Keys
    BY <1>1 DEF Start, Loadable
  <2>5. session' \in 0 .. MaxSession /\ session' > 0
    BY <1>1 DEF Start
  <2> QED
    BY <1>1, <2>3, <2>4, <2>5 DEF Start
<1>2. CASE Crash
  BY <1>2, EmptyQueue DEF Crash
<1>3. CASE Record
  <2>1. session \in Sessions
    BY <1>3 DEF Record, Sessions
  <2>2. numbered' \in [Sessions -> 0 .. MaxPos]
    BY <1>3, <2>1 DEF Record
  <2>3. <<session, numbered[session] + 1>> \in Keys
    BY <1>3, <2>1 DEF Record, Keys
  <2>4. retained' \in SUBSET Keys /\ journal' \in SUBSET Keys
    BY <1>3, <2>3 DEF Record
  <2>5. sendQueue' \in Seq(Frames)
    BY <1>3, <2>3 DEF Record, Frames
  <2> QED
    BY <1>3, <2>2, <2>4, <2>5 DEF Record
<1>4. CASE SendPlain
  BY <1>4 DEF SendPlain, Frames
<1>5. CASE Connect
  BY <1>5 DEF Connect
<1>6. CASE Drop
  BY <1>6, EmptyQueue DEF Drop, Requeued
<1>7. CASE SendHeld
  BY <1>7 DEF SendHeld, MaySend
<1>8. CASE SendQueued
  BY <1>8 DEF SendQueued, MaySend
<1>9. CASE Sent
  BY <1>9 DEF Sent
<1>10. CASE SendFails
  BY <1>10 DEF SendFails, Requeued
<1>11. CASE HandleInit
  BY <1>11, ResendIsQueue DEF HandleInit, KeptHeld, Frames
<1>12. CASE HandleAck
  <2> DEFINE m == Head(inQueue)
  <2>1. m \in ServerMessages /\ m.type = "JOURNAL_ACK"
    BY <1>12 DEF HandleAck
  <2>2. m.session \in Sessions /\ m.pos \in 1 .. MaxPos
    BY <2>1 DEF ServerMessages
  <2>3. inQueue' \in Seq(ServerMessages)
    BY <1>12 DEF HandleAck
  <2>4. Raised(m.session, m.pos) \in [Sessions -> 0 .. MaxPos]
    BY <2>2 DEF Raised
  <2>5. \A rows : Pruned(Raised(m.session, m.pos), rows) \in [Sessions -> 0 .. MaxPos]
    BY <2>4 DEF Pruned
  <2>6. \A rows : Pruned(createdAt, rows) \in [Sessions -> 0 .. MaxSession]
    BY DEF Pruned
  <2>7. /\ retained' \in SUBSET Keys
        /\ journal' \in SUBSET Keys
        /\ ackedPos' \in [Sessions -> 0 .. MaxPos]
        /\ createdAt' \in [Sessions -> 0 .. MaxSession]
    BY <1>12, <2>4, <2>5, <2>6 DEF HandleAck, Uncovered
  <2> QED
    BY <1>12, <2>3, <2>7 DEF HandleAck
<1>13. CASE ServerInit
  <2>1. [type |-> "INIT"] \in ServerMessages
    BY DEF ServerMessages
  <2> QED
    BY <1>13, <2>1 DEF ServerInit
<1>14. CASE ServerReceive
  <2> DEFINE f == Head(wire)
  <2>1. wire' \in Seq(Frames)
    BY <1>14 DEF ServerReceive
  <2>2. CASE f \in Keys /\ watermark[f[1]] < f[2]
    <3>1. f[1] \in Sessions /\ f[2] \in 0 .. MaxPos
      BY <2>2 DEF Keys
    <3>2. watermark' = [watermark EXCEPT ![f[1]] = f[2]] /\ projected' = projected \cup {f}
      BY <1>14, <2>2 DEF ServerReceive
    <3>3. watermark' \in [Sessions -> 0 .. MaxPos] /\ projected' \in SUBSET Keys
      BY <2>2, <3>1, <3>2
    <3> QED
      BY <1>14, <2>1, <3>3 DEF ServerReceive
  <2>3. CASE ~(f \in Keys /\ watermark[f[1]] < f[2])
    BY <1>14, <2>1, <2>3 DEF ServerReceive
  <2> QED
    BY <2>2, <2>3
<1>15. ASSUME NEW s \in Sessions, ServerAck(s)
       PROVE  TypeInv'
  <2> DEFINE m == [type |-> "JOURNAL_ACK", session |-> s, pos |-> watermark[s]]
  <2>1. m \in ServerMessages
    BY <1>15 DEF ServerAck, ServerMessages
  <2>2. inQueue' = Append(inQueue, m)
    BY <1>15 DEF ServerAck
  <2>3. inQueue' \in Seq(ServerMessages)
    BY <2>1, <2>2
  <2> QED
    BY <1>15, <2>3 DEF ServerAck
<1>16. CASE ResendReport
  BY <1>16 DEF ResendReport, Frames
<1>17. CASE UNCHANGED vars
  BY <1>17 DEF vars
<1> QED
  BY <1>1, <1>2, <1>3, <1>4, <1>5, <1>6, <1>7, <1>8, <1>9, <1>10, <1>11, <1>12,
     <1>13, <1>14, <1>15, <1>16, <1>17 DEF Next

\* Every variable stays in the range the code gives it, over every drop, restart
\* and failure of the store.
THEOREM TypeCorrect == Spec => []TypeOK
<1>1. TypeInv => TypeOK
  BY DEF TypeInv
<1> QED
  BY TypeInit, TypeStep, <1>1, PTL DEF Spec

-----------------------------------------------------------------------------
(* Facts about one state.                                                  *)

\* The range of a bound that is cited often.
LEMMA KeyIsPair == \A k \in Keys : k[1] \in Sessions /\ k[2] \in 1 .. MaxPos /\ k = <<k[1], k[2]>>
  BY DEF Keys

\* A position at or below the server's watermark is logged, or was given up.
LEMMA CoveredIsLogged ==
  ASSUME TypeOK, LogInOrder, AckInv, NEW k \in Recorded, k[2] <= watermark[k[1]]
  PROVE  k \in projected \cup lost
<1> DEFINE f == <<k[1], watermark[k[1]]>>
<1>1. k \in Keys /\ k[1] \in Sessions /\ k[2] \in 1 .. MaxPos
  BY KeyIsPair DEF Recorded
<1>2. watermark[k[1]] \in 0 .. MaxPos
  BY <1>1 DEF TypeOK
<1>3. f \in projected
  BY <1>1, <1>2, BoundsAssumption DEF AckInv
<1>4. CASE k[2] = watermark[k[1]]
  BY <1>1, <1>3, <1>4, KeyIsPair
<1>5. CASE k[2] < watermark[k[1]]
  <2>1. MustPrecede(k, f)
    BY <1>5 DEF MustPrecede
  <2> QED
    BY <1>3, <2>1 DEF LogInOrder
<1> QED
  BY <1>1, <1>2, <1>4, <1>5, BoundsAssumption

\* No two frames are each before the other in the resend order.
LEMMA ResendIsStrict ==
  ASSUME TypeOK, NEW k \in Keys, NEW f \in Keys, ResendBefore(k, f), ResendBefore(f, k)
  PROVE  FALSE
<1>0. /\ k[1] \in Sessions /\ f[1] \in Sessions
      /\ k[2] \in 1 .. MaxPos /\ f[2] \in 1 .. MaxPos
      /\ createdAt \in [Sessions -> 0 .. MaxSession]
  BY KeyIsPair DEF TypeOK
<1>1. /\ k[1] \in Nat /\ f[1] \in Nat /\ k[2] \in Nat /\ f[2] \in Nat
      /\ createdAt[k[1]] \in Nat /\ createdAt[f[1]] \in Nat
  BY <1>0, BoundsAssumption DEF Sessions
<1> QED
  BY <1>1 DEF ResendBefore

\* The resend order respects the log's order.
LEMMA ResendRespectsLog ==
  ASSUME FramesHaveTheirSession, RetentionInv,
         NEW k \in retained, NEW f \in retained, k \in Keys, f \in Keys, MustPrecede(k, f)
  PROVE  ResendBefore(k, f)
<1>1. CASE k[1] = f[1] /\ k[2] < f[2]
  BY <1>1 DEF ResendBefore
<1>2. CASE ~ClockStepsBack /\ k[1] < f[1]
  <2>1. createdAt[k[1]] = k[1] /\ createdAt[f[1]] = f[1]
    BY <1>2, KeyIsPair DEF FramesHaveTheirSession, RetentionInv
  <2> QED
    BY <1>2, <2>1 DEF ResendBefore
<1> QED
  BY <1>1, <1>2 DEF MustPrecede

\* A frame of a resend order has every retained frame it must follow ahead of it.
LEMMA ResendInOrder ==
  ASSUME TypeOK, FramesHaveTheirSession, RetentionInv,
         NEW q \in ResendOrders, NEW i \in DOMAIN q,
         NEW k \in retained, MustPrecede(k, q[i])
  PROVE  k \in Ahead(q, i)
<1>1. Cardinality(retained) \in Nat /\ retained \subseteq Keys
  BY RetainedCount DEF TypeOK
<1>2. /\ DOMAIN q = 1 .. Cardinality(retained) /\ q[i] \in retained
      /\ \A a, b \in DOMAIN q : a < b => ResendBefore(q[a], q[b])
  BY DEF ResendOrders
<1>3. PICK j \in DOMAIN q : q[j] = k
  BY DEF ResendOrders
<1>4. ResendBefore(k, q[i])
  BY <1>1, <1>2, ResendRespectsLog
<1>5. ~ResendBefore(q[i], k)
  BY <1>1, <1>2, <1>4, ResendIsStrict
<1>6. i # j
  BY <1>1, <1>2, <1>3, <1>4, <1>5
<1>7. j \in 1 .. i - 1
  BY <1>1, <1>2, <1>3, <1>5, <1>6
<1> QED
  BY <1>3, <1>7 DEF Ahead

\* A resend order holds exactly the retained frames.
LEMMA ResendHoldsRetained == \A q \in ResendOrders : Range(q) = retained
  BY DEF ResendOrders, Range

\* The frames a new one must follow are recorded already, and none must follow it.
LEMMA NewestIsLast ==
  ASSUME TypeInv, RetentionInv, Record, NEW f \in Recorded,
         NEW k \in Recorded', MustPrecede(k, f)
  PROVE  k \in Recorded
<1> DEFINE key == <<session, numbered[session] + 1>>
<1>1. session \in Sessions
  BY BoundsAssumption DEF Record, Sessions, TypeInv, TypeOK
<1>2. numbered' = [numbered EXCEPT ![session] = @ + 1] /\ numbered \in [Sessions -> 0 .. MaxPos]
  BY DEF Record, TypeInv, TypeOK
<1>3. numbered[session] \in 0 .. MaxPos
  BY <1>1, <1>2
<1>4. session \in Sessions /\ numbered[session] \in Nat
  BY <1>1, <1>3, BoundsAssumption
<1>5. /\ k \in Keys /\ k[1] \in Sessions /\ k[2] \in Nat /\ k = <<k[1], k[2]>>
      /\ f \in Keys /\ f[1] \in Sessions /\ f[2] \in Nat /\ 1 <= f[2] /\ f[2] <= numbered[f[1]]
  BY KeyIsPair DEF Recorded
<1>6. k \in Recorded \/ (k[1] = session /\ k[2] = numbered[session] + 1)
  <2>1. k[2] <= numbered'[k[1]]
    BY DEF Recorded
  <2>2. CASE k[1] # session
    BY <1>2, <1>5, <2>1, <2>2 DEF Recorded
  <2>3. CASE k[1] = session
    BY <1>4, <1>2, <1>5, <2>1, <2>3 DEF Recorded
  <2> QED
    BY <2>2, <2>3
<1>7. CASE k[1] = session /\ k[2] = numbered[session] + 1
  <2>1. CASE k[1] = f[1] /\ k[2] < f[2]
    BY <1>4, <1>5, <1>7, <2>1
  <2>2. CASE k[1] < f[1]
    <3>1. numbered[f[1]] = 0
      BY <1>5, <1>7, <2>2 DEF RetentionInv
    <3> QED
      BY <1>5, <3>1
  <2> QED
    BY <2>1, <2>2 DEF MustPrecede
<1> QED
  BY <1>6, <1>7

\* What Record makes recorded.
LEMMA RecordedGrows ==
  ASSUME TypeInv, Record
  PROVE  /\ session \in Sessions
         /\ <<session, numbered[session] + 1>> \in Keys
         /\ Recorded' = Recorded \cup {<<session, numbered[session] + 1>>}
<1>1. session \in Sessions
  BY BoundsAssumption DEF Record, Sessions, TypeInv, TypeOK
<1>2. numbered' = [numbered EXCEPT ![session] = @ + 1] /\ numbered \in [Sessions -> 0 .. MaxPos]
  BY DEF Record, TypeInv, TypeOK
<1>3. session \in Sessions /\ numbered[session] \in Nat /\ numbered[session] + 1 \in 1 .. MaxPos
  <2>1. numbered[session] \in 0 .. MaxPos /\ numbered[session] < MaxPos
    BY <1>1, <1>2 DEF Record
  <2> QED
    BY <1>1, <2>1, BoundsAssumption
<1>4. <<session, numbered[session] + 1>> \in Keys
  BY <1>3 DEF Keys
<1>5. \A k \in Keys : k[2] <= numbered'[k[1]]
         <=> k[2] <= numbered[k[1]] \/ k = <<session, numbered[session] + 1>>
  <2> TAKE k \in Keys
  <2>1. k[1] \in Sessions /\ k[2] \in Nat /\ k = <<k[1], k[2]>> /\ numbered[k[1]] \in Nat
    BY <1>2, KeyIsPair, BoundsAssumption
  <2>2. CASE k[1] = session
    BY <1>3, <1>2, <2>1, <2>2
  <2>3. CASE k[1] # session
    BY <1>3, <1>2, <2>1, <2>3
  <2> QED
    BY <2>2, <2>3
<1> QED
  BY <1>3, <1>4, <1>5 DEF Recorded

-----------------------------------------------------------------------------
(* What the agent keeps: one lemma for each part of the invariant, with a  *)
(* step for each action that can disturb it.                               *)

\* The actions that only move frames and messages: they touch neither what the
\* agent keeps nor what the server has.
Moving ==
    \/ SendPlain \/ ResendReport \/ Connect \/ Drop \/ SendHeld \/ SendQueued \/ Sent \/ SendFails
    \/ HandleInit \/ ServerInit \/ \E s \in Sessions : ServerAck(s)

LEMMA MovingKeeps == Moving => UNCHANGED <<process, store, server, lost>>
  BY DEF Moving, SendPlain, ResendReport, Connect, Drop, SendHeld, SendQueued, Sent, SendFails,
         HandleInit, ServerInit, ServerAck

LEMMA NextSplit == Next <=> Start \/ Crash \/ Record \/ HandleAck \/ ServerReceive \/ Moving
  BY DEF Next, Moving

LEMMA RecordedKept == numbered' = numbered => Recorded' = Recorded
  BY DEF Recorded

\* The next state's log is this one's, or has the head of the wire besides.
LEMMA Receives ==
  ASSUME TypeOK, ServerReceive
  PROVE  /\ wire # <<>> /\ Head(wire) \in Frames /\ wire' = Tail(wire)
         /\ UNCHANGED <<process, store, lost>>
         /\ \/ UNCHANGED server
            \/ /\ Head(wire) \in Keys /\ watermark[Head(wire)[1]] < Head(wire)[2]
               /\ projected' = projected \cup {Head(wire)}
               /\ watermark' = [watermark EXCEPT ![Head(wire)[1]] = Head(wire)[2]]
         /\ Head(wire) \in Keys /\ UNCHANGED server => Head(wire)[2] <= watermark[Head(wire)[1]]
<1> DEFINE f == Head(wire)
<1>1. wire # <<>> /\ wire' = Tail(wire) /\ UNCHANGED <<process, store, lost>>
  BY DEF ServerReceive
<1>2. f \in Frames
  BY <1>1 DEF TypeOK
<1>3. \/ UNCHANGED server
      \/ /\ f \in Keys /\ watermark[f[1]] < f[2]
         /\ projected' = projected \cup {f}
         /\ watermark' = [watermark EXCEPT ![f[1]] = f[2]]
  BY DEF ServerReceive
<1>4. ASSUME f \in Keys, UNCHANGED server
      PROVE  f[2] <= watermark[f[1]]
  <2>1. f[1] \in Sessions /\ f[2] \in 1 .. MaxPos /\ watermark \in [Sessions -> 0 .. MaxPos]
    BY <1>4, KeyIsPair DEF TypeOK
  <2>2. f[2] \in Nat /\ watermark[f[1]] \in Nat
    BY <2>1, BoundsAssumption
  <2>3. CASE watermark[f[1]] < f[2]
    <3>1. watermark' = [watermark EXCEPT ![f[1]] = f[2]]
      BY <1>4, <2>3 DEF ServerReceive
    <3>2. watermark'[f[1]] = f[2] /\ watermark' = watermark
      BY <1>4, <2>1, <3>1 DEF server
    <3> QED
      BY <2>2, <2>3, <3>2
  <2> QED
    BY <2>2, <2>3
<1> QED
  BY <1>1, <1>2, <1>3, <1>4

\* What an ack takes from a set of keys is in the log, or was given up.
LEMMA AckTakesLogged ==
  ASSUME TypeOK, LogInOrder, AckInv, HandleAck
  PROVE  LET s == Head(inQueue).session
             pos == Head(inQueue).pos
         IN  /\ s \in Sessions /\ pos \in 1 .. MaxPos /\ pos <= watermark[s]
             /\ \A S : \A k \in (S \ Uncovered(S, s, pos)) \cap Recorded : k \in projected \cup lost
<1> DEFINE m == Head(inQueue)
<1>1. inQueue \in Seq(ServerMessages) /\ inQueue # <<>> /\ m.type = "JOURNAL_ACK"
  BY DEF HandleAck, TypeOK
<1>2. m \in ServerMessages /\ m \in Range(inQueue)
  BY <1>1, RangeTail
<1>3. m.session \in Sessions /\ m.pos \in 1 .. MaxPos
  BY <1>1, <1>2 DEF ServerMessages
<1>4. m.pos <= watermark[m.session]
  BY <1>1, <1>2 DEF AckInv
<1>5. ASSUME NEW S, NEW k \in S, k \in Recorded, k \notin Uncovered(S, m.session, m.pos)
      PROVE  k \in projected \cup lost
  <2>1. k[1] = m.session /\ k[2] <= m.pos
    BY <1>5 DEF Uncovered
  <2>2. k[2] \in 1 .. MaxPos /\ watermark[m.session] \in 0 .. MaxPos
    BY <1>3, <1>5, KeyIsPair DEF Recorded, TypeOK
  <2>3. k[2] <= watermark[k[1]]
    BY <1>3, <1>4, <2>1, <2>2, BoundsAssumption
  <2> QED
    BY <1>5, <2>3, CoveredIsLogged
<1> QED
  BY <1>3, <1>4, <1>5

\* A row above what its session acknowledged can be loaded; the others are logged.
LEMMA StartLoadsOwed ==
  ASSUME TypeOK, LogInOrder, AckInv
  PROVE  journal \cap Recorded \subseteq Loadable \cup projected \cup lost
<1> SUFFICES ASSUME NEW k \in journal, k \in Recorded, k \notin Loadable
             PROVE  k \in projected \cup lost
  OBVIOUS
<1>1. k[1] \in Sessions /\ k[2] \in 1 .. MaxPos
  BY KeyIsPair DEF Recorded
<1>2. /\ ackedPos[k[1]] \in 0 .. MaxPos /\ watermark[k[1]] \in 0 .. MaxPos
      /\ ackedPos[k[1]] <= watermark[k[1]]
  BY <1>1 DEF TypeOK, AckInv
<1>3. ~(k[2] > ackedPos[k[1]])
  BY DEF Loadable
<1>4. k[2] <= watermark[k[1]]
  BY <1>1, <1>2, <1>3, BoundsAssumption
<1> QED
  BY <1>4, CoveredIsLogged

LEMMA NoFrameLostStep ==
  ASSUME IInv, Next
  PROVE  NoFrameLost'
<1>0. TypeOK /\ TypeInv /\ NoFrameLost /\ LogInOrder /\ RetentionInv /\ AckInv
  BY DEF IInv, TypeInv, RetentionInv
<1>1. CASE Start
  <2>1. PICK unread \in IF StoreMayFail THEN SUBSET Loadable ELSE {{}} :
           retained' = Loadable \ unread /\ lost' = lost \cup unread
    BY <1>1 DEF Start
  <2>2. Recorded' = Recorded /\ projected' = projected /\ ~alive /\ alive' = TRUE
    BY <1>1, RecordedKept DEF Start, server
  <2>3. Recorded \subseteq projected \cup lost \cup journal
    BY <1>0, <2>2 DEF NoFrameLost
  <2>4. Recorded \subseteq projected \cup lost \cup Loadable
    BY <1>0, <2>3, StartLoadsOwed
  <2>5. ~StoreMayFail => lost' = {}
    BY <1>0, <2>1 DEF NoFrameLost
  <2> QED
    BY <2>1, <2>2, <2>4, <2>5 DEF NoFrameLost
<1>2. CASE Crash
  <2>1. Recorded' = Recorded /\ projected' = projected /\ journal' = journal /\ alive /\ alive' = FALSE
        /\ lost' = lost \cup (retained \ journal)
    BY <1>2, RecordedKept DEF Crash, server, store
  <2>2. ~StoreMayFail => retained \subseteq journal /\ lost = {}
    BY <1>0 DEF RetentionInv, NoFrameLost
  <2> QED
    BY <1>0, <2>1, <2>2 DEF NoFrameLost
<1>3. CASE Record
  <2>1. Recorded' = Recorded \cup {<<session, numbered[session] + 1>>}
    BY <1>0, <1>3, RecordedGrows
  <2>2. retained' = retained \cup {<<session, numbered[session] + 1>>}
        /\ alive /\ alive' = alive /\ lost' = lost /\ projected' = projected
    BY <1>3 DEF Record, server
  <2> QED
    BY <1>0, <2>1, <2>2 DEF NoFrameLost
<1>4. CASE HandleAck
  <2> DEFINE s == Head(inQueue).session
             pos == Head(inQueue).pos
  <2>1. retained' = Uncovered(retained, s, pos)
        /\ alive /\ alive' = alive /\ lost' = lost /\ projected' = projected /\ numbered' = numbered
    BY <1>4 DEF HandleAck, server
  <2>2. \A k \in (retained \ Uncovered(retained, s, pos)) \cap Recorded : k \in projected \cup lost
    BY <1>0, <1>4, AckTakesLogged
  <2>3. Recorded' = Recorded
    BY <2>1, RecordedKept
  <2> QED
    BY <1>0, <2>1, <2>2, <2>3 DEF NoFrameLost
<1>5. CASE ServerReceive
  <2>1. projected \subseteq projected' /\ UNCHANGED <<process, store, lost>>
    BY <1>0, <1>5, Receives DEF server
  <2>2. Recorded' = Recorded
    BY <2>1, RecordedKept DEF process
  <2> QED
    BY <1>0, <2>1, <2>2 DEF NoFrameLost, process, store
<1>6. CASE Moving
  <2>1. UNCHANGED <<process, store, server, lost>>
    BY <1>6, MovingKeeps
  <2>2. Recorded' = Recorded
    BY <2>1, RecordedKept DEF process
  <2> QED
    BY <1>0, <2>1, <2>2 DEF NoFrameLost, process, store, server
<1> QED
  BY <1>1, <1>2, <1>3, <1>4, <1>5, <1>6, NextSplit

LEMMA LogInOrderStep ==
  ASSUME IInv, Next
  PROVE  LogInOrder'
<1>0. /\ TypeOK /\ TypeInv /\ LogInOrder /\ RetentionInv /\ AckInv /\ WireInOrder /\ SocketInv
      /\ projected \subseteq Recorded
  BY DEF IInv, TypeInv, RetentionInv, LineInv
<1>1. ASSUME Recorded' = Recorded, projected' = projected, lost \subseteq lost'
      PROVE  LogInOrder'
  BY <1>0, <1>1 DEF LogInOrder, MustPrecede
<1>2. CASE Start \/ Crash
  BY <1>1, <1>2, RecordedKept DEF Start, Crash, server
<1>3. CASE Record
  <2>1. projected' = projected /\ lost' = lost
    BY <1>3 DEF Record, server
  <2>2. \A f \in projected, k \in Recorded' : MustPrecede(k, f) => k \in Recorded
    BY <1>0, <1>3, NewestIsLast
  <2> QED
    BY <1>0, <2>1, <2>2 DEF LogInOrder, MustPrecede
<1>4. CASE HandleAck
  BY <1>1, <1>4, RecordedKept DEF HandleAck, server
<1>5. CASE ServerReceive
  <2> DEFINE f == Head(wire)
  <2>1. wire # <<>> /\ UNCHANGED <<process, store, lost>> /\ f = wire[1] /\ 1 \in DOMAIN wire
        /\ Ahead(wire, 1) = {}
    BY <1>0, <1>5, Receives, RangeTail DEF TypeOK
  <2>2. Recorded' = Recorded
    BY <2>1, RecordedKept DEF process
  <2>3. CASE UNCHANGED server
    BY <1>1, <2>1, <2>2, <2>3 DEF server
  <2>4. CASE f \in Keys /\ projected' = projected \cup {f}
    <3>1. Owed(f) \subseteq projected
      BY <1>0, <2>1, <2>4 DEF WireInOrder
    <3>2. \A k \in Recorded : MustPrecede(k, f) => k \in projected \cup lost
      BY <3>1 DEF Owed
    <3> QED
      BY <1>0, <2>1, <2>2, <2>4, <3>2 DEF LogInOrder, MustPrecede
  <2> QED
    BY <1>0, <1>5, <2>3, <2>4, Receives
<1>6. CASE Moving
  BY <1>1, <1>6, MovingKeeps, RecordedKept DEF process, server
<1> QED
  BY <1>2, <1>3, <1>4, <1>5, <1>6, NextSplit

LEMMA FramesHaveTheirSessionStep ==
  ASSUME IInv, Next
  PROVE  FramesHaveTheirSession'
<1>0. TypeOK /\ TypeInv /\ FramesHaveTheirSession /\ RetentionInv
  BY DEF IInv, TypeInv, RetentionInv
<1>1. ASSUME retained' \cup journal' \subseteq retained \cup journal, createdAt' = createdAt
      PROVE  FramesHaveTheirSession'
  BY <1>0, <1>1 DEF FramesHaveTheirSession
<1>2. CASE Start
  <2>1. PICK now \in ClockReading(session + 1) : createdAt' = [createdAt EXCEPT ![session + 1] = now]
    BY <1>2 DEF Start
  <2>2. now # 0
    BY <1>0, <2>1, BoundsAssumption DEF ClockReading, TypeOK
  <2>3. retained' \subseteq journal /\ journal' = journal
    BY <1>2 DEF Start, Loadable
  <2>4. createdAt \in [Sessions -> 0 .. MaxSession]
    BY <1>0 DEF TypeOK
  <2>5. \A t \in Sessions : createdAt'[t] \in {createdAt[t], now}
    BY <2>1, <2>4
  <2>6. \A k \in journal : k[1] \in Sessions /\ createdAt[k[1]] # 0
    BY <1>0, KeyIsPair DEF FramesHaveTheirSession, TypeOK
  <2> QED
    BY <2>2, <2>3, <2>5, <2>6 DEF FramesHaveTheirSession
<1>3. CASE Crash
  BY <1>1, <1>3 DEF Crash, store
<1>4. CASE Record
  <2>1. /\ retained' \cup journal' \subseteq retained \cup journal \cup {<<session, numbered[session] + 1>>}
        /\ createdAt' = createdAt /\ alive
    BY <1>4 DEF Record
  <2>2. createdAt[session] # 0
    BY <1>0, <2>1 DEF RetentionInv
  <2> QED
    BY <1>0, <2>1, <2>2 DEF FramesHaveTheirSession
<1>5. CASE HandleAck
  <2> DEFINE s == Head(inQueue).session
             pos == Head(inQueue).pos
             rows == Uncovered(journal, s, pos)
  <2>1. retained' = Uncovered(retained, s, pos) /\ session' = session
    BY <1>5 DEF HandleAck
  <2>2. CASE journal' = rows /\ createdAt' = Pruned(createdAt, rows)
    <3>1. ASSUME NEW k \in retained' \cup journal'
          PROVE  k \in retained \cup journal /\ k[1] \in Sessions /\ (k[1] = session \/ k \in rows)
      <4>1. k \in retained \cup journal /\ k \in Keys
        BY <1>0, <2>1, <2>2, <3>1 DEF Uncovered, TypeOK
      <4>2. k \in retained' /\ k[1] # session => k \in rows
        BY <1>0, <2>1 DEF Uncovered, RetentionInv
      <4> QED
        BY <2>2, <3>1, <4>1, <4>2, KeyIsPair
    <3>2. \A k \in retained' \cup journal' : createdAt'[k[1]] = createdAt[k[1]]
      BY <2>2, <3>1 DEF Pruned
    <3> QED
      BY <1>0, <3>1, <3>2 DEF FramesHaveTheirSession
  <2>3. CASE createdAt' = createdAt
    <3>1. retained' \cup journal' \subseteq retained \cup journal
      BY <1>5 DEF HandleAck, Uncovered, store
    <3> QED
      BY <1>1, <2>3, <3>1
  <2> QED
    BY <1>5, <2>2, <2>3 DEF HandleAck, store
<1>6. CASE ServerReceive
  BY <1>0, <1>1, <1>6, Receives DEF process, store
<1>7. CASE Moving
  BY <1>1, <1>7, MovingKeeps DEF process, store
<1> QED
  BY <1>2, <1>3, <1>4, <1>5, <1>6, <1>7, NextSplit

\* Of the parts of RetentionInv: what the agent keeps was recorded, and is on disk
\* if it is an earlier session's or if nothing failed.
LEMMA RetentionStep ==
  ASSUME IInv, Next
  PROVE  RetentionInv'
<1>0. TypeOK /\ TypeInv /\ RetentionInv /\ SocketInv
  BY DEF IInv, TypeInv, RetentionInv
<1>1. createdAt \in [Sessions -> 0 .. MaxSession] /\ numbered \in [Sessions -> 0 .. MaxPos]
      /\ session \in 0 .. MaxSession
  BY <1>0 DEF TypeOK
<1>2. CASE Start
  <2>1. /\ retained' \subseteq journal /\ Recorded' = Recorded /\ UNCHANGED <<journal, projected, numbered>>
        /\ session' = session + 1 /\ session + 1 \in Sessions /\ alive' = TRUE
    BY <1>1, <1>2, RecordedKept, BoundsAssumption DEF Start, server, Loadable, Sessions
  <2>2. PICK now \in ClockReading(session + 1) : createdAt' = [createdAt EXCEPT ![session + 1] = now]
    BY <1>2 DEF Start
  <2>3. now # 0 /\ (~ClockStepsBack => now = session + 1)
    BY <1>1, <2>2, BoundsAssumption DEF ClockReading
  <2>4. createdAt'[session + 1] = now /\ \A t \in Sessions \ {session + 1} : createdAt'[t] = createdAt[t]
    BY <1>1, <2>1, <2>2
  <2>5. \A t \in Sessions : session' < t => session < t
    BY <1>1, <2>1, BoundsAssumption DEF Sessions
  <2>6. session' > 0
    BY <1>1, <2>1, BoundsAssumption
  <2> QED
    BY <1>0, <2>1, <2>3, <2>4, <2>5, <2>6 DEF RetentionInv
<1>3. CASE Crash
  BY <1>0, <1>3, RecordedKept DEF Crash, RetentionInv, store, server
<1>4. CASE Record
  <2> DEFINE key == <<session, numbered[session] + 1>>
  <2>1. Recorded' = Recorded \cup {key} /\ session \in Sessions
    BY <1>0, <1>4, RecordedGrows
  <2>2. /\ alive /\ UNCHANGED <<alive, session, createdAt, projected>>
        /\ retained' = retained \cup {key}
        /\ numbered' = [numbered EXCEPT ![session] = @ + 1]
        /\ \/ journal' = journal \cup {key}
           \/ StoreMayFail /\ journal' = journal
    BY <1>4 DEF Record, server
  <2>3. \A t \in Sessions : session < t => numbered'[t] = numbered[t]
    BY <1>1, <2>2, BoundsAssumption DEF Sessions
  <2> QED
    BY <1>0, <2>1, <2>2, <2>3 DEF RetentionInv
<1>5. CASE HandleAck
  <2> DEFINE s == Head(inQueue).session
             pos == Head(inQueue).pos
             rows == Uncovered(journal, s, pos)
  <2>1. /\ alive /\ UNCHANGED <<alive, session, numbered, projected>>
        /\ retained' = Uncovered(retained, s, pos)
        /\ \/ journal' = rows
           \/ StoreMayFail /\ journal' = journal
        /\ createdAt' \in {createdAt, Pruned(createdAt, rows)}
    BY <1>5 DEF HandleAck, server, store
  <2>2. Recorded' = Recorded
    BY <2>1, RecordedKept
  <2>3. \A t \in Sessions : createdAt'[t] \in {createdAt[t], 0}
    BY <2>1 DEF Pruned
  <2>4. session \in Sessions => createdAt'[session] = createdAt[session]
    BY <2>1 DEF Pruned
  <2>5. session \in Sessions
    BY <1>0, <1>1, <2>1, BoundsAssumption DEF RetentionInv, Sessions
  <2>6. retained' \cup journal' \subseteq retained \cup journal
    BY <2>1 DEF Uncovered
  <2>7. \A k \in retained' : k \in retained /\ (k \in journal => k \in journal')
    BY <2>1 DEF Uncovered
  <2> QED
    BY <1>0, <2>1, <2>2, <2>3, <2>4, <2>5, <2>6, <2>7 DEF RetentionInv
<1>6. CASE ServerReceive
  <2> DEFINE f == Head(wire)
  <2>1. /\ UNCHANGED <<process, store>> /\ wire # <<>>
        /\ \/ projected' = projected
           \/ f \in Keys /\ projected' = projected \cup {f}
    BY <1>0, <1>6, Receives DEF server
  <2>2. f \in Range(wire)
    BY <1>0, <2>1, RangeTail DEF TypeOK
  <2>3. f \in Keys => f \in Recorded
    BY <1>0, <2>2, FrameAssumption DEF SocketInv, Frames
  <2>4. Recorded' = Recorded
    BY <2>1, RecordedKept DEF process
  <2> QED
    BY <1>0, <2>1, <2>3, <2>4 DEF RetentionInv, process, store
<1>7. CASE Moving
  BY <1>0, <1>7, MovingKeeps, RecordedKept DEF process, store, server, RetentionInv
<1> QED
  BY <1>2, <1>3, <1>4, <1>5, <1>6, <1>7, NextSplit

\* An ack never promises more than the server's log holds.
LEMMA AckStep ==
  ASSUME IInv, Next
  PROVE  AckInv'
<1>0. TypeOK /\ AckInv
  BY DEF IInv
<1>1. /\ watermark \in [Sessions -> 0 .. MaxPos] /\ ackedPos \in [Sessions -> 0 .. MaxPos]
      /\ inQueue \in Seq(ServerMessages) /\ projected \subseteq Keys
  BY <1>0 DEF TypeOK
<1> DEFINE Covered(q) == \A m \in Range(q) : m.type = "JOURNAL_ACK" => m.pos <= watermark[m.session]
<1>2. ASSUME UNCHANGED <<server, ackedPos>>, Covered(inQueue')
      PROVE  AckInv'
  BY <1>0, <1>2 DEF AckInv, server
<1>3. Covered(inQueue)
  BY <1>0 DEF AckInv
<1>4. inQueue # <<>> => Covered(Tail(inQueue))
  BY <1>1, <1>3, RangeTail
<1> HIDE DEF Covered
<1>5. CASE Start \/ Record
  BY <1>2, <1>3, <1>5 DEF Start, Record
<1>6. CASE Crash
  <2>1. Covered(<<>>)
    BY RangeEmpty DEF Covered
  <2> QED
    BY <1>2, <1>6, <2>1 DEF Crash, store
<1>7. CASE HandleAck
  <2> DEFINE s == Head(inQueue).session
             pos == Head(inQueue).pos
             rows == Uncovered(journal, s, pos)
  <2>1. inQueue # <<>> /\ inQueue' = Tail(inQueue) /\ UNCHANGED server
        /\ ackedPos' \in {ackedPos, Raised(s, pos), Pruned(Raised(s, pos), rows)}
    BY <1>7 DEF HandleAck, store
  <2>2. s \in Sessions /\ pos \in 1 .. MaxPos /\ pos <= watermark[s]
    BY <1>0, <1>7, AckTakesLogged DEF IInv
  <2>3. \A t \in Sessions : 0 <= watermark[t] /\ ackedPos[t] <= watermark[t]
    BY <1>0, <1>1, BoundsAssumption DEF AckInv
  <2>4. \A t \in Sessions : Raised(s, pos)[t] <= watermark[t]
    BY <1>1, <2>2, <2>3 DEF Raised
  <2>5. \A t \in Sessions : Pruned(Raised(s, pos), rows)[t] <= watermark[t]
    BY <2>3, <2>4 DEF Pruned
  <2>6. \A t \in Sessions : ackedPos'[t] <= watermark[t]
    BY <2>1, <2>3, <2>4, <2>5
  <2>7. Covered(inQueue')
    BY <1>4, <2>1
  <2> QED
    BY <1>0, <2>1, <2>6, <2>7 DEF AckInv, server, Covered
<1>8. CASE ServerReceive
  <2> DEFINE f == Head(wire)
  <2>1. UNCHANGED <<process, store>> /\ inQueue' = inQueue
    BY <1>0, <1>8, Receives DEF ServerReceive
  <2>2. CASE UNCHANGED server
    BY <1>2, <1>3, <2>1, <2>2 DEF store
  <2>3. CASE /\ f \in Keys /\ watermark[f[1]] < f[2]
             /\ projected' = projected \cup {f}
             /\ watermark' = [watermark EXCEPT ![f[1]] = f[2]]
    <3>1. f[1] \in Sessions /\ f[2] \in 1 .. MaxPos /\ f = <<f[1], f[2]>>
      BY <2>3, KeyIsPair
    <3>2. watermark'[f[1]] = f[2] /\ \A t \in Sessions \ {f[1]} : watermark'[t] = watermark[t]
      BY <1>1, <2>3, <3>1
    <3>3. \A t \in Sessions : \A n \in 0 .. MaxPos : n <= watermark[t] => n <= watermark'[t]
      <4> TAKE t \in Sessions
      <4> TAKE n \in 0 .. MaxPos
      <4>1. n \in Int /\ watermark[t] \in Int /\ f[2] \in Int
        BY <1>1, <3>1, BoundsAssumption
      <4> QED
        BY <2>3, <3>2, <4>1
    <3>4. \A t \in Sessions : watermark'[t] > 0 => <<t, watermark'[t]>> \in projected'
      BY <1>0, <2>3, <3>1, <3>2 DEF AckInv
    <3>5. \A k \in projected' : k[2] <= watermark'[k[1]]
      <4>1. \A k \in projected : k[1] \in Sessions /\ k[2] \in 0 .. MaxPos /\ k[2] <= watermark[k[1]]
        BY <1>0, <1>1, KeyIsPair, BoundsAssumption DEF AckInv
      <4>2. f[2] <= watermark'[f[1]]
        BY <3>1, <3>2, BoundsAssumption
      <4> QED
        BY <2>3, <3>3, <4>1, <4>2
    <3>6. \A t \in Sessions : ackedPos'[t] <= watermark'[t]
      BY <1>0, <1>1, <2>1, <3>3 DEF AckInv, store
    <3>7. \A m \in Range(inQueue') : m.type = "JOURNAL_ACK" => m.pos <= watermark'[m.session]
      <4> TAKE m \in Range(inQueue')
      <4> HAVE m.type = "JOURNAL_ACK"
      <4>1. m \in ServerMessages
        BY <1>1, <2>1 DEF Range
      <4>2. m.session \in Sessions /\ m.pos \in 0 .. MaxPos
        BY <4>1, BoundsAssumption DEF ServerMessages
      <4>3. m.pos <= watermark[m.session]
        BY <1>3, <2>1 DEF Covered
      <4> QED
        BY <3>3, <4>2, <4>3
    <3> QED
      BY <3>4, <3>5, <3>6, <3>7 DEF AckInv
  <2> QED
    BY <1>0, <1>8, <2>2, <2>3, Receives
<1>9. CASE Moving
  <2>1. UNCHANGED <<server, ackedPos>>
    BY <1>9, MovingKeeps DEF store
  <2>2. CASE inQueue' = inQueue \/ (inQueue # <<>> /\ inQueue' = Tail(inQueue))
    BY <1>2, <1>3, <1>4, <2>1, <2>2
  <2>3. CASE ServerInit
    <3>1. [type |-> "INIT"] \in ServerMessages /\ inQueue' = Append(inQueue, [type |-> "INIT"])
      BY <2>3 DEF ServerInit, ServerMessages
    <3>2. Range(inQueue') = Range(inQueue) \cup {[type |-> "INIT"]}
      BY <1>1, <3>1, RangeAppend
    <3>3. Covered(inQueue')
      BY <1>3, <3>2 DEF Covered
    <3> QED
      BY <1>2, <2>1, <3>3
  <2>4. ASSUME NEW s \in Sessions, ServerAck(s)
        PROVE  AckInv'
    <3> DEFINE m == [type |-> "JOURNAL_ACK", session |-> s, pos |-> watermark[s]]
    <3>1. watermark[s] \in 1 .. MaxPos
      BY <1>1, <2>4, BoundsAssumption DEF ServerAck
    <3>2. m \in ServerMessages /\ inQueue' = Append(inQueue, m)
      BY <2>4, <3>1 DEF ServerAck, ServerMessages
    <3>3. Range(inQueue') = Range(inQueue) \cup {m}
      BY <1>1, <3>2, RangeAppend
    <3>4. Covered(inQueue')
      BY <1>3, <3>1, <3>3, BoundsAssumption DEF Covered
    <3> QED
      BY <1>2, <2>1, <3>4
  <2> QED
    BY <1>9, <2>2, <2>3, <2>4 DEF Moving, SendPlain, ResendReport, Connect, Drop, SendHeld,
       SendQueued, Sent, SendFails, HandleInit
<1> QED
  BY <1>5, <1>6, <1>7, <1>8, <1>9, NextSplit

\* What is on the socket or in line for it was recorded, and nothing of it outlives
\* its connection or its process.
LEMMA SocketStep ==
  ASSUME IInv, Next
  PROVE  SocketInv'
<1>0. TypeOK /\ TypeInv /\ RetentionInv /\ SocketInv
  BY DEF IInv, TypeInv, RetentionInv
<1>1. /\ wire \in Seq(Frames) /\ sendQueue \in Seq(Frames)
      /\ held \in Frames \cup {NoFrame} /\ inFlight \in Frames \cup {NoFrame}
  BY <1>0 DEF TypeOK
<1> DEFINE Known == Recorded \cup {Plain, NoFrame}
<1>2. Range(wire) \cup Range(sendQueue) \cup {held, inFlight} \subseteq Known
  BY <1>0 DEF SocketInv
<1>3. Plain \in Frames /\ NoFrame \notin Frames
  BY FrameAssumption DEF Frames
<1>4. Range(<<>>) = {}
  BY RangeEmpty
<1> HIDE DEF Known
<1>5. ASSUME Known \subseteq Known'
      PROVE  Range(wire) \cup Range(sendQueue) \cup {held, inFlight} \subseteq Known'
  BY <1>2, <1>5
<1>6. ASSUME /\ (up => alive)' /\ (sender => up)' /\ (released => up)'
             /\ (~alive => sendQueue = <<>> /\ held = NoFrame /\ inQueue = <<>>)'
             /\ (~released => wire = <<>> /\ inFlight = NoFrame)'
             /\ (inFlight # NoFrame => sender /\ held = NoFrame)',
             Range(wire') \cup Range(sendQueue') \cup {held', inFlight'} \subseteq Known'
      PROVE  SocketInv'
  BY <1>6 DEF SocketInv, Known
<1>7. numbered' = numbered => Known' = Known
  BY RecordedKept DEF Known
<1>8. CASE Start
  BY <1>0, <1>2, <1>6, <1>7, <1>8 DEF Start, SocketInv, outbound, connection
<1>9. CASE Crash
  <2>1. Range(wire') \cup Range(sendQueue') \cup {held', inFlight'} \subseteq Known'
    BY <1>4, <1>9 DEF Crash, Known
  <2> QED
    BY <1>0, <1>6, <1>9, <2>1 DEF Crash, SocketInv
<1>10. CASE Record
  <2> DEFINE key == <<session, numbered[session] + 1>>
  <2>1. key \in Keys /\ Recorded' = Recorded \cup {key}
    BY <1>0, <1>10, RecordedGrows
  <2>2. sendQueue' = Append(sendQueue, key) /\ alive
        /\ UNCHANGED <<alive, wire, held, inFlight, inQueue, up, sender, released>>
    BY <1>10 DEF Record, connection
  <2>3. Range(sendQueue') = Range(sendQueue) \cup {key}
    BY <1>1, <2>1, <2>2, RangeAppend DEF Frames
  <2>4. Range(wire') \cup Range(sendQueue') \cup {held', inFlight'} \subseteq Known'
    BY <1>2, <2>1, <2>2, <2>3 DEF Known
  <2> QED
    BY <1>0, <1>6, <2>2, <2>4 DEF SocketInv
<1>11. CASE HandleAck
  BY <1>0, <1>2, <1>6, <1>7, <1>11 DEF HandleAck, SocketInv, outbound, connection
<1>12. CASE ServerReceive
  <2>1. wire # <<>> /\ wire' = Tail(wire) /\ numbered' = numbered
        /\ UNCHANGED <<alive, sendQueue, held, inFlight, inQueue, up, sender, released>>
    BY <1>0, <1>12, Receives DEF ServerReceive, process, connection
  <2>2. Range(wire') \subseteq Range(wire)
    BY <1>1, <2>1, RangeTail
  <2> QED
    BY <1>0, <1>2, <1>6, <1>7, <2>1, <2>2 DEF SocketInv
<1>13. CASE Moving
  <2>1. numbered' = numbered /\ alive' = alive /\ Known' = Known
    BY <1>7, <1>13, MovingKeeps DEF process
  <2>2. CASE SendPlain
    <3>1. Range(sendQueue') = Range(sendQueue) \cup {Plain}
      BY <1>1, <1>3, <2>2, RangeAppend DEF SendPlain
    <3>2. Range(wire') \cup Range(sendQueue') \cup {held', inFlight'} \subseteq Known'
      BY <1>2, <2>1, <2>2, <3>1 DEF SendPlain, Known
    <3> QED
      BY <1>0, <1>6, <2>1, <2>2, <3>2 DEF SendPlain, SocketInv, connection
  <2>3. CASE ResendReport
    <3>1. PICK key \in retained : sendQueue' = Append(sendQueue, key)
      BY <2>3 DEF ResendReport
    <3>2. key \in Frames /\ key \in Recorded
      BY <1>0 DEF RetentionInv, Recorded, Frames
    <3>3. Range(sendQueue') = Range(sendQueue) \cup {key}
      BY <1>1, <3>1, <3>2, RangeAppend
    <3>4. Range(wire') \cup Range(sendQueue') \cup {held', inFlight'} \subseteq Known'
      BY <1>2, <2>1, <2>3, <3>2, <3>3 DEF ResendReport, Known
    <3> QED
      BY <1>0, <1>6, <2>1, <2>3, <3>4 DEF ResendReport, SocketInv, connection
  <2>4. CASE Connect
    BY <1>0, <1>2, <1>6, <2>1, <2>4 DEF Connect, SocketInv, outbound
  <2>5. CASE Drop
    <3>1. Range(wire') \cup Range(sendQueue') \cup {held', inFlight'} \subseteq Known'
      BY <1>2, <1>4, <2>1, <2>5 DEF Drop, Requeued, Known
    <3> QED
      BY <1>0, <1>6, <2>1, <2>5, <3>1 DEF Drop, SocketInv
  <2>6. CASE SendHeld
    <3>1. held \in Frames /\ wire' = Append(wire, held)
      BY <1>1, <2>6 DEF SendHeld
    <3>2. Range(wire') = Range(wire) \cup {held}
      BY <1>1, <3>1, RangeAppend
    <3>3. Range(wire') \cup Range(sendQueue') \cup {held', inFlight'} \subseteq Known'
      BY <1>2, <2>1, <2>6, <3>2 DEF SendHeld, Known
    <3> QED
      BY <1>0, <1>6, <2>1, <2>6, <3>3 DEF SendHeld, MaySend, SocketInv, connection
  <2>7. CASE SendQueued
    <3>1. sendQueue # <<>> /\ sendQueue' = Tail(sendQueue) /\ wire' = Append(wire, Head(sendQueue))
          /\ inFlight' = Head(sendQueue)
      BY <2>7 DEF SendQueued
    <3>2. Head(sendQueue) \in Frames /\ Range(sendQueue) = {Head(sendQueue)} \cup Range(sendQueue')
      BY <1>1, <3>1, RangeTail
    <3>3. Range(wire') = Range(wire) \cup {Head(sendQueue)}
      BY <1>1, <3>1, <3>2, RangeAppend
    <3>4. Range(wire') \cup Range(sendQueue') \cup {held', inFlight'} \subseteq Known'
      BY <1>2, <2>1, <2>7, <3>1, <3>2, <3>3 DEF SendQueued
    <3> QED
      BY <1>0, <1>6, <2>1, <2>7, <3>4 DEF SendQueued, MaySend, SocketInv, connection
  <2>8. CASE Sent
    <3>1. Range(wire') \cup Range(sendQueue') \cup {held', inFlight'} \subseteq Known'
      BY <1>2, <2>1, <2>8 DEF Sent, Known
    <3> QED
      BY <1>0, <1>6, <2>1, <2>8, <3>1 DEF Sent, SocketInv, connection
  <2>9. CASE SendFails
    <3>1. Range(wire') \cup Range(sendQueue') \cup {held', inFlight'} \subseteq Known'
      BY <1>2, <2>1, <2>9 DEF SendFails, Requeued, Known
    <3> QED
      BY <1>0, <1>6, <2>1, <2>9, <3>1 DEF SendFails, SocketInv
  <2>10. CASE HandleInit
    <3>1. PICK q \in ResendOrders : sendQueue' = KeptQueue \o q
      BY <2>10 DEF HandleInit
    <3>2. KeptQueue \in Seq({Plain}) /\ q \in Seq(retained) /\ Range(q) = retained
      BY <1>0, ResendIsQueue, ResendHoldsRetained
    <3>3. KeptQueue \in Seq({Plain} \cup retained) /\ q \in Seq({Plain} \cup retained)
      BY <3>2
    <3>4. Range(sendQueue') = Range(KeptQueue) \cup Range(q)
      BY <3>1, <3>3, RangeConcat
    <3>5. Range(KeptQueue) \subseteq {Plain}
      BY <3>2 DEF Range
    <3>6. retained \subseteq Recorded
      BY <1>0 DEF RetentionInv
    <3>7. Range(wire') \cup Range(sendQueue') \cup {held', inFlight'} \subseteq Known'
      BY <1>2, <2>1, <2>10, <3>2, <3>4, <3>5, <3>6 DEF HandleInit, KeptHeld, Known
    <3>8. inFlight' # NoFrame => held' = NoFrame
      BY <1>0, <1>3, <2>10 DEF HandleInit, KeptHeld, SocketInv
    <3> QED
      BY <1>0, <1>6, <2>1, <2>10, <3>7, <3>8 DEF HandleInit, SocketInv
  <2>11. CASE ServerInit
    BY <1>0, <1>2, <1>6, <2>1, <2>11 DEF ServerInit, SocketInv, outbound
  <2>12. ASSUME NEW s \in Sessions, ServerAck(s)
         PROVE  SocketInv'
    BY <1>0, <1>2, <1>6, <2>1, <2>12 DEF ServerAck, SocketInv, outbound, connection
  <2> QED
    BY <1>13, <2>2, <2>3, <2>4, <2>5, <2>6, <2>7, <2>8, <2>9, <2>10, <2>11, <2>12 DEF Moving
<1> QED
  BY <1>8, <1>9, <1>10, <1>11, <1>12, <1>13, NextSplit

-----------------------------------------------------------------------------
(* The line of frames.                                                     *)

\* Owed, in the next state.
OwedNext(f) == {k \in Recorded' : MustPrecede(k, f)} \ lost'

\* LineInv in the next state, with every prime spelled out.
LEMMA LineNext ==
  ASSUME released' => Recorded' \ lost' \subseteq
            projected' \cup Range(wire') \cup {held'} \cup Range(sendQueue'),
         \A i \in DOMAIN wire' : wire'[i] \in Keys =>
            OwedNext(wire'[i]) \subseteq projected' \cup Ahead(wire', i),
         released' => \A f \in {held', inFlight'} \cap Keys :
            OwedNext(f) \subseteq projected' \cup Range(wire'),
         released' => \A i \in DOMAIN sendQueue' : sendQueue'[i] \in Keys =>
            OwedNext(sendQueue'[i]) \subseteq
               projected' \cup Range(wire') \cup {held'} \cup Ahead(sendQueue', i)
  PROVE  LineInv'
<1>1. LineComplete'
  BY DEF LineComplete
<1>2. WireInOrder'
  BY DEF WireInOrder, Owed, OwedNext
<1>3. HeldInOrder'
  BY DEF HeldInOrder, Owed, OwedNext
<1>4. QueueInOrder'
  BY DEF QueueInOrder, Owed, OwedNext
<1> QED
  BY <1>1, <1>2, <1>3, <1>4 DEF LineInv

\* A frame is owed no more than before, unless a new one is recorded.
LEMMA OwedShrinks ==
  ASSUME numbered' = numbered, lost \subseteq lost'
  PROVE  /\ \A f : OwedNext(f) \subseteq Owed(f)
         /\ Recorded' \ lost' \subseteq Recorded \ lost
  BY RecordedKept DEF Owed, OwedNext

\* Without a released connection the line promises nothing, and nothing is on the
\* wire.
LEMMA LineDown ==
  ASSUME ~released', wire' = <<>>
  PROVE  LineInv'
  BY LineNext, RangeEmpty

\* A frame that joins the end of the queue finds everything it must follow in the
\* log or in the line.
LEMMA LineGrows ==
  ASSUME IInv, NEW x \in Frames, sendQueue' = Append(sendQueue, x),
         UNCHANGED <<projected, lost, wire, held, inFlight, released>>,
         x \in Keys => OwedNext(x) \subseteq Recorded \ lost,
         \A f \in Recorded : OwedNext(f) \subseteq Owed(f),
         Recorded' \subseteq Recorded \cup {x}
  PROVE  LineInv'
<1>1. /\ LineComplete /\ WireInOrder /\ HeldInOrder /\ QueueInOrder
      /\ Range(wire) \cup Range(sendQueue) \cup {held, inFlight} \subseteq Recorded \cup {Plain, NoFrame}
      /\ sendQueue \in Seq(Frames) /\ wire \in Seq(Frames)
  BY DEF IInv, LineInv, SocketInv, TypeOK
<1>2. Plain \notin Keys /\ NoFrame \notin Keys
  BY FrameAssumption DEF Frames
<1>3. /\ \A f \in (Range(wire) \cup Range(sendQueue) \cup {held, inFlight}) \cap Keys : f \in Recorded
      /\ \A i \in DOMAIN wire : wire[i] \in Range(wire)
      /\ \A i \in DOMAIN sendQueue : sendQueue[i] \in Range(sendQueue)
  BY <1>1, <1>2 DEF Range
<1>4. Range(sendQueue') = Range(sendQueue) \cup {x}
  BY <1>1, RangeAppend
<1>5. released' => Recorded' \ lost' \subseteq
         projected' \cup Range(wire') \cup {held'} \cup Range(sendQueue')
  BY <1>1, <1>4 DEF LineComplete
<1>6. \A i \in DOMAIN wire' : wire'[i] \in Keys =>
         OwedNext(wire'[i]) \subseteq projected' \cup Ahead(wire', i)
  BY <1>1, <1>3 DEF WireInOrder
<1>7. released' => \A f \in {held', inFlight'} \cap Keys :
         OwedNext(f) \subseteq projected' \cup Range(wire')
  BY <1>1, <1>3 DEF HeldInOrder
<1>8. ASSUME released', NEW i \in DOMAIN sendQueue', sendQueue'[i] \in Keys
      PROVE  OwedNext(sendQueue'[i]) \subseteq
                projected' \cup Range(wire') \cup {held'} \cup Ahead(sendQueue', i)
  <2>1. DOMAIN sendQueue' = 1 .. Len(sendQueue) + 1 /\ DOMAIN sendQueue = 1 .. Len(sendQueue)
        /\ Len(sendQueue) \in Nat
    BY <1>1
  <2>2. CASE i = Len(sendQueue) + 1
    <3>1. sendQueue'[i] = x /\ Ahead(sendQueue', i) = Range(sendQueue)
      BY <1>1, <2>2, RangeAppend
    <3> QED
      BY <1>1, <1>8, <3>1 DEF LineComplete
  <2>3. CASE i \in DOMAIN sendQueue
    <3>1. sendQueue'[i] = sendQueue[i] /\ Ahead(sendQueue', i) = Ahead(sendQueue, i)
      BY <1>1, <2>3, RangeAppend
    <3>2. Owed(sendQueue[i]) \subseteq projected \cup Range(wire) \cup {held} \cup Ahead(sendQueue, i)
      BY <1>1, <1>8, <2>3, <3>1 DEF QueueInOrder
    <3> QED
      BY <1>3, <1>8, <2>3, <3>1, <3>2
  <2> QED
    BY <2>1, <2>2, <2>3
<1> QED
  BY <1>5, <1>6, <1>7, <1>8, LineNext

\* A new frame must follow only what was recorded before it.
LEMMA NewestOwes ==
  ASSUME TypeInv, RetentionInv, Record
  PROVE  LET key == <<session, numbered[session] + 1>>
         IN  /\ key \in Frames /\ sendQueue' = Append(sendQueue, key)
             /\ OwedNext(key) \subseteq Recorded \ lost
             /\ \A f \in Recorded : OwedNext(f) \subseteq Owed(f)
             /\ Recorded' \subseteq Recorded \cup {key}
<1> DEFINE key == <<session, numbered[session] + 1>>
<1>1. key \in Keys /\ Recorded' = Recorded \cup {key}
  BY RecordedGrows
<1>2. key \in Frames
  BY <1>1 DEF Frames
<1>3. key[1] \in Nat /\ key[2] \in Nat
  BY <1>1, KeyIsPair, BoundsAssumption DEF Sessions
<1>4. ~MustPrecede(key, key)
  BY <1>3 DEF MustPrecede
<1>5. sendQueue' = Append(sendQueue, key) /\ lost' = lost
  BY DEF Record
<1>6. OwedNext(key) \subseteq Recorded \ lost
  BY <1>1, <1>4, <1>5 DEF OwedNext
<1>7. \A f \in Recorded : OwedNext(f) \subseteq Owed(f)
  BY <1>5, NewestIsLast DEF OwedNext, Owed
<1> QED
  BY <1>1, <1>2, <1>5, <1>6, <1>7

\* What holds of the line as it is, for the lemmas on the steps that move frames.
LEMMA LineNow ==
  ASSUME IInv
  PROVE  /\ LineComplete /\ WireInOrder /\ HeldInOrder /\ QueueInOrder
         /\ sendQueue \in Seq(Frames) /\ wire \in Seq(Frames)
         /\ held \in Frames \cup {NoFrame} /\ inFlight \in Frames \cup {NoFrame}
         /\ Plain \notin Keys /\ NoFrame \notin Keys /\ Plain # NoFrame
         /\ Recorded \subseteq Keys
         /\ \A f : Owed(f) \subseteq Recorded
  BY FrameAssumption DEF IInv, LineInv, TypeOK, Frames, Owed, Recorded

\* The head of the line moves to the end of the wire: what it must follow is ahead
\* of it there.
LEMMA LineSends ==
  ASSUME IInv, NEW h \in Frames, released, wire' = Append(wire, h),
         UNCHANGED <<projected, lost, numbered, released>>,
         h \in Keys => Owed(h) \subseteq projected \cup Range(wire),
         inFlight' = h, held' = NoFrame,
         \/ h = held /\ sendQueue' = sendQueue
         \/ held = NoFrame /\ sendQueue # <<>> /\ h = Head(sendQueue) /\ sendQueue' = Tail(sendQueue)
  PROVE  LineInv'
<1>1. /\ \A f : OwedNext(f) \subseteq Owed(f) /\ Owed(f) \subseteq Recorded
      /\ Recorded' \ lost' = Recorded \ lost
      /\ LineComplete /\ WireInOrder /\ HeldInOrder /\ QueueInOrder
      /\ sendQueue \in Seq(Frames) /\ wire \in Seq(Frames)
      /\ Plain \notin Keys /\ NoFrame \notin Keys /\ Recorded \subseteq Keys
  BY OwedShrinks, LineNow, RecordedKept
<1>2. /\ Range(wire') = Range(wire) \cup {h} /\ Ahead(wire', Len(wire) + 1) = Range(wire)
      /\ \A i \in DOMAIN wire : Ahead(wire', i) = Ahead(wire, i)
  BY <1>1, RangeAppend
<1>3. /\ DOMAIN wire' = 1 .. Len(wire) + 1 /\ DOMAIN wire = 1 .. Len(wire) /\ Len(wire) \in Nat
      /\ wire'[Len(wire) + 1] = h /\ \A i \in DOMAIN wire : wire'[i] = wire[i]
  BY <1>1
<1>4. Range(sendQueue) \cup {held} \subseteq Range(sendQueue') \cup {h, NoFrame}
  <2>1. CASE h = held /\ sendQueue' = sendQueue
    BY <2>1
  <2>2. CASE held = NoFrame /\ sendQueue # <<>> /\ h = Head(sendQueue) /\ sendQueue' = Tail(sendQueue)
    <3>1. Range(sendQueue) = {h} \cup Range(sendQueue')
      BY <1>1, <2>2, RangeTail
    <3> QED
      BY <2>2, <3>1
  <2> QED
    BY <2>1, <2>2
<1>5. released' => Recorded' \ lost' \subseteq
         projected' \cup Range(wire') \cup {held'} \cup Range(sendQueue')
  BY <1>1, <1>2, <1>4 DEF LineComplete
<1>6. ASSUME NEW i \in DOMAIN wire', wire'[i] \in Keys
      PROVE  OwedNext(wire'[i]) \subseteq projected' \cup Ahead(wire', i)
  <2>1. CASE i = Len(wire) + 1
    BY <1>1, <1>2, <1>3, <1>6, <2>1
  <2>2. CASE i \in DOMAIN wire
    BY <1>1, <1>2, <1>3, <1>6, <2>2 DEF WireInOrder
  <2> QED
    BY <1>3, <2>1, <2>2
<1>7. released' => \A f \in {held', inFlight'} \cap Keys :
         OwedNext(f) \subseteq projected' \cup Range(wire')
  BY <1>1, <1>2
<1>8. ASSUME released', NEW i \in DOMAIN sendQueue', sendQueue'[i] \in Keys
      PROVE  OwedNext(sendQueue'[i]) \subseteq
                projected' \cup Range(wire') \cup {held'} \cup Ahead(sendQueue', i)
  <2>1. CASE h = held /\ sendQueue' = sendQueue
    BY <1>1, <1>2, <1>8, <2>1 DEF QueueInOrder
  <2>2. CASE held = NoFrame /\ sendQueue # <<>> /\ h = Head(sendQueue) /\ sendQueue' = Tail(sendQueue)
    <3>1. /\ i + 1 \in DOMAIN sendQueue /\ sendQueue'[i] = sendQueue[i + 1]
          /\ Ahead(sendQueue, i + 1) = {h} \cup Ahead(sendQueue', i)
      BY <1>1, <1>8, <2>2, RangeTail
    <3>2. Owed(sendQueue[i + 1]) \subseteq projected \cup Range(wire) \cup {held} \cup Ahead(sendQueue, i + 1)
      BY <1>1, <1>8, <3>1 DEF QueueInOrder
    <3> QED
      BY <1>1, <1>2, <2>2, <3>1, <3>2
  <2> QED
    BY <2>1, <2>2
<1> QED
  BY <1>5, <1>6, <1>7, <1>8, LineNext

\* client.send returns, or raises and its frame is held again.
LEMMA LineSettles ==
  ASSUME IInv, Sent \/ SendFails
  PROVE  LineInv'
<1>1. /\ UNCHANGED <<projected, lost, numbered, released, wire, sendQueue>>
      /\ inFlight # NoFrame /\ inFlight' = NoFrame /\ held' \in {held, inFlight}
      /\ held = NoFrame
  BY DEF Sent, SendFails, Requeued, connection, server, process, IInv, SocketInv
<1>2. /\ \A f : OwedNext(f) \subseteq Owed(f) /\ Owed(f) \subseteq Recorded
      /\ Recorded' \ lost' = Recorded \ lost
      /\ LineComplete /\ WireInOrder /\ HeldInOrder /\ QueueInOrder
      /\ NoFrame \notin Keys /\ Recorded \subseteq Keys
  BY <1>1, OwedShrinks, LineNow, RecordedKept
<1>3. released' => Recorded' \ lost' \subseteq
         projected' \cup Range(wire') \cup {held'} \cup Range(sendQueue')
  BY <1>1, <1>2 DEF LineComplete
<1>4. \A i \in DOMAIN wire' : wire'[i] \in Keys =>
         OwedNext(wire'[i]) \subseteq projected' \cup Ahead(wire', i)
  BY <1>1, <1>2 DEF WireInOrder
<1>5. released' => \A f \in {held', inFlight'} \cap Keys :
         OwedNext(f) \subseteq projected' \cup Range(wire')
  BY <1>1, <1>2 DEF HeldInOrder
<1>6. released' => \A i \in DOMAIN sendQueue' : sendQueue'[i] \in Keys =>
         OwedNext(sendQueue'[i]) \subseteq
            projected' \cup Range(wire') \cup {held'} \cup Ahead(sendQueue', i)
  BY <1>1, <1>2 DEF QueueInOrder
<1> QED
  BY <1>3, <1>4, <1>5, <1>6, LineNext

\* Once Init is handled the queue is everything retained, in the log's order.
LEMMA LineRebuilt ==
  ASSUME IInv, HandleInit
  PROVE  LineInv'
<1>0. TypeOK /\ NoFrameLost /\ FramesHaveTheirSession /\ RetentionInv /\ SocketInv
  BY DEF IInv
<1>1. PICK q \in ResendOrders : sendQueue' = KeptQueue \o q
  BY DEF HandleInit
<1>2. /\ UNCHANGED <<projected, lost, numbered, wire, inFlight>>
      /\ alive /\ released' = up /\ held' \in {Plain, NoFrame}
  BY DEF HandleInit, KeptHeld, server, process
<1>3. /\ \A f : OwedNext(f) \subseteq Owed(f) /\ Owed(f) \subseteq Recorded
      /\ Recorded' \ lost' = Recorded \ lost
      /\ LineComplete /\ WireInOrder /\ HeldInOrder /\ QueueInOrder
      /\ Plain \notin Keys /\ NoFrame \notin Keys /\ Recorded \subseteq Keys
  BY <1>2, OwedShrinks, LineNow, RecordedKept
<1>4. KeptQueue \in Seq({Plain}) /\ q \in Seq(retained) /\ Range(q) = retained
  BY <1>0, ResendIsQueue, ResendHoldsRetained
<1>5. KeptQueue \in Seq({Plain} \cup retained) /\ q \in Seq({Plain} \cup retained)
  BY <1>4
<1>6. Recorded \ lost \subseteq projected \cup retained
  BY <1>0, <1>2 DEF NoFrameLost
<1>7. Range(sendQueue') = Range(KeptQueue) \cup retained
  BY <1>1, <1>4, <1>5, RangeConcat
<1>8. released' => Recorded' \ lost' \subseteq
         projected' \cup Range(wire') \cup {held'} \cup Range(sendQueue')
  BY <1>2, <1>3, <1>6, <1>7
<1>9. \A i \in DOMAIN wire' : wire'[i] \in Keys =>
         OwedNext(wire'[i]) \subseteq projected' \cup Ahead(wire', i)
  BY <1>2, <1>3 DEF WireInOrder
<1>10. released' => \A f \in {held', inFlight'} \cap Keys :
          OwedNext(f) \subseteq projected' \cup Range(wire')
  <2>1. ~released => inFlight \notin Keys
    BY <1>0, <1>3 DEF SocketInv
  <2> QED
    BY <1>2, <1>3, <2>1 DEF HeldInOrder
<1>11. ASSUME NEW i \in DOMAIN sendQueue', sendQueue'[i] \in Keys
       PROVE  OwedNext(sendQueue'[i]) \subseteq
                 projected' \cup Range(wire') \cup {held'} \cup Ahead(sendQueue', i)
  <2> DEFINE j == i - Len(KeptQueue)
  <2>1. ~(i \in DOMAIN KeptQueue /\ sendQueue'[i] = KeptQueue[i])
    BY <1>3, <1>4, <1>11
  <2>2. j \in DOMAIN q /\ sendQueue'[i] = q[j] /\ Ahead(q, j) \subseteq Ahead(sendQueue', i)
    BY <1>1, <1>5, <1>11, <2>1, RangeConcat
  <2>3. \A k \in retained : MustPrecede(k, q[j]) => k \in Ahead(q, j)
    BY <1>0, <2>2, ResendInOrder
  <2>4. Owed(q[j]) \subseteq projected \cup Ahead(q, j)
    BY <1>6, <2>3 DEF Owed
  <2> QED
    BY <1>2, <1>3, <2>2, <2>4
<1> QED
  BY <1>8, <1>9, <1>10, <1>11, LineNext

\* The server reads the head of the wire: it is in the log then, or it was given up.
LEMMA LineReceives ==
  ASSUME IInv, ServerReceive
  PROVE  LineInv'
<1> DEFINE h == Head(wire)
<1>0. TypeOK /\ LogInOrder /\ AckInv /\ SocketInv
  BY DEF IInv
<1>1. /\ UNCHANGED <<lost, numbered, released, sendQueue, held, inFlight>>
      /\ wire # <<>> /\ wire' = Tail(wire) /\ projected \subseteq projected'
  BY <1>0, Receives DEF ServerReceive, connection, process, server
<1>2. /\ \A f : OwedNext(f) \subseteq Owed(f) /\ Owed(f) \subseteq Recorded \ lost
      /\ Recorded' \ lost' = Recorded \ lost
      /\ LineComplete /\ WireInOrder /\ HeldInOrder /\ QueueInOrder
      /\ wire \in Seq(Frames) /\ Recorded \subseteq Keys
  BY <1>1, OwedShrinks, LineNow, RecordedKept DEF Owed
<1>3. h \in Recorded \ lost => h \in projected'
  <2>1. h \in Keys /\ UNCHANGED server => h[2] <= watermark[h[1]]
    BY <1>0, Receives
  <2>2. UNCHANGED server \/ projected' = projected \cup {h}
    BY <1>0, Receives
  <2> QED
    BY <1>0, <1>1, <1>2, <2>1, <2>2, CoveredIsLogged
<1>4. /\ Range(wire) = {h} \cup Range(wire')
      /\ \A i \in DOMAIN wire' : /\ i + 1 \in DOMAIN wire /\ wire'[i] = wire[i + 1]
                                 /\ Ahead(wire, i + 1) = {h} \cup Ahead(wire', i)
  BY <1>1, <1>2, RangeTail
<1>5. released' => Recorded' \ lost' \subseteq
         projected' \cup Range(wire') \cup {held'} \cup Range(sendQueue')
  BY <1>1, <1>2, <1>3, <1>4 DEF LineComplete
<1>6. ASSUME NEW i \in DOMAIN wire', wire'[i] \in Keys
      PROVE  OwedNext(wire'[i]) \subseteq projected' \cup Ahead(wire', i)
  <2>1. Owed(wire[i + 1]) \subseteq projected \cup Ahead(wire, i + 1)
    BY <1>2, <1>4, <1>6 DEF WireInOrder
  <2> QED
    BY <1>1, <1>2, <1>3, <1>4, <1>6, <2>1
<1>7. released' => \A f \in {held', inFlight'} \cap Keys :
         OwedNext(f) \subseteq projected' \cup Range(wire')
  BY <1>1, <1>2, <1>3, <1>4 DEF HeldInOrder
<1>8. released' => \A i \in DOMAIN sendQueue' : sendQueue'[i] \in Keys =>
         OwedNext(sendQueue'[i]) \subseteq
            projected' \cup Range(wire') \cup {held'} \cup Ahead(sendQueue', i)
  BY <1>1, <1>2, <1>3, <1>4 DEF QueueInOrder
<1> QED
  BY <1>5, <1>6, <1>7, <1>8, LineNext

LEMMA LineStep ==
  ASSUME IInv, Next
  PROVE  LineInv'
<1>0. /\ TypeOK /\ TypeInv /\ NoFrameLost /\ RetentionInv /\ SocketInv
      /\ LineInv /\ LineComplete /\ WireInOrder /\ HeldInOrder /\ QueueInOrder
  BY DEF IInv, TypeInv, RetentionInv, LineInv
<1>1. ASSUME UNCHANGED <<numbered, projected, lost, outbound, released>>
      PROVE  LineInv'
  <2>1. Recorded' = Recorded /\ \A f : OwedNext(f) \subseteq Owed(f)
    BY <1>1, OwedShrinks, RecordedKept
  <2>2. released' => Recorded' \ lost' \subseteq
           projected' \cup Range(wire') \cup {held'} \cup Range(sendQueue')
    BY <1>0, <1>1, <2>1 DEF LineComplete, outbound
  <2>3. \A i \in DOMAIN wire' : wire'[i] \in Keys =>
           OwedNext(wire'[i]) \subseteq projected' \cup Ahead(wire', i)
    BY <1>0, <1>1, <2>1 DEF WireInOrder, outbound
  <2>4. released' => \A f \in {held', inFlight'} \cap Keys :
           OwedNext(f) \subseteq projected' \cup Range(wire')
    BY <1>0, <1>1, <2>1 DEF HeldInOrder, outbound
  <2>5. released' => \A i \in DOMAIN sendQueue' : sendQueue'[i] \in Keys =>
           OwedNext(sendQueue'[i]) \subseteq
              projected' \cup Range(wire') \cup {held'} \cup Ahead(sendQueue', i)
    BY <1>0, <1>1, <2>1 DEF QueueInOrder, outbound
  <2> QED
    BY <2>2, <2>3, <2>4, <2>5, LineNext
<1>2. CASE Start
  BY <1>0, <1>2, LineDown DEF Start, SocketInv, outbound, connection
<1>3. CASE Crash
  BY <1>3, LineDown DEF Crash
<1>4. CASE Record
  <2>1. UNCHANGED <<projected, lost, wire, held, inFlight, released>>
    BY <1>4 DEF Record, server, connection
  <2> QED
    BY <1>0, <1>4, <2>1, NewestOwes, LineGrows
<1>5. CASE HandleAck
  BY <1>1, <1>5 DEF HandleAck, server, connection
<1>6. CASE ServerReceive
  BY <1>6, LineReceives
<1>7. CASE Moving
  <2>1. UNCHANGED <<process, server, lost>>
    BY <1>7, MovingKeeps
  <2>2. /\ numbered' = numbered /\ projected' = projected /\ lost' = lost
        /\ Recorded' = Recorded /\ \A f : OwedNext(f) \subseteq Owed(f) /\ Owed(f) \subseteq Recorded \ lost
    BY <2>1, RecordedKept, OwedShrinks DEF process, server, Owed
  <2>3. CASE SendPlain
    <3>1. Plain \in Frames /\ Plain \notin Keys
      BY FrameAssumption DEF Frames
    <3>2. sendQueue' = Append(sendQueue, Plain) /\ UNCHANGED <<wire, held, inFlight, released>>
      BY <2>3 DEF SendPlain, connection
    <3> QED
      BY <2>2, <3>1, <3>2, LineGrows
  <2>4. CASE ResendReport
    <3>1. PICK key \in retained : sendQueue' = Append(sendQueue, key)
      BY <2>4 DEF ResendReport
    <3>2. key \in Frames
      BY <1>0 DEF TypeOK, Frames
    <3>3. UNCHANGED <<wire, held, inFlight, released>>
      BY <2>4 DEF ResendReport, connection
    <3> QED
      BY <2>2, <3>1, <3>2, <3>3, LineGrows
  <2>5. CASE Connect
    BY <1>0, <2>5, LineDown DEF Connect, SocketInv, outbound
  <2>6. CASE Drop
    BY <2>6, LineDown DEF Drop
  <2>7. CASE SendHeld
    <3>1. /\ released /\ held # NoFrame /\ wire' = Append(wire, held) /\ inFlight' = held
          /\ held' = NoFrame /\ sendQueue' = sendQueue /\ released' = released
      BY <2>7 DEF SendHeld, MaySend, connection
    <3>2. held \in Frames
      BY <1>0, <3>1 DEF TypeOK
    <3>3. held \in Keys => Owed(held) \subseteq projected \cup Range(wire)
      BY <1>0, <3>1 DEF HeldInOrder
    <3> QED
      BY <2>2, <3>1, <3>2, <3>3, LineSends
  <2>8. CASE SendQueued
    <3> DEFINE h == Head(sendQueue)
    <3>1. /\ released /\ held = NoFrame /\ sendQueue # <<>> /\ wire' = Append(wire, h) /\ inFlight' = h
          /\ held' = NoFrame /\ sendQueue' = Tail(sendQueue) /\ released' = released
      BY <2>8 DEF SendQueued, MaySend, connection
    <3>2. 1 \in DOMAIN sendQueue /\ h = sendQueue[1] /\ h \in Frames /\ Ahead(sendQueue, 1) = {}
      BY <1>0, <3>1, RangeTail DEF TypeOK
    <3>3. h \in Keys => Owed(h) \subseteq projected \cup Range(wire) \cup {held}
      BY <1>0, <3>1, <3>2 DEF QueueInOrder
    <3>4. NoFrame \notin Recorded
      BY FrameAssumption DEF Recorded, Frames
    <3>5. h \in Keys => Owed(h) \subseteq projected \cup Range(wire)
      BY <2>2, <3>1, <3>3, <3>4
    <3> QED
      BY <2>2, <3>1, <3>2, <3>5, LineSends
  <2>9. CASE Sent \/ SendFails
    BY <2>9, LineSettles
  <2>10. CASE HandleInit
    BY <2>10, LineRebuilt
  <2>11. CASE ServerInit
    BY <1>1, <2>2, <2>11 DEF ServerInit
  <2>12. ASSUME NEW s \in Sessions, ServerAck(s)
         PROVE  LineInv'
    BY <1>1, <2>2, <2>12 DEF ServerAck, connection
  <2> QED
    BY <1>7, <2>3, <2>4, <2>5, <2>6, <2>7, <2>8, <2>9, <2>10, <2>11, <2>12 DEF Moving
<1> QED
  BY <1>2, <1>3, <1>4, <1>5, <1>6, <1>7, NextSplit

-----------------------------------------------------------------------------
(* The theorems.                                                           *)

LEMMA IInvInit == Init => IInv
<1> SUFFICES ASSUME Init PROVE IInv
  OBVIOUS
<1>1. TypeOK
  BY TypeInit DEF TypeInv
<1>2. Recorded = {}
  BY KeyIsPair, BoundsAssumption DEF Init, Recorded
<1>3. NoFrameLost /\ LogInOrder /\ FramesHaveTheirSession
  BY <1>2 DEF Init, NoFrameLost, LogInOrder, FramesHaveTheirSession
<1>4. RetentionInv
  BY <1>2 DEF Init, RetentionInv
<1>5. AckInv
  BY RangeEmpty DEF Init, AckInv
<1>6. SocketInv
  BY RangeEmpty DEF Init, SocketInv
<1>7. LineInv
  BY RangeEmpty DEF Init, LineInv, LineComplete, WireInOrder, HeldInOrder, QueueInOrder
<1> QED
  BY <1>1, <1>3, <1>4, <1>5, <1>6, <1>7 DEF IInv

LEMMA IInvStutter == IInv /\ UNCHANGED vars => IInv'
<1> SUFFICES ASSUME IInv, UNCHANGED vars PROVE IInv'
  OBVIOUS
<1>0. UNCHANGED <<process, store, outbound, inQueue, connection, server, lost>>
  BY DEF vars
<1>1. TypeOK'
  BY <1>0 DEF IInv, TypeOK, process, store, outbound, connection, server
<1>2. (NoFrameLost /\ LogInOrder /\ FramesHaveTheirSession)'
  BY <1>0 DEF IInv, NoFrameLost, LogInOrder, FramesHaveTheirSession, Recorded, MustPrecede,
              process, store, server
<1>3. RetentionInv'
  BY <1>0 DEF IInv, RetentionInv, Recorded, process, store, server
<1>4. AckInv'
  BY <1>0 DEF IInv, AckInv, store, server
<1>5. SocketInv'
  BY <1>0 DEF IInv, SocketInv, Recorded, process, outbound, connection
<1>6. LineInv'
  BY <1>0 DEF IInv, LineInv, LineComplete, WireInOrder, HeldInOrder, QueueInOrder,
              Owed, MustPrecede, Recorded, process, outbound, connection, server
<1> QED
  BY <1>1, <1>2, <1>3, <1>4, <1>5, <1>6 DEF IInv

LEMMA IInvStep == IInv /\ [Next]_vars => IInv'
<1> SUFFICES ASSUME IInv, Next PROVE IInv'
  BY IInvStutter
<1>1. TypeOK'
  BY TypeStep DEF IInv, RetentionInv, TypeInv
<1> QED
  BY <1>1, NoFrameLostStep, LogInOrderStep, FramesHaveTheirSessionStep, RetentionStep,
     AckStep, SocketStep, LineStep DEF IInv

\* The strengthening holds in every reachable state.
THEOREM Inductive == Spec => []IInv
  BY IInvInit, IInvStep, PTL DEF Spec

\* A numbered frame is logged, or can still be sent, whatever drops, dies or is
\* acknowledged twice; and without a failing store nothing is given up.
THEOREM NothingIsLost == Spec => []NoFrameLost
<1>1. IInv => NoFrameLost
  BY DEF IInv
<1> QED
  BY Inductive, <1>1, PTL

\* The server's log of a session never has a hole, and no session overtakes an
\* earlier one as long as the clock does not step back.
THEOREM LogHasNoHoles == Spec => []LogInOrder
<1>1. IInv => LogInOrder
  BY DEF IInv
<1> QED
  BY Inductive, <1>1, PTL

\* Pruning never takes the creation time of a session a kept frame belongs to.
THEOREM SessionsStayKnown == Spec => []FramesHaveTheirSession
<1>1. IInv => FramesHaveTheirSession
  BY DEF IInv
<1> QED
  BY Inductive, <1>1, PTL

-----------------------------------------------------------------------------
(* The agent implements the log of reports.                                *)

\* The two modules mean the same by their words.
LEMMA LogWords ==
  /\ Log!Sessions = Sessions /\ Log!Keys = Keys /\ Log!Recorded = Recorded
  /\ \A k, f : Log!MustPrecede(k, f) <=> MustPrecede(k, f)
  BY DEF Log!Sessions, Log!Keys, Log!Recorded, Log!MustPrecede, Sessions, Keys, Recorded, MustPrecede

LEMMA LogInit == Init => Log!Init
  BY DEF Init, Log!Init, Log!Sessions, Sessions

LEMMA LogStep == IInv /\ [Next]_vars => [Log!Next]_Log!vars
<1> SUFFICES ASSUME IInv, [Next]_vars
             PROVE  Log!Next \/ UNCHANGED <<numbered, projected, lost>>
  BY DEF Log!vars
<1>0. TypeOK /\ TypeInv /\ RetentionInv /\ AckInv /\ SocketInv /\ LineInv
  BY DEF IInv, TypeInv, RetentionInv
<1>1. ASSUME NEW gone \in SUBSET Recorded, gone # {} => StoreMayFail,
             lost' = lost \cup gone, UNCHANGED <<numbered, projected>>
      PROVE  Log!Next \/ UNCHANGED <<numbered, projected, lost>>
  <2>1. CASE gone = {}
    BY <1>1, <2>1
  <2>2. CASE gone # {}
    BY <1>1, <2>2, LogWords DEF Log!Next, Log!Lose
  <2> QED
    BY <2>1, <2>2
<1>2. CASE Start
  <2>1. PICK unread \in IF StoreMayFail THEN SUBSET Loadable ELSE {{}} : lost' = lost \cup unread
    BY <1>2 DEF Start
  <2>2. unread \subseteq Recorded /\ (unread # {} => StoreMayFail)
    BY <1>0, <2>1 DEF Loadable, RetentionInv
  <2> QED
    BY <1>1, <1>2, <2>1, <2>2 DEF Start, server
<1>3. CASE Crash
  <2>1. retained \ journal \subseteq Recorded /\ (retained \ journal # {} => StoreMayFail)
    BY <1>0 DEF RetentionInv
  <2> QED
    BY <1>1, <1>3, <2>1 DEF Crash, server
<1>4. CASE Record
  <2>1. session \in Sessions
    BY <1>0, <1>4, RecordedGrows
  <2>2. \A t \in Sessions : session < t => numbered[t] = 0
    BY <1>0 DEF RetentionInv
  <2>3. Log!Record(session)
    BY <1>4, <2>2, LogWords DEF Record, Log!Record, server
  <2> QED
    BY <2>1, <2>3, LogWords DEF Log!Next
<1>5. CASE HandleAck
  BY <1>5 DEF HandleAck, server
<1>6. CASE ServerReceive
  <2> DEFINE f == Head(wire)
  <2>1. wire # <<>> /\ UNCHANGED <<numbered, lost>>
    BY <1>0, <1>6, Receives DEF process
  <2>2. f = wire[1] /\ 1 \in DOMAIN wire /\ Ahead(wire, 1) = {} /\ f \in Range(wire)
    BY <1>0, <2>1, RangeTail DEF TypeOK
  <2>3. CASE UNCHANGED server
    BY <2>1, <2>3 DEF server
  <2>4. CASE f \in Keys /\ watermark[f[1]] < f[2] /\ projected' = projected \cup {f}
    <3>1. f \in Recorded
      BY <1>0, <2>2, <2>4, FrameAssumption DEF SocketInv, Frames
    <3>2. f \notin projected
      <4>1. f[1] \in Sessions /\ f[2] \in 1 .. MaxPos /\ watermark[f[1]] \in 0 .. MaxPos
        BY <1>0, <2>4, KeyIsPair DEF TypeOK
      <4>2. f \in projected => f[2] <= watermark[f[1]]
        BY <1>0 DEF AckInv
      <4> QED
        BY <2>4, <4>1, <4>2, BoundsAssumption
    <3>3. Owed(f) \subseteq projected
      BY <1>0, <2>2, <2>4 DEF LineInv, WireInOrder
    <3>4. \A k \in Recorded : MustPrecede(k, f) => k \in projected \cup lost
      BY <3>3 DEF Owed
    <3>5. Log!Project(f)
      BY <2>1, <2>4, <3>1, <3>2, <3>4, LogWords DEF Log!Project
    <3> QED
      BY <2>4, <3>5, LogWords DEF Log!Next
  <2> QED
    BY <1>0, <1>6, <2>3, <2>4, Receives
<1>7. CASE Moving
  BY <1>7, MovingKeeps DEF process, server
<1>8. CASE UNCHANGED vars
  BY <1>8 DEF vars, process, server
<1> QED
  BY <1>2, <1>3, <1>4, <1>5, <1>6, <1>7, <1>8, NextSplit

\* Over any number of sessions, drops and failures of the store, the agent and the
\* server together behave as ReportLog says.
THEOREM Implements == Spec => ImplementsReportLog
  BY LogInit, LogStep, Inductive, PTL DEF Spec, ImplementsReportLog, Log!Spec

=============================================================================
