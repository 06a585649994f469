---------------------------- MODULE PacketsProofs ----------------------------
(* Proofs about Packets.  The packets, the LZF instances and the groups of a *)
(* host are three matters, and an operation of the library touches a few of  *)
(* them: each has a predicate of its own on a host, and a lemma that says    *)
(* that it only looks at its part.                                           *)
EXTENDS Packets, TLAPS, NaturalsInduction, WellFoundedInduction, FiniteSetTheorems,
        SequenceTheorems

QueueNames == {"outgoing", "sent", "incoming"}
Message == Outgoing \cup Incoming

-----------------------------------------------------------------------------
(* Counting messages.                                                      *)

\* The messages of a queue that hold a packet can be counted.
LEMMA HoldersFinite ==
    ASSUME NEW queue \in Seq(Message), NEW p
    PROVE  IsFiniteSet(HoldersIn(queue, p)) /\ Cardinality(HoldersIn(queue, p)) \in Nat
<1>1. IsFiniteSet(1 .. Len(queue))
  BY FS_Interval
<1>2. HoldersIn(queue, p) \in SUBSET (1 .. Len(queue))
  BY DEF HoldersIn
<1>3. IsFiniteSet(HoldersIn(queue, p))
  BY <1>1, <1>2, FS_Subset
<1> QED BY <1>3, FS_CardinalityType

\* A set that is another one moved along has as many elements.
LEMMA ShiftedCard ==
    ASSUME NEW S \in SUBSET Int, IsFiniteSet(S), NEW n \in Int
    PROVE  /\ IsFiniteSet({n + k : k \in S})
           /\ Cardinality({n + k : k \in S}) = Cardinality(S)
<1> DEFINE T == {n + k : k \in S}
           f == [k \in S |-> n + k]
<1>1. f \in Bijection(S, T)
  <2>1. \A k \in S, l \in S : f[k] = f[l] => k = l
    OBVIOUS
  <2>2. f \in [S -> T] /\ \A t \in T : \E k \in S : f[k] = t
    OBVIOUS
  <2> HIDE DEF f, T
  <2> QED BY <2>1, <2>2 DEF Bijection, Injection, IsInjective, Surjection
<1>2. ExistsBijection(S, T)
  BY <1>1 DEF ExistsBijection
<1> QED BY <1>2, FS_Bijection

\* Two queues one after the other hold a packet as often as both of them.
LEMMA HoldersConcat ==
    ASSUME NEW a \in Seq(Message), NEW b \in Seq(Message), NEW p
    PROVE  Cardinality(HoldersIn(a \o b, p))
             = Cardinality(HoldersIn(a, p)) + Cardinality(HoldersIn(b, p))
<1> DEFINE A == HoldersIn(a, p)
           B == {Len(a) + k : k \in HoldersIn(b, p)}
<1>1. /\ a \o b \in Seq(Message) /\ Len(a \o b) = Len(a) + Len(b)
      /\ \A i \in 1 .. (Len(a) + Len(b)) :
           (a \o b)[i] = IF i <= Len(a) THEN a[i] ELSE b[i - Len(a)]
  BY ConcatProperties
<1>2. HoldersIn(a \o b, p) = A \cup B
  <2>1. ASSUME NEW i \in HoldersIn(a \o b, p) PROVE i \in A \cup B
    <3>1. i \in 1 .. (Len(a) + Len(b)) /\ (a \o b)[i].packet = p
      BY <1>1 DEF HoldersIn
    <3>2. CASE i <= Len(a)
      BY <1>1, <3>1, <3>2 DEF HoldersIn
    <3>3. CASE ~(i <= Len(a))
      <4>1. i - Len(a) \in 1 .. Len(b) /\ b[i - Len(a)].packet = p /\ i = Len(a) + (i - Len(a))
        BY <1>1, <3>1, <3>3
      <4>2. i - Len(a) \in HoldersIn(b, p)
        BY <4>1 DEF HoldersIn
      <4> QED BY <4>1, <4>2
    <3> QED BY <3>2, <3>3
  <2>2. ASSUME NEW i \in A PROVE i \in HoldersIn(a \o b, p)
    BY <1>1 DEF HoldersIn
  <2>3. ASSUME NEW i \in B PROVE i \in HoldersIn(a \o b, p)
    <3>1. PICK k \in HoldersIn(b, p) : i = Len(a) + k
      OBVIOUS
    <3>2. k \in 1 .. Len(b) /\ b[k].packet = p
      BY DEF HoldersIn
    <3> QED BY <1>1, <3>1, <3>2 DEF HoldersIn
  <2> QED BY <2>1, <2>2, <2>3
<1>3. A \cap B = {}
  BY DEF HoldersIn
<1>4. IsFiniteSet(A) /\ Cardinality(A) \in Nat
  BY HoldersFinite
<1>5. /\ IsFiniteSet(B) /\ Cardinality(B) = Cardinality(HoldersIn(b, p))
      /\ Cardinality(HoldersIn(b, p)) \in Nat
  <2> DEFINE H == HoldersIn(b, p)
  <2>1. H \in SUBSET Int
    BY DEF HoldersIn
  <2>2. IsFiniteSet(H) /\ Cardinality(H) \in Nat
    BY HoldersFinite
  <2>3. Len(a) \in Int
    OBVIOUS
  <2> HIDE DEF H
  <2>4. IsFiniteSet({Len(a) + k : k \in H}) /\ Cardinality({Len(a) + k : k \in H}) = Cardinality(H)
    BY <2>1, <2>2, <2>3, ShiftedCard
  <2> QED BY <2>2, <2>4 DEF H
<1>6. Cardinality(A \cup B) = Cardinality(A) + Cardinality(B) - Cardinality(A \cap B)
  BY <1>4, <1>5, FS_Union
<1>7. Cardinality(A \cap B) = 0
  BY <1>3, FS_EmptySet
<1> HIDE DEF A, B
<1>8. Cardinality(A \cup B) = Cardinality(A) + Cardinality(B)
  BY <1>4, <1>5, <1>6, <1>7
<1> QED BY <1>2, <1>5, <1>8 DEF A

\* A queue without messages holds nothing, and one of n messages that hold packet p
\* holds it n times.
LEMMA HoldersOfSame ==
    ASSUME NEW m, NEW n \in Nat, NEW p, NEW queue, queue = [k \in 1 .. n |-> m]
    PROVE  /\ HoldersIn(<<>>, p) = {} /\ Cardinality(HoldersIn(<<>>, p)) = 0
           /\ Cardinality(HoldersIn(queue, p)) = IF m.packet = p THEN n ELSE 0
<1>1. HoldersIn(<<>>, p) = {}
  BY DEF HoldersIn
<1>2. HoldersIn(queue, p) = IF m.packet = p THEN 1 .. n ELSE {}
  BY DEF HoldersIn
<1>3. Cardinality(1 .. n) = n
  BY FS_Interval
<1> QED BY <1>1, <1>2, <1>3, FS_EmptySet

\* A queue of one message holds its packet.
LEMMA HoldersOfOne ==
    ASSUME NEW m, NEW p
    PROVE  Cardinality(HoldersIn(<<m>>, p)) = IF m.packet = p THEN 1 ELSE 0
<1>1. HoldersIn(<<m>>, p) = IF m.packet = p THEN {1} ELSE {}
  BY DEF HoldersIn
<1> QED BY <1>1, FS_EmptySet, FS_Singleton

\* A sequence is what is before its element k, that element, and what is behind it.
LEMMA SplitAt ==
    ASSUME NEW queue \in Seq(Message), NEW k \in 1 .. Len(queue),
           NEW a \in Seq(Message), Len(a) = k - 1, \A i \in 1 .. (k - 1) : a[i] = queue[i],
           NEW m \in Seq(Message), Len(m) = 1, m[1] = queue[k],
           NEW b \in Seq(Message), Len(b) = Len(queue) - k,
           \A i \in 1 .. (Len(queue) - k) : b[i] = queue[k + i]
    PROVE  queue = a \o (m \o b)
<1>1. PICK n : n = Len(queue)
  OBVIOUS
<1>2. n \in Nat /\ k \in 1 .. n
  BY <1>1
<1>3. PICK c : c = m \o b
  OBVIOUS
<1>4. /\ c \in Seq(Message) /\ Len(c) = (1 + n) - k
      /\ \A i \in 1 .. ((1 + n) - k) : c[i] = IF i <= 1 THEN queue[k] ELSE b[i - 1]
  <2>1. /\ c \in Seq(Message) /\ Len(c) = Len(m) + Len(b)
        /\ \A i \in 1 .. (Len(m) + Len(b)) : c[i] = IF i <= Len(m) THEN m[i] ELSE b[i - Len(m)]
    BY <1>3, ConcatProperties
  <2>2. Len(m) + Len(b) = (1 + n) - k
    BY <1>1, <1>2
  <2>3. \A i \in 1 .. ((1 + n) - k) : i <= 1 => m[i] = queue[k]
    BY <1>2
  <2> QED BY <2>1, <2>2, <2>3
<1>5. PICK d : d = a \o c
  OBVIOUS
<1>6. /\ d \in Seq(Message) /\ Len(d) = n
      /\ \A i \in 1 .. n : d[i] = IF i <= k - 1 THEN a[i] ELSE c[i - (k - 1)]
  <2>1. /\ d \in Seq(Message) /\ Len(d) = Len(a) + Len(c)
        /\ \A i \in 1 .. (Len(a) + Len(c)) : d[i] = IF i <= Len(a) THEN a[i] ELSE c[i - Len(a)]
    BY <1>4, <1>5, ConcatProperties, ZenonT(60)
  <2>2. Len(a) + Len(c) = n
    BY <1>2, <1>4
  <2> QED BY <2>1, <2>2
<1>7. ASSUME NEW i \in 1 .. n PROVE queue[i] = d[i]
  <2>1. CASE i <= k - 1
    <3>1. d[i] = a[i] /\ i \in 1 .. (k - 1)
      BY <1>2, <1>6, <2>1
    <3> QED BY <3>1
  <2>2. CASE i = k
    <3>1. d[i] = c[i - (k - 1)] /\ i - (k - 1) = 1 /\ 1 \in 1 .. ((1 + n) - k)
      BY <1>2, <1>6, <2>2
    <3> QED BY <1>4, <2>2, <3>1
  <2>3. CASE i > k
    <3>1. d[i] = c[i - (k - 1)] /\ i - (k - 1) \in 1 .. ((1 + n) - k) /\ ~(i - (k - 1) <= 1)
      <4>1. ~(i <= k - 1)
        BY <1>2, <2>3
      <4>2. d[i] = c[i - (k - 1)]
        BY <1>6, <4>1
      <4>3. i - (k - 1) \in 1 .. ((1 + n) - k) /\ ~(i - (k - 1) <= 1)
        BY <1>2, <2>3
      <4> QED BY <4>2, <4>3
    <3>2. c[i - (k - 1)] = b[(i - (k - 1)) - 1]
      BY <1>4, <3>1
    <3>3. (i - (k - 1)) - 1 = i - k /\ i - k \in 1 .. (n - k) /\ k + (i - k) = i
      BY <1>2, <2>3
    <3>4. b[i - k] = queue[k + (i - k)]
      BY <1>1, <3>3
    <3> QED BY <3>1, <3>2, <3>3, <3>4
  <2> QED BY <1>2, <2>1, <2>2, <2>3
<1>8. queue = d
  BY <1>1, <1>6, <1>7, SeqEqual
<1> QED BY <1>3, <1>5, <1>8

\* A queue without one of its messages holds one packet less.
LEMMA HoldersWithout ==
    ASSUME NEW queue \in Seq(Message), NEW k \in DOMAIN queue, NEW p
    PROVE  /\ RemoveAt(queue, k) \in Seq(Message)
           /\ Cardinality(HoldersIn(queue, p)) = Cardinality(HoldersIn(RemoveAt(queue, k), p))
                                                   + IF queue[k].packet = p THEN 1 ELSE 0
<1>1. k \in 1 .. Len(queue) /\ Len(queue) \in Nat
  OBVIOUS
<1>2. PICK a : a = SubSeq(queue, 1, k - 1)
  OBVIOUS
<1>3. PICK b : b = SubSeq(queue, k + 1, Len(queue))
  OBVIOUS
<1>4. /\ a \in Seq(Message) /\ Len(a) = k - 1
      /\ \A i \in 1 .. (k - 1) : a[i] = queue[i]
  BY <1>1, <1>2, SubSeqProperties
<1>5. /\ b \in Seq(Message) /\ Len(b) = Len(queue) - k
      /\ \A i \in 1 .. (Len(queue) - k) : b[i] = queue[k + i]
  BY <1>1, <1>3, SubSeqProperties
<1>6. PICK m : m = <<queue[k]>>
  OBVIOUS
<1>7. m \in Seq(Message) /\ Len(m) = 1 /\ m[1] = queue[k]
  BY <1>6
<1>8. queue = a \o (m \o b)
  BY <1>1, <1>4, <1>5, <1>7, SplitAt, ZenonT(120)
<1>9. m \o b \in Seq(Message) /\ a \o b \in Seq(Message)
  BY <1>4, <1>5, <1>7, ConcatProperties
<1>10. Cardinality(HoldersIn(queue, p)) = Cardinality(HoldersIn(a, p)) + Cardinality(HoldersIn(m \o b, p))
  BY <1>4, <1>8, <1>9, HoldersConcat, ZenonT(60)
<1>11. Cardinality(HoldersIn(m \o b, p)) = Cardinality(HoldersIn(m, p)) + Cardinality(HoldersIn(b, p))
  BY <1>5, <1>7, HoldersConcat
<1>12. Cardinality(HoldersIn(m, p)) = IF queue[k].packet = p THEN 1 ELSE 0
  BY <1>6, HoldersOfOne
<1>13. Cardinality(HoldersIn(a \o b, p)) = Cardinality(HoldersIn(a, p)) + Cardinality(HoldersIn(b, p))
  BY <1>4, <1>5, HoldersConcat
<1>14. RemoveAt(queue, k) = a \o b
  BY <1>2, <1>3 DEF RemoveAt
<1>15. Cardinality(HoldersIn(a, p)) \in Nat /\ Cardinality(HoldersIn(b, p)) \in Nat
  BY <1>4, <1>5, HoldersFinite
<1> QED BY <1>9, <1>10, <1>11, <1>12, <1>13, <1>14, <1>15

-----------------------------------------------------------------------------
(* The messages of all queues of a host.                                   *)

Queued(h) == \A s \in Slots, q \in QueueNames : h.clients[s][q] \in Seq(Message)

\* The queues of all clients but q of slot s.
Others(s, q) == (Slots \X QueueNames) \ {<<s, q>>}

\* The messages of some queues that hold packet p.
MessagesOf(h, queues, p) ==
    UNION {{x[1]} \X {x[2]} \X HoldersIn(h.clients[x[1]][x[2]], p) : x \in queues}

\* What a function makes of a finite set is finite.
LEMMA ImageFinite ==
    ASSUME NEW S, IsFiniteSet(S), NEW f
    PROVE  IsFiniteSet({f[x] : x \in S})
<1> DEFINE T == {f[x] : x \in S}
           g == [x \in S |-> f[x]]
<1>1. g \in Surjection(S, T)
  BY DEF Surjection
<1> HIDE DEF g, T
<1>2. IsFiniteSet(T)
  BY <1>1, FS_Surjection
<1> QED BY <1>2 DEF T

\* A set with two elements put before each of its elements has as many elements.
LEMMA TriplesCard ==
    ASSUME NEW K, IsFiniteSet(K), NEW s, NEW q
    PROVE  /\ IsFiniteSet({s} \X {q} \X K)
           /\ Cardinality({s} \X {q} \X K) = Cardinality(K)
<1> DEFINE T == {s} \X {q} \X K
           f == [k \in K |-> <<s, q, k>>]
<1>1. f \in Bijection(K, T)
  <2>1. \A k \in K, l \in K : f[k] = f[l] => k = l
    OBVIOUS
  <2>2. f \in [K -> T] /\ \A t \in T : \E k \in K : f[k] = t
    OBVIOUS
  <2> HIDE DEF f, T
  <2> QED BY <2>1, <2>2 DEF Bijection, Injection, IsInjective, Surjection
<1>2. ExistsBijection(K, T)
  BY <1>1 DEF ExistsBijection
<1> QED BY <1>2, FS_Bijection

\* There are finitely many queues, and messages in them.
LEMMA MessagesFinite ==
    ASSUME NEW h, Queued(h), NEW queues \in SUBSET (Slots \X QueueNames), NEW p
    PROVE  /\ IsFiniteSet(MessagesOf(h, queues, p))
           /\ Cardinality(MessagesOf(h, queues, p)) \in Nat
<1>1. IsFiniteSet(queues)
  <2>1. IsFiniteSet(Slots)
    BY FS_Interval, PacketsAssumption DEF Slots
  <2>2. IsFiniteSet({"outgoing"} \cup {"sent"} \cup {"incoming"})
    BY FS_Singleton, FS_Union
  <2>3. QueueNames = {"outgoing"} \cup {"sent"} \cup {"incoming"}
    BY DEF QueueNames
  <2> QED BY <2>1, <2>2, <2>3, FS_Product, FS_Subset
<1> DEFINE f == [x \in queues |-> {x[1]} \X {x[2]} \X HoldersIn(h.clients[x[1]][x[2]], p)]
           T == {f[x] : x \in queues}
<1>2. IsFiniteSet(T)
  <2> HIDE DEF f
  <2> QED BY <1>1, ImageFinite
<1>3. ASSUME NEW x \in queues PROVE IsFiniteSet(f[x])
  <2>1. h.clients[x[1]][x[2]] \in Seq(Message)
    BY DEF Queued
  <2>2. IsFiniteSet(HoldersIn(h.clients[x[1]][x[2]], p))
    BY <2>1, HoldersFinite
  <2> QED BY <2>2, TriplesCard
<1>4. \A t \in T : IsFiniteSet(t)
  BY <1>3
<1>5. IsFiniteSet(UNION T)
  BY <1>2, <1>4, FS_UNION
<1>6. MessagesOf(h, queues, p) = UNION T
  BY DEF MessagesOf
<1> QED BY <1>5, <1>6, FS_CardinalityType

\* A message that holds a packet is in a queue of a client.
LEMMA InMessages ==
    ASSUME NEW h, NEW p, NEW m
    PROVE  m \in Messages(h, p) <=>
             \E t \in Slots, r \in QueueNames :
               m \in {t} \X {r} \X HoldersIn(h.clients[t][r], p)
<1> DEFINE X == {{t} \X {r} \X HoldersIn(h.clients[t][r], p) : t \in Slots, r \in QueueNames}
<1>1. Messages(h, p) = UNION X
  BY DEF Messages, QueueNames
<1>2. \A e : e \in X <=> \E t \in Slots, r \in QueueNames :
                           e = {t} \X {r} \X HoldersIn(h.clients[t][r], p)
  OBVIOUS
<1> HIDE DEF X
<1>3. ASSUME m \in Messages(h, p)
      PROVE  \E t \in Slots, r \in QueueNames : m \in {t} \X {r} \X HoldersIn(h.clients[t][r], p)
  <2>1. PICK e : e \in X /\ m \in e
    BY <1>1, <1>3
  <2>2. PICK t \in Slots, r \in QueueNames : e = {t} \X {r} \X HoldersIn(h.clients[t][r], p)
    BY <1>2, <2>1
  <2>3. m \in {t} \X {r} \X HoldersIn(h.clients[t][r], p)
    BY <2>1, <2>2
  <2> QED BY <2>3
<1>4. ASSUME NEW t \in Slots, NEW r \in QueueNames,
             m \in {t} \X {r} \X HoldersIn(h.clients[t][r], p)
      PROVE  m \in Messages(h, p)
  <2>1. {t} \X {r} \X HoldersIn(h.clients[t][r], p) \in X
    BY <1>2
  <2> QED BY <1>1, <1>4, <2>1
<1> QED BY <1>3, <1>4

\* The messages of all queues are those of one and those of the others.
LEMMA MessagesSplit ==
    ASSUME NEW h, Queued(h), NEW s \in Slots, NEW q \in QueueNames, NEW p
    PROVE  Cardinality(Messages(h, p)) = Cardinality(MessagesOf(h, Others(s, q), p))
                                           + Cardinality(HoldersIn(h.clients[s][q], p))
<1> DEFINE R == MessagesOf(h, Others(s, q), p)
           B == {s} \X {q} \X HoldersIn(h.clients[s][q], p)
<1>1. Messages(h, p) = R \cup B
  <2>1. ASSUME NEW m \in Messages(h, p) PROVE m \in R \cup B
    <3>1. PICK t \in Slots, r \in QueueNames :
            m \in {t} \X {r} \X HoldersIn(h.clients[t][r], p)
      BY InMessages
    <3>2. CASE t = s /\ r = q
      BY <3>1, <3>2
    <3>3. CASE ~(t = s /\ r = q)
      <4> DEFINE x == <<t, r>>
      <4>1. x \in Others(s, q)
        BY <3>3 DEF Others
      <4>2. m \in {x[1]} \X {x[2]} \X HoldersIn(h.clients[x[1]][x[2]], p)
        BY <3>1
      <4> HIDE DEF x
      <4> QED BY <4>1, <4>2 DEF MessagesOf
    <3> QED BY <3>2, <3>3
  <2>2. ASSUME NEW m \in R PROVE m \in Messages(h, p)
    <3>1. PICK x \in Others(s, q) :
            m \in {x[1]} \X {x[2]} \X HoldersIn(h.clients[x[1]][x[2]], p)
      BY DEF MessagesOf
    <3>2. x[1] \in Slots /\ x[2] \in QueueNames
      BY DEF Others
    <3> QED BY <3>1, <3>2, InMessages
  <2>3. ASSUME NEW m \in B PROVE m \in Messages(h, p)
    BY InMessages
  <2> QED BY <2>1, <2>2, <2>3
<1>2. R \cap B = {}
  <2> SUFFICES ASSUME NEW m \in R, m \in B PROVE FALSE
    OBVIOUS
  <2>1. PICK x \in Others(s, q) :
          m \in {x[1]} \X {x[2]} \X HoldersIn(h.clients[x[1]][x[2]], p)
    BY DEF MessagesOf
  <2>2. m[1] = x[1] /\ m[2] = x[2] /\ m[1] = s /\ m[2] = q
    BY <2>1
  <2>3. x = <<x[1], x[2]>> /\ x # <<s, q>>
    BY DEF Others
  <2> QED BY <2>2, <2>3
<1>3. IsFiniteSet(R) /\ Cardinality(R) \in Nat
  BY MessagesFinite DEF Others
<1>4. h.clients[s][q] \in Seq(Message)
  BY DEF Queued
<1>5. /\ IsFiniteSet(HoldersIn(h.clients[s][q], p))
      /\ Cardinality(HoldersIn(h.clients[s][q], p)) \in Nat
  BY <1>4, HoldersFinite
<1>6. IsFiniteSet(B) /\ Cardinality(B) = Cardinality(HoldersIn(h.clients[s][q], p))
  BY <1>5, TriplesCard
<1> HIDE DEF R, B
<1>7. Cardinality(R \cup B) = Cardinality(R) + Cardinality(B) - Cardinality(R \cap B)
  BY <1>3, <1>6, FS_Union
<1>8. Cardinality(R \cap B) = 0
  BY <1>2, FS_EmptySet
<1> QED BY <1>1, <1>3, <1>5, <1>6, <1>7, <1>8 DEF R

\* No queue changes but q of slot s.
SameOthers(h, g, s, q) ==
    \A t \in Slots, r \in QueueNames :
      ~(t = s /\ r = q) => g.clients[t][r] = h.clients[t][r]

\* A change of one queue changes the number of messages by as much.
LEMMA QueueChange ==
    ASSUME NEW h, NEW g, Queued(h), Queued(g), NEW s \in Slots, NEW q \in QueueNames, NEW p,
           SameOthers(h, g, s, q)
    PROVE  Cardinality(Messages(g, p)) + Cardinality(HoldersIn(h.clients[s][q], p))
             = Cardinality(Messages(h, p)) + Cardinality(HoldersIn(g.clients[s][q], p))
<1>1. MessagesOf(h, Others(s, q), p) = MessagesOf(g, Others(s, q), p)
  <2>1. ASSUME NEW x \in Others(s, q)
        PROVE  g.clients[x[1]][x[2]] = h.clients[x[1]][x[2]]
    <3>1. /\ x[1] \in Slots /\ x[2] \in QueueNames
          /\ x = <<x[1], x[2]>> /\ x # <<s, q>>
      BY DEF Others
    <3> QED BY <3>1 DEF SameOthers
  <2> QED BY <2>1 DEF MessagesOf
<1>2. Cardinality(MessagesOf(h, Others(s, q), p)) \in Nat
  BY MessagesFinite DEF Others
<1>3. h.clients[s][q] \in Seq(Message) /\ g.clients[s][q] \in Seq(Message)
  BY DEF Queued
<1>4. /\ Cardinality(HoldersIn(h.clients[s][q], p)) \in Nat
      /\ Cardinality(HoldersIn(g.clients[s][q], p)) \in Nat
  BY <1>3, HoldersFinite
<1>5. Cardinality(Messages(h, p)) = Cardinality(MessagesOf(h, Others(s, q), p))
                                      + Cardinality(HoldersIn(h.clients[s][q], p))
  BY MessagesSplit
<1>6. Cardinality(Messages(g, p)) = Cardinality(MessagesOf(g, Others(s, q), p))
                                      + Cardinality(HoldersIn(g.clients[s][q], p))
  BY MessagesSplit
<1> QED BY <1>1, <1>2, <1>4, <1>5, <1>6

\* The messages of a packet are those of the queues.
LEMMA SameMessages ==
    ASSUME NEW h, NEW g, NEW p,
           \A t \in Slots, r \in QueueNames : g.clients[t][r] = h.clients[t][r]
    PROVE  Messages(g, p) = Messages(h, p)
BY DEF Messages, QueueNames

-----------------------------------------------------------------------------
(* What holds of the packets, the clients, the instances and the groups of a *)
(* host, where f counts the references from outside of its queues.           *)

Counted(h, f) ==
    \A p \in PacketIds : h.packets[p].refCount = f[p] + Cardinality(Messages(h, p))

\* The messages of a queue say whether their packets are deflated.
TellsIn(h, queue) ==
    \A k \in DOMAIN queue : queue[k].compressed = h.packets[queue[k].packet].deflated

Tells(h) == \A s \in Slots : TellsIn(h, h.clients[s].outgoing) /\ TellsIn(h, h.clients[s].sent)

\* What is deflated is flagged as compressed.
Flagged(h) == \A p \in PacketIds : h.packets[p].deflated => "COMPRESSED" \in h.packets[p].flags

PacketsSound(h, f) == Counted(h, f) /\ Tells(h) /\ Flagged(h)

Counts == [PacketIds -> Nat]

\* A caller has one more reference of packet p.
OneMore(f, p) == [f EXCEPT ![p] = f[p] + 1]

\* What a host that keeps its types consists of.
LEMMA HostFields ==
    ASSUME NEW h \in HostType
    PROVE  /\ h.clients \in [Slots -> Client] /\ h.packets \in [PacketIds -> Packet]
           /\ h.instances \in [LzfIds -> Instance] /\ h.joined \in SUBSET Groups
           /\ h = [clients |-> h.clients, packets |-> h.packets,
                   instances |-> h.instances, joined |-> h.joined]
BY DEF HostType

\* What a client consists of.
LEMMA ClientFields ==
    ASSUME NEW c \in Client
    PROVE  /\ c.state \in States /\ c.group \in Groups \cup {None}
           /\ c.level \in Levels \cup {None} /\ c.lzf \in LzfIds \cup {None}
           /\ c.mtu \in 0 .. Mtu
           /\ c.outgoing \in Seq(Outgoing) /\ c.sent \in Seq(Outgoing)
           /\ c.incoming \in Seq(Incoming)
           /\ c = [state |-> c.state, group |-> c.group, level |-> c.level, lzf |-> c.lzf,
                   mtu |-> c.mtu, outgoing |-> c.outgoing, sent |-> c.sent,
                   incoming |-> c.incoming]
BY DEF Client

\* The queues of a host are sequences of messages.
LEMMA TypedQueued ==
    ASSUME NEW h \in HostType
    PROVE  Queued(h)
<1>1. ASSUME NEW s \in Slots, NEW q \in QueueNames
      PROVE  h.clients[s][q] \in Seq(Message)
  <2>1. h.clients[s] \in Client
    BY HostFields
  <2>2. /\ h.clients[s].outgoing \in Seq(Outgoing) /\ h.clients[s].sent \in Seq(Outgoing)
        /\ h.clients[s].incoming \in Seq(Incoming)
    BY <2>1, ClientFields
  <2>3. /\ h.clients[s].outgoing \in Seq(Message) /\ h.clients[s].sent \in Seq(Message)
        /\ h.clients[s].incoming \in Seq(Message)
    BY <2>2 DEF Message
  <2> QED BY <2>3 DEF QueueNames
<1> QED BY <1>1 DEF Queued

\* The messages of a packet can be counted.
LEMMA MessagesCount ==
    ASSUME NEW h \in HostType, NEW p
    PROVE  Cardinality(Messages(h, p)) \in Nat /\ IsFiniteSet(Messages(h, p))
<1>1. Queued(h)
  BY TypedQueued
<1>2. Messages(h, p) = MessagesOf(h, Slots \X QueueNames, p)
  <2>1. ASSUME NEW m \in Messages(h, p) PROVE m \in MessagesOf(h, Slots \X QueueNames, p)
    <3>1. PICK t \in Slots, r \in QueueNames : m \in {t} \X {r} \X HoldersIn(h.clients[t][r], p)
      BY InMessages
    <3> DEFINE x == <<t, r>>
    <3>2. /\ x \in Slots \X QueueNames
          /\ m \in {x[1]} \X {x[2]} \X HoldersIn(h.clients[x[1]][x[2]], p)
      BY <3>1
    <3> HIDE DEF x
    <3> QED BY <3>2 DEF MessagesOf
  <2>2. ASSUME NEW m \in MessagesOf(h, Slots \X QueueNames, p) PROVE m \in Messages(h, p)
    <3>1. PICK x \in Slots \X QueueNames :
            m \in {x[1]} \X {x[2]} \X HoldersIn(h.clients[x[1]][x[2]], p)
      BY DEF MessagesOf
    <3>2. x[1] \in Slots /\ x[2] \in QueueNames
      OBVIOUS
    <3> QED BY <3>1, <3>2, InMessages
  <2> QED BY <2>1, <2>2
<1> QED BY <1>1, <1>2, MessagesFinite

\* A packet all of whose references are from outside is in no queue.
LEMMA NoneHeld ==
    ASSUME NEW h \in HostType, NEW f \in Counts, Counted(h, f), NEW p \in PacketIds,
           h.packets[p].refCount = f[p], NEW s \in Slots, NEW q \in QueueNames,
           NEW k \in DOMAIN h.clients[s][q]
    PROVE  h.clients[s][q][k].packet # p
<1>1. Cardinality(Messages(h, p)) = 0
  BY MessagesCount DEF Counted, Counts
<1>2. Messages(h, p) = {}
  BY <1>1, MessagesCount, FS_EmptySet
<1>3. ASSUME h.clients[s][q][k].packet = p PROVE FALSE
  <2>1. k \in HoldersIn(h.clients[s][q], p)
    BY <1>3 DEF HoldersIn
  <2>2. <<s, q, k>> \in {s} \X {q} \X HoldersIn(h.clients[s][q], p)
    BY <2>1
  <2>3. <<s, q, k>> \in Messages(h, p)
    BY <2>2, InMessages
  <2> QED BY <1>2, <2>3
<1> QED BY <1>3

\* What of a host is not its packets stays as it is.
OnlyPackets(h, g) ==
    /\ g \in HostType
    /\ g.clients = h.clients /\ g.instances = h.instances /\ g.joined = h.joined

\* Nor do the other packets change.
OnlyPacket(h, g, p, x) == OnlyPackets(h, g) /\ g.packets = [h.packets EXCEPT ![p] = x]

\* A packet that is counted otherwise by as much as its references from outside are, and
\* deflated otherwise only if it is in no queue.
LEMMA PacketChange ==
    ASSUME NEW h \in HostType, NEW f \in Counts, PacketsSound(h, f),
           NEW p \in PacketIds, NEW x \in Packet, NEW n \in Nat,
           x.refCount = (n + h.packets[p].refCount) - f[p],
           x.deflated => "COMPRESSED" \in x.flags,
           x.deflated = h.packets[p].deflated \/ h.packets[p].refCount = f[p],
           NEW g, g = [h EXCEPT !.packets[p] = x]
    PROVE  /\ OnlyPacket(h, g, p, x)
           /\ [f EXCEPT ![p] = n] \in Counts
           /\ PacketsSound(g, [f EXCEPT ![p] = n])
<1>1. /\ g \in HostType /\ g.clients = h.clients /\ g.instances = h.instances
      /\ g.joined = h.joined /\ g.packets = [h.packets EXCEPT ![p] = x]
  BY DEF HostType
<1>2. [f EXCEPT ![p] = n] \in Counts
  BY DEF Counts
<1>3. h.packets \in [PacketIds -> Packet]
  BY HostFields
<1>4. Counted(g, [f EXCEPT ![p] = n])
  <2>1. ASSUME NEW r \in PacketIds
        PROVE  g.packets[r].refCount = [f EXCEPT ![p] = n][r] + Cardinality(Messages(g, r))
    <3>1. Messages(g, r) = Messages(h, r)
      BY <1>1 DEF Messages
    <3>2. h.packets[r].refCount = f[r] + Cardinality(Messages(h, r))
      BY DEF PacketsSound, Counted
    <3>3. Cardinality(Messages(h, r)) \in Nat /\ f[r] \in Nat
      BY MessagesCount DEF Counts
    <3>4. CASE r = p
      <4>1. g.packets[r] = x /\ [f EXCEPT ![p] = n][r] = n
        BY <1>1, <1>3, <3>4 DEF Counts
      <4> QED BY <3>1, <3>2, <3>3, <3>4, <4>1
    <3>5. CASE r # p
      <4>1. g.packets[r] = h.packets[r] /\ [f EXCEPT ![p] = n][r] = f[r]
        BY <1>1, <1>3, <3>5 DEF Counts
      <4> QED BY <3>1, <3>2, <4>1
    <3> QED BY <3>4, <3>5
  <2> QED BY <2>1 DEF Counted
<1>5. ASSUME NEW s \in Slots, NEW q \in {"outgoing", "sent"}, NEW k \in DOMAIN h.clients[s][q]
      PROVE  h.clients[s][q][k].compressed = g.packets[h.clients[s][q][k].packet].deflated
  <2>1. h.clients[s][q][k].compressed = h.packets[h.clients[s][q][k].packet].deflated
    BY SMTT(60) DEF PacketsSound, Tells, TellsIn
  <2>2. h.clients[s][q][k].packet \in PacketIds
    <3>1. h.clients[s] \in Client
      BY HostFields
    <3>2. h.clients[s].outgoing \in Seq(Outgoing) /\ h.clients[s].sent \in Seq(Outgoing)
      BY <3>1, ClientFields
    <3>3. h.clients[s][q] \in Seq(Outgoing)
      BY <3>2
    <3>4. h.clients[s][q][k] \in Outgoing
      BY <3>3
    <3> QED BY <3>4 DEF Outgoing
  <2>3. h.packets[p].refCount = f[p] => h.clients[s][q][k].packet # p
    BY NoneHeld DEF PacketsSound, QueueNames
  <2> QED BY <1>1, <1>3, <2>1, <2>2, <2>3, SMTT(60)
<1>6. Tells(g)
  BY <1>1, <1>5, SMTT(60) DEF Tells, TellsIn
<1>7. Flagged(g)
  <2>1. ASSUME NEW r \in PacketIds
        PROVE  g.packets[r].deflated => "COMPRESSED" \in g.packets[r].flags
    BY <1>1, <1>3 DEF PacketsSound, Flagged
  <2> QED BY <2>1 DEF Flagged
<1> QED BY <1>1, <1>2, <1>4, <1>6, <1>7 DEF PacketsSound, OnlyPacket, OnlyPackets

-----------------------------------------------------------------------------
(* What the operations on packets do.                                      *)

\* A count that holds for every packet holds for one.
LEMMA CountOf ==
    ASSUME NEW h \in HostType, NEW f \in Counts, Counted(h, f), NEW p \in PacketIds
    PROVE  /\ f[p] \in Nat /\ h.packets[p] \in Packet /\ h.packets[p].refCount \in Nat
           /\ f[p] <= h.packets[p].refCount
<1>1. h.packets[p] \in Packet
  BY HostFields
<1>2. h.packets[p].refCount \in Nat
  BY <1>1 DEF Packet
<1>3. f[p] \in Nat /\ Cardinality(Messages(h, p)) \in Nat
  BY MessagesCount DEF Counts
<1>4. h.packets[p].refCount = f[p] + Cardinality(Messages(h, p))
  BY DEF Counted
<1> QED BY <1>1, <1>2, <1>3, <1>4

\* A new packet has one reference, of the caller, and nobody had one before.
LEMMA NewSound ==
    ASSUME NEW h \in HostType, NEW f \in Counts, PacketsSound(h, f), FreePackets(h) # {},
           NEW flags \in SUBSET Flags, NEW length \in Nat, NEW deflated \in BOOLEAN,
           NEW shrinks \in BOOLEAN, deflated => "COMPRESSED" \in flags,
           NEW p, p = Fresh(h), NEW g, g = PacketNew(h, flags, length, deflated, shrinks)
    PROVE  /\ p \in PacketIds /\ p \in FreePackets(h) /\ f[p] = 0
           /\ OnlyPackets(h, g)
           /\ g.packets[p] = [refCount |-> 1, flags |-> flags, length |-> length,
                              deflated |-> deflated, shrinks |-> shrinks]
           /\ \A r \in PacketIds : r # p => g.packets[r] = h.packets[r]
           /\ [f EXCEPT ![p] = 1] \in Counts /\ PacketsSound(g, [f EXCEPT ![p] = 1])
<1>1. p \in FreePackets(h)
  BY DEF Fresh
<1>2. p \in PacketIds /\ h.packets[p].refCount = 0
  BY <1>1 DEF FreePackets
<1>3. f[p] = 0
  BY <1>2, CountOf DEF PacketsSound
<1> DEFINE x == [refCount |-> 1, flags |-> flags, length |-> length,
                 deflated |-> deflated, shrinks |-> shrinks]
<1>4. x \in Packet /\ x.refCount = 1 /\ (x.deflated => "COMPRESSED" \in x.flags)
  BY DEF Packet
<1>5. g = [h EXCEPT !.packets[p] = x]
  BY DEF PacketNew
<1>6. h.packets \in [PacketIds -> Packet]
  BY HostFields
<1> HIDE DEF x
<1>7. x.refCount = (1 + h.packets[p].refCount) - f[p]
  BY <1>2, <1>3, <1>4
<1>8. /\ OnlyPacket(h, g, p, x)
      /\ [f EXCEPT ![p] = 1] \in Counts
      /\ PacketsSound(g, [f EXCEPT ![p] = 1])
  <2>1. p \in PacketIds /\ 1 \in Nat /\ x \in Packet
    BY <1>2, <1>4
  <2>2. x.deflated = h.packets[p].deflated \/ h.packets[p].refCount = f[p]
    BY <1>2, <1>3
  <2>3. x.deflated => "COMPRESSED" \in x.flags
    BY <1>4
  <2>4. PICK n : n = 1
    OBVIOUS
  <2>5. n \in Nat /\ x.refCount = (n + h.packets[p].refCount) - f[p]
    BY <1>7, <2>4
  <2>6. /\ OnlyPacket(h, g, p, x)
        /\ [f EXCEPT ![p] = n] \in Counts
        /\ PacketsSound(g, [f EXCEPT ![p] = n])
    BY <1>5, <2>1, <2>2, <2>3, <2>5, PacketChange
  <2> QED BY <2>4, <2>6
<1> QED BY <1>1, <1>2, <1>3, <1>6, <1>8 DEF x, OnlyPacket

\* Another reference of a packet is one of the caller.
LEMMA ShareSound ==
    ASSUME NEW h \in HostType, NEW f \in Counts, PacketsSound(h, f), NEW p \in PacketIds,
           NEW e, e = OneMore(f, p), NEW g, g = PacketShare(h, p)
    PROVE  /\ OnlyPackets(h, g)
           /\ \A r \in PacketIds : g.packets[r].deflated = h.packets[r].deflated
           /\ e \in Counts /\ PacketsSound(g, e)
<1>1. f[p] \in Nat /\ h.packets[p] \in Packet /\ h.packets[p].refCount \in Nat
  BY CountOf DEF PacketsSound
<1> DEFINE x == [h.packets[p] EXCEPT !.refCount = @ + 1]
<1>2. /\ x \in Packet /\ x.refCount = h.packets[p].refCount + 1
      /\ x.deflated = h.packets[p].deflated /\ x.flags = h.packets[p].flags
  BY <1>1 DEF Packet
<1>3. g = [h EXCEPT !.packets[p] = x]
  BY HostFields DEF PacketShare, HostType
<1>4. h.packets \in [PacketIds -> Packet]
  BY HostFields
<1> HIDE DEF x
<1>5. x.refCount = ((f[p] + 1) + h.packets[p].refCount) - f[p] /\ f[p] + 1 \in Nat
  BY <1>1, <1>2
<1>6. x.deflated => "COMPRESSED" \in x.flags
  BY <1>2 DEF PacketsSound, Flagged
<1>7. /\ OnlyPacket(h, g, p, x)
      /\ [f EXCEPT ![p] = f[p] + 1] \in Counts
      /\ PacketsSound(g, [f EXCEPT ![p] = f[p] + 1])
  BY <1>2, <1>3, <1>5, <1>6, PacketChange
<1>8. e \in Counts /\ PacketsSound(g, e)
  BY <1>7 DEF OneMore
<1> QED BY <1>2, <1>4, <1>7, <1>8 DEF OnlyPacket

\* A packet stays as it is but for the count, or is free and in no queue, when a caller
\* gives its reference up.
LEMMA DestroySound ==
    ASSUME NEW h \in HostType, NEW f \in Counts, PacketsSound(h, f), NEW p \in PacketIds,
           f[p] > 0, NEW g, g = PacketDestroy(h, p)
    PROVE  /\ OnlyPackets(h, g)
           /\ \A r \in PacketIds : r # p => g.packets[r] = h.packets[r]
           /\ g.packets[p].deflated => h.packets[p].deflated
           /\ f[p] > 1 => g.packets[p].deflated = h.packets[p].deflated
           /\ [f EXCEPT ![p] = f[p] - 1] \in Counts
           /\ PacketsSound(g, [f EXCEPT ![p] = f[p] - 1])
<1>1. /\ f[p] \in Nat /\ h.packets[p] \in Packet /\ h.packets[p].refCount \in Nat
      /\ f[p] <= h.packets[p].refCount
  BY CountOf DEF PacketsSound
<1> DEFINE x == Released(h.packets[p], 1)
<1>2. /\ x \in Packet /\ x.refCount = h.packets[p].refCount - 1
      /\ h.packets[p].refCount = 1 => ~x.deflated
      /\ h.packets[p].refCount # 1 => /\ x.deflated = h.packets[p].deflated
                                      /\ x.flags = h.packets[p].flags
  <2>1. CASE h.packets[p].refCount = 1
    BY <1>1, <2>1 DEF Packet, Released, NoPacket
  <2>2. CASE h.packets[p].refCount # 1
    <3>1. x = [h.packets[p] EXCEPT !.refCount = @ - 1]
      BY <2>2 DEF Released
    <3>2. h.packets[p].refCount - 1 \in Nat
      BY <1>1, <2>2
    <3> QED BY <1>1, <2>2, <3>1, <3>2 DEF Packet
  <2> QED BY <2>1, <2>2
<1>3. g = [h EXCEPT !.packets[p] = x]
  BY HostFields DEF PacketDestroy, HostType
<1>4. h.packets \in [PacketIds -> Packet]
  BY HostFields
<1> HIDE DEF x
<1>5. x.refCount = ((f[p] - 1) + h.packets[p].refCount) - f[p] /\ f[p] - 1 \in Nat
  BY <1>1, <1>2
<1>6. x.deflated => "COMPRESSED" \in x.flags
  BY <1>2 DEF PacketsSound, Flagged
<1>7. x.deflated = h.packets[p].deflated \/ h.packets[p].refCount = f[p]
  BY <1>1, <1>2
<1>8. /\ OnlyPacket(h, g, p, x)
      /\ [f EXCEPT ![p] = f[p] - 1] \in Counts
      /\ PacketsSound(g, [f EXCEPT ![p] = f[p] - 1])
  BY <1>2, <1>3, <1>5, <1>6, <1>7, PacketChange
<1>9. \A r \in PacketIds : r # p => g.packets[r] = h.packets[r]
  BY <1>4, <1>8 DEF OnlyPacket
<1>10. g.packets[p] = x
  BY <1>4, <1>8 DEF OnlyPacket
<1>11. x.deflated => h.packets[p].deflated
  BY <1>2
<1>12. f[p] > 1 => x.deflated = h.packets[p].deflated
  BY <1>1, <1>2
<1> QED BY <1>8, <1>9, <1>10, <1>11, <1>12 DEF OnlyPacket

\* The flags of a packet change: a deflated one stays flagged as compressed.
LEMMA FlagsSound ==
    ASSUME NEW h \in HostType, NEW f \in Counts, PacketsSound(h, f), NEW p \in PacketIds,
           NEW flags \in SUBSET Flags, h.packets[p].deflated => "COMPRESSED" \in flags,
           NEW g, g = SetFlags(h, p, flags)
    PROVE  /\ OnlyPackets(h, g)
           /\ \A r \in PacketIds : /\ g.packets[r].deflated = h.packets[r].deflated
                                   /\ g.packets[r].refCount = h.packets[r].refCount
                                   /\ g.packets[r].length = h.packets[r].length
           /\ PacketsSound(g, f)
<1>1. f[p] \in Nat /\ h.packets[p] \in Packet /\ h.packets[p].refCount \in Nat
  BY CountOf DEF PacketsSound
<1> DEFINE x == [h.packets[p] EXCEPT !.flags = flags]
<1>2. /\ x \in Packet /\ x.refCount = h.packets[p].refCount
      /\ x.deflated = h.packets[p].deflated /\ x.flags = flags /\ x.length = h.packets[p].length
  BY <1>1 DEF Packet
<1>3. g = [h EXCEPT !.packets[p] = x]
  BY HostFields DEF SetFlags, HostType
<1>4. h.packets \in [PacketIds -> Packet]
  BY HostFields
<1> HIDE DEF x
<1>5. x.refCount = (f[p] + h.packets[p].refCount) - f[p]
  BY <1>1, <1>2
<1>6. /\ OnlyPacket(h, g, p, x)
      /\ PacketsSound(g, [f EXCEPT ![p] = f[p]])
  <2>1. x.deflated => "COMPRESSED" \in x.flags
    BY <1>2
  <2>2. x.deflated = h.packets[p].deflated \/ h.packets[p].refCount = f[p]
    BY <1>2
  <2>3. f[p] \in Nat /\ x \in Packet
    BY <1>1, <1>2
  <2>4. PICK n : n = f[p]
    OBVIOUS
  <2>5. n \in Nat /\ x.refCount = (n + h.packets[p].refCount) - f[p]
    BY <1>5, <2>3, <2>4
  <2>6. /\ OnlyPacket(h, g, p, x)
        /\ PacketsSound(g, [f EXCEPT ![p] = n])
    BY <1>3, <2>1, <2>2, <2>3, <2>5, PacketChange
  <2> QED BY <2>4, <2>6
<1>7. [f EXCEPT ![p] = f[p]] = f
  BY DEF Counts
<1> QED BY <1>2, <1>4, <1>6, <1>7 DEF OnlyPacket

-----------------------------------------------------------------------------
(* What the operations on queues do.                                       *)

\* What of a host is not packets or queues stays as it is.
SameClients(h, g) ==
    /\ g.instances = h.instances /\ g.joined = h.joined
    /\ \A t \in Slots : /\ g.clients[t].state = h.clients[t].state
                        /\ g.clients[t].group = h.clients[t].group
                        /\ g.clients[t].level = h.clients[t].level
                        /\ g.clients[t].lzf = h.clients[t].lzf
                        /\ g.clients[t].mtu = h.clients[t].mtu

\* Nor do the queues, but for q of slot s.
OnlyQueue(h, g, s, q) == g \in HostType /\ SameClients(h, g) /\ SameOthers(h, g, s, q)

QueueOf(q) == IF q = "incoming" THEN Seq(Incoming) ELSE Seq(Outgoing)

\* It is set to new, and the packets stay as they are.
QueueIs(h, g, s, q, new) ==
    OnlyQueue(h, g, s, q) /\ g.packets = h.packets /\ g.clients[s][q] = new

\* The same of a client.
ClientBut(c, d, q, new) ==
    /\ d \in Client /\ d[q] = new
    /\ d.state = c.state /\ d.group = c.group /\ d.level = c.level /\ d.lzf = c.lzf
    /\ d.mtu = c.mtu
    /\ \A r \in QueueNames : r # q => d[r] = c[r]

\* A client whose queue changes is a client, and only this queue of it changed.
LEMMA ClientQueue ==
    ASSUME NEW c \in Client, NEW q \in QueueNames, NEW new \in QueueOf(q),
           NEW d, d = [c EXCEPT ![q] = new]
    PROVE  ClientBut(c, d, q, new)
<1>1. CASE q = "outgoing"
  BY <1>1 DEF Client, QueueNames, QueueOf, ClientBut
<1>2. CASE q = "sent"
  BY <1>2 DEF Client, QueueNames, QueueOf, ClientBut
<1>3. CASE q = "incoming"
  BY <1>3 DEF Client, QueueNames, QueueOf, ClientBut
<1> QED BY <1>1, <1>2, <1>3 DEF QueueNames

\* A queue is set.
LEMMA QueueSet ==
    ASSUME NEW h \in HostType, NEW s \in Slots, NEW q \in QueueNames, NEW new \in QueueOf(q),
           NEW g, g = [h EXCEPT !.clients[s][q] = new]
    PROVE  QueueIs(h, g, s, q, new)
<1>1. /\ h.clients \in [Slots -> Client] /\ h.packets \in [PacketIds -> Packet]
      /\ h.instances \in [LzfIds -> Instance] /\ h.joined \in SUBSET Groups
      /\ h = [clients |-> h.clients, packets |-> h.packets,
              instances |-> h.instances, joined |-> h.joined]
  BY HostFields
<1>2. h.clients[s] \in Client
  BY <1>1
<1>3. PICK d : d = [h.clients[s] EXCEPT ![q] = new]
  OBVIOUS
<1>4. /\ d \in Client /\ d[q] = new
      /\ d.state = h.clients[s].state /\ d.group = h.clients[s].group
      /\ d.level = h.clients[s].level /\ d.lzf = h.clients[s].lzf
      /\ d.mtu = h.clients[s].mtu
      /\ \A r \in QueueNames : r # q => d[r] = h.clients[s][r]
  <2>1. ClientBut(h.clients[s], d, q, new)
    BY <1>2, <1>3, ClientQueue
  <2> QED BY <2>1 DEF ClientBut
<1>5. g = [h EXCEPT !.clients = [h.clients EXCEPT ![s] = d]]
  BY <1>1, <1>3
<1>6. /\ g.clients = [h.clients EXCEPT ![s] = d] /\ g.packets = h.packets
      /\ g.instances = h.instances /\ g.joined = h.joined
  BY <1>1, <1>5
<1>7. g \in HostType
  BY <1>1, <1>4, <1>5 DEF HostType
<1>8. \A t \in Slots : g.clients[t] = IF t = s THEN d ELSE h.clients[t]
  BY <1>1, <1>6
<1>9. SameClients(h, g)
  BY <1>4, <1>6, <1>8 DEF SameClients
<1>10. ASSUME NEW t \in Slots, NEW r \in QueueNames, ~(t = s /\ r = q)
       PROVE  g.clients[t][r] = h.clients[t][r]
  <2>1. CASE t = s
    BY <1>4, <1>8, <1>10, <2>1
  <2>2. CASE t # s
    BY <1>8, <2>2
  <2> QED BY <2>1, <2>2
<1> QED BY <1>4, <1>6, <1>7, <1>8, <1>9, <1>10 DEF OnlyQueue, SameOthers, QueueIs

\* What is not an incoming queue holds messages to be sent.
LEMMA OutgoingQueue ==
    ASSUME NEW h \in HostType, NEW s \in Slots, NEW q \in QueueNames
    PROVE  /\ h.clients[s][q] \in QueueOf(q) /\ h.clients[s][q] \in Seq(Message)
           /\ q # "incoming" => h.clients[s][q] \in Seq(Outgoing)
<1>1. h.clients[s] \in Client
  BY HostFields
<1>2. /\ h.clients[s].outgoing \in Seq(Outgoing) /\ h.clients[s].sent \in Seq(Outgoing)
      /\ h.clients[s].incoming \in Seq(Incoming)
  BY <1>1, ClientFields
<1>3. h.clients[s][q] \in Seq(Message)
  BY TypedQueued DEF Queued
<1>4. q = "outgoing" \/ q = "sent" \/ q = "incoming"
  BY DEF QueueNames
<1>5. q # "incoming" => h.clients[s][q] \in Seq(Outgoing)
  BY <1>2, <1>4
<1>6. h.clients[s][q] \in QueueOf(q)
  BY <1>2, <1>5 DEF QueueOf
<1> QED BY <1>3, <1>5, <1>6

\* The counts f and a queue come to as much as the counts e and another queue.
Moved(f, old, e, new) ==
    \A r \in PacketIds :
      e[r] + Cardinality(HoldersIn(new, r)) = f[r] + Cardinality(HoldersIn(old, r))

\* Counts move between the queues and the outside.
LEMMA CountedMoved ==
    ASSUME NEW h \in HostType, NEW f \in Counts, Counted(h, f),
           NEW g \in HostType, NEW e \in Counts, NEW s \in Slots, NEW q \in QueueNames,
           SameOthers(h, g, s, q), g.packets = h.packets,
           Moved(f, h.clients[s][q], e, g.clients[s][q])
    PROVE  Counted(g, e)
<1>1. Queued(g) /\ Queued(h)
  BY TypedQueued
<1>2. h.clients[s][q] \in Seq(Message) /\ g.clients[s][q] \in Seq(Message)
  BY <1>1 DEF Queued
<1>3. ASSUME NEW r \in PacketIds
      PROVE  g.packets[r].refCount = e[r] + Cardinality(Messages(g, r))
  <2>1. Cardinality(Messages(g, r)) + Cardinality(HoldersIn(h.clients[s][q], r))
          = Cardinality(Messages(h, r)) + Cardinality(HoldersIn(g.clients[s][q], r))
    BY <1>1, QueueChange
  <2>2. Cardinality(Messages(h, r)) \in Nat /\ Cardinality(Messages(g, r)) \in Nat
    BY MessagesCount
  <2>3. h.packets[r].refCount = f[r] + Cardinality(Messages(h, r))
    BY DEF Counted
  <2>4. e[r] + Cardinality(HoldersIn(g.clients[s][q], r))
          = f[r] + Cardinality(HoldersIn(h.clients[s][q], r))
    BY DEF Moved
  <2>5. /\ Cardinality(HoldersIn(h.clients[s][q], r)) \in Nat
        /\ Cardinality(HoldersIn(g.clients[s][q], r)) \in Nat
    BY <1>2, HoldersFinite
  <2>6. e[r] \in Nat /\ f[r] \in Nat
    BY DEF Counts
  <2> QED BY <2>1, <2>2, <2>3, <2>4, <2>5, <2>6
<1> QED BY <1>3 DEF Counted

\* The references from outside are more by what a queue holds less.
LEMMA QueueSound ==
    ASSUME NEW h \in HostType, NEW f \in Counts, PacketsSound(h, f),
           NEW s \in Slots, NEW q \in QueueNames, NEW new \in QueueOf(q), NEW e \in Counts,
           Moved(f, h.clients[s][q], e, new),
           q # "incoming" => TellsIn(h, new),
           NEW g, g = [h EXCEPT !.clients[s][q] = new]
    PROVE  QueueIs(h, g, s, q, new) /\ PacketsSound(g, e)
<1>0. QueueIs(h, g, s, q, new)
  BY QueueSet
<1>1. OnlyQueue(h, g, s, q) /\ g.packets = h.packets /\ g.clients[s][q] = new
  BY <1>0 DEF QueueIs
<1>4. Counted(g, e)
  BY <1>1, CountedMoved DEF OnlyQueue, PacketsSound
<1>5. ASSUME NEW t \in Slots, NEW r \in QueueNames, r # "incoming"
      PROVE  TellsIn(g, g.clients[t][r])
  <2>1. CASE t = s /\ r = q
    BY <1>1, <1>5, <2>1 DEF TellsIn
  <2>2. CASE ~(t = s /\ r = q)
    <3>1. g.clients[t][r] = h.clients[t][r]
      BY <1>1, <2>2 DEF OnlyQueue, SameOthers
    <3>2. TellsIn(h, h.clients[t].outgoing) /\ TellsIn(h, h.clients[t].sent)
      BY DEF PacketsSound, Tells
    <3>3. r = "outgoing" \/ r = "sent"
      BY <1>5 DEF QueueNames
    <3>4. TellsIn(h, h.clients[t][r])
      BY <3>2, <3>3
    <3> QED BY <1>1, <3>1, <3>4 DEF TellsIn
  <2> QED BY <2>1, <2>2
<1>6. Tells(g)
  BY <1>5 DEF Tells, QueueNames
<1>7. Flagged(g)
  BY <1>1 DEF PacketsSound, Flagged
<1> QED BY <1>0, <1>4, <1>6, <1>7 DEF PacketsSound

\* Queue new is queue old with n more messages m.
More(old, new, m, n) ==
    /\ \A r \in PacketIds : Cardinality(HoldersIn(new, r))
                              = Cardinality(HoldersIn(old, r)) + IF m.packet = r THEN n ELSE 0
    /\ \A k \in DOMAIN new : new[k] = m \/ \E j \in DOMAIN old : new[k] = old[j]
    /\ \A j \in DOMAIN old : \E k \in DOMAIN new : old[j] = new[k]

\* Messages put before or behind a queue are more.
LEMMA MoreConcat ==
    ASSUME NEW Q \in SUBSET Message, NEW old \in Seq(Q), NEW m \in Q, NEW n \in Nat,
           NEW puts, puts = [k \in 1 .. n |-> m]
    PROVE  /\ old \o puts \in Seq(Q) /\ More(old, old \o puts, m, n)
           /\ puts \o old \in Seq(Q) /\ More(old, puts \o old, m, n)
<1>1. puts \in Seq(Q) /\ Len(puts) = n /\ \A k \in 1 .. n : puts[k] = m
  OBVIOUS
<1>2. old \in Seq(Message) /\ puts \in Seq(Message)
  BY <1>1
<1>3. /\ old \o puts \in Seq(Q) /\ Len(old \o puts) = Len(old) + n
      /\ \A i \in 1 .. (Len(old) + n) :
           (old \o puts)[i] = IF i <= Len(old) THEN old[i] ELSE puts[i - Len(old)]
  BY <1>1, ConcatProperties
<1>4. /\ puts \o old \in Seq(Q) /\ Len(puts \o old) = n + Len(old)
      /\ \A i \in 1 .. (n + Len(old)) :
           (puts \o old)[i] = IF i <= n THEN puts[i] ELSE old[i - n]
  BY <1>1, ConcatProperties
<1>5. ASSUME NEW r \in PacketIds
      PROVE  /\ Cardinality(HoldersIn(old \o puts, r))
                  = Cardinality(HoldersIn(old, r)) + IF m.packet = r THEN n ELSE 0
             /\ Cardinality(HoldersIn(puts \o old, r))
                  = Cardinality(HoldersIn(old, r)) + IF m.packet = r THEN n ELSE 0
  <2>1. Cardinality(HoldersIn(puts, r)) = IF m.packet = r THEN n ELSE 0
    BY HoldersOfSame
  <2>2. Cardinality(HoldersIn(old \o puts, r))
          = Cardinality(HoldersIn(old, r)) + Cardinality(HoldersIn(puts, r))
    BY <1>2, HoldersConcat
  <2>3. Cardinality(HoldersIn(puts \o old, r))
          = Cardinality(HoldersIn(puts, r)) + Cardinality(HoldersIn(old, r))
    BY <1>2, HoldersConcat
  <2>4. Cardinality(HoldersIn(old, r)) \in Nat
    BY <1>2, HoldersFinite
  <2> QED BY <2>1, <2>2, <2>3, <2>4
<1>6. PICK l : l = Len(old)
  OBVIOUS
<1>7. l \in Nat /\ \A i \in 1 .. l : i \in DOMAIN old
  BY <1>6
<1>8. More(old, old \o puts, m, n)
  <2>1. ASSUME NEW k \in 1 .. (l + n)
        PROVE  (old \o puts)[k] = m \/ \E j \in DOMAIN old : (old \o puts)[k] = old[j]
    <3>1. CASE k <= l
      BY <1>3, <1>6, <1>7, <3>1
    <3>2. CASE ~(k <= l)
      <4>1. k - l \in 1 .. n /\ (old \o puts)[k] = puts[k - l]
        BY <1>3, <1>6, <1>7, <3>2
      <4> QED BY <1>1, <4>1
    <3> QED BY <3>1, <3>2
  <2>2. ASSUME NEW j \in 1 .. l PROVE j \in 1 .. (l + n) /\ old[j] = (old \o puts)[j]
    BY <1>3, <1>6, <1>7
  <2>3. DOMAIN (old \o puts) = 1 .. (l + n) /\ DOMAIN old = 1 .. l
    BY <1>3, <1>6
  <2> QED BY <1>5, <2>1, <2>2, <2>3 DEF More
<1>9. More(old, puts \o old, m, n)
  <2>1. ASSUME NEW k \in 1 .. (n + l)
        PROVE  (puts \o old)[k] = m \/ \E j \in DOMAIN old : (puts \o old)[k] = old[j]
    <3>1. CASE k <= n
      BY <1>1, <1>4, <1>6, <1>7, <3>1
    <3>2. CASE ~(k <= n)
      <4>1. k - n \in 1 .. l /\ (puts \o old)[k] = old[k - n]
        BY <1>4, <1>6, <1>7, <3>2
      <4> QED BY <1>7, <4>1
    <3> QED BY <3>1, <3>2
  <2>2. ASSUME NEW j \in 1 .. l PROVE n + j \in 1 .. (n + l) /\ old[j] = (puts \o old)[n + j]
    <3>1. n + j \in 1 .. (n + l) /\ ~(n + j <= n) /\ (n + j) - n = j
      BY <1>7
    <3> QED BY <1>4, <1>6, <3>1
  <2>3. DOMAIN (puts \o old) = 1 .. (n + l) /\ DOMAIN old = 1 .. l
    BY <1>4, <1>6
  <2> QED BY <1>5, <2>1, <2>2, <2>3 DEF More
<1> QED BY <1>3, <1>4, <1>8, <1>9

\* So is the message put behind or before it.
LEMMA MoreOne ==
    ASSUME NEW Q \in SUBSET Message, NEW old \in Seq(Q), NEW m \in Q
    PROVE  /\ Append(old, m) \in Seq(Q) /\ More(old, Append(old, m), m, 1)
           /\ <<m>> \o old \in Seq(Q) /\ More(old, <<m>> \o old, m, 1)
<1>1. PICK n : n = 1
  OBVIOUS
<1>2. PICK puts : puts = [k \in 1 .. n |-> m]
  OBVIOUS
<1>3. /\ old \o puts \in Seq(Q) /\ More(old, old \o puts, m, n)
      /\ puts \o old \in Seq(Q) /\ More(old, puts \o old, m, n)
  BY <1>1, <1>2, MoreConcat
<1>4. puts = <<m>>
  BY <1>1, <1>2
<1>5. Append(old, m) = old \o <<m>>
  OBVIOUS
<1> QED BY <1>1, <1>3, <1>4, <1>5

\* A queue is more than it is without one of its messages.
LEMMA MoreWithout ==
    ASSUME NEW Q \in SUBSET Message, NEW old \in Seq(Q), NEW k \in DOMAIN old
    PROVE  RemoveAt(old, k) \in Seq(Q) /\ More(RemoveAt(old, k), old, old[k], 1)
<1>1. k \in 1 .. Len(old) /\ Len(old) \in Nat /\ old \in Seq(Message)
  OBVIOUS
<1>2. PICK a : a = SubSeq(old, 1, k - 1)
  OBVIOUS
<1>3. PICK b : b = SubSeq(old, k + 1, Len(old))
  OBVIOUS
<1>4. PICK n : n = Len(old)
  OBVIOUS
<1>5. /\ a \in Seq(Q) /\ Len(a) = k - 1
      /\ \A i \in 1 .. (k - 1) : a[i] = old[i]
  BY <1>1, <1>2, SubSeqProperties
<1>6. /\ b \in Seq(Q) /\ Len(b) = n - k
      /\ \A i \in 1 .. (n - k) : b[i] = old[k + i]
  BY <1>1, <1>3, <1>4, SubSeqProperties, SMTT(60)
<1>7. n \in Nat /\ k \in 1 .. n
  BY <1>1, <1>4
<1>8. PICK c : c = RemoveAt(old, k)
  OBVIOUS
<1>9. /\ c \in Seq(Q) /\ Len(c) = n - 1
      /\ \A i \in 1 .. (n - 1) : c[i] = IF i <= k - 1 THEN a[i] ELSE b[i - (k - 1)]
  <2>1. c = a \o b
    BY <1>2, <1>3, <1>8 DEF RemoveAt
  <2>2. /\ c \in Seq(Q) /\ Len(c) = Len(a) + Len(b)
        /\ \A i \in 1 .. (Len(a) + Len(b)) : c[i] = IF i <= Len(a) THEN a[i] ELSE b[i - Len(a)]
    BY <1>5, <1>6, <2>1, ConcatProperties
  <2>3. Len(a) + Len(b) = n - 1
    BY <1>5, <1>6, <1>7
  <2> QED BY <1>5, <2>2, <2>3
<1>10. ASSUME NEW r \in PacketIds
       PROVE  Cardinality(HoldersIn(old, r))
                = Cardinality(HoldersIn(c, r)) + IF old[k].packet = r THEN 1 ELSE 0
  BY <1>1, <1>8, HoldersWithout
<1>11. ASSUME NEW i \in 1 .. n PROVE old[i] = old[k] \/ \E j \in 1 .. (n - 1) : old[i] = c[j]
  <2>1. CASE i < k
    <3>1. i \in 1 .. (n - 1) /\ i <= k - 1 /\ i \in 1 .. (k - 1)
      BY <1>7, <2>1
    <3>2. c[i] = a[i] /\ a[i] = old[i]
      BY <1>5, <1>9, <3>1
    <3> QED BY <3>1, <3>2
  <2>2. CASE i > k
    <3>1. /\ i - 1 \in 1 .. (n - 1) /\ ~(i - 1 <= k - 1) /\ (i - 1) - (k - 1) = i - k
          /\ i - k \in 1 .. (n - k) /\ k + (i - k) = i
      BY <1>7, <2>2
    <3>2. c[i - 1] = b[(i - 1) - (k - 1)]
      BY <1>9, <3>1
    <3>3. b[i - k] = old[k + (i - k)]
      BY <1>6, <3>1
    <3> QED BY <3>1, <3>2, <3>3
  <2>3. CASE i = k
    BY <2>3
  <2> QED BY <1>7, <2>1, <2>2, <2>3
<1>12. ASSUME NEW j \in 1 .. (n - 1) PROVE \E i \in 1 .. n : c[j] = old[i]
  <2>1. CASE j <= k - 1
    <3>1. c[j] = a[j] /\ a[j] = old[j] /\ j \in 1 .. n
      BY <1>5, <1>7, <1>9, <2>1
    <3> QED BY <3>1
  <2>2. CASE ~(j <= k - 1)
    <3>1. /\ j - (k - 1) \in 1 .. (n - k) /\ k + (j - (k - 1)) = j + 1 /\ j + 1 \in 1 .. n
      BY <1>7, <2>2
    <3>2. c[j] = b[j - (k - 1)]
      BY <1>9, <2>2
    <3>3. b[j - (k - 1)] = old[k + (j - (k - 1))]
      BY <1>6, <3>1
    <3> QED BY <3>1, <3>2, <3>3
  <2> QED BY <2>1, <2>2
<1>13. DOMAIN old = 1 .. n /\ DOMAIN c = 1 .. (n - 1)
  BY <1>1, <1>4, <1>7, <1>9
<1>14. More(c, old, old[k], 1)
  BY <1>10, <1>11, <1>12, <1>13 DEF More
<1> QED BY <1>8, <1>9, <1>14

\* A queue of a client becomes another.
WithQueue(h, s, q, new) == [h EXCEPT !.clients[s][q] = new]

\* A caller has n references of packet p less.
Fewer(f, p, n) == [f EXCEPT ![p] = f[p] - n]

\* A queue that gets n more messages takes as many references from the caller.
LEMMA MoreSound ==
    ASSUME NEW h \in HostType, NEW f \in Counts, PacketsSound(h, f),
           NEW s \in Slots, NEW q \in QueueNames, NEW new \in QueueOf(q),
           NEW m, NEW p \in PacketIds, m.packet = p, NEW n \in Nat, n <= f[p],
           More(h.clients[s][q], new, m, n),
           q # "incoming" => m.compressed = h.packets[p].deflated,
           NEW e, e = Fewer(f, p, n), NEW g, g = WithQueue(h, s, q, new)
    PROVE  QueueIs(h, g, s, q, new) /\ e \in Counts /\ PacketsSound(g, e)
<1>1. e = [f EXCEPT ![p] = f[p] - n]
  BY DEF Fewer
<1>2. PICK old : old = h.clients[s][q]
  OBVIOUS
<1>3. f \in [PacketIds -> Nat]
  BY DEF Counts
<1>4. e \in Counts
  BY <1>1, <1>3 DEF Counts
<1>5. old \in QueueOf(q) /\ old \in Seq(Message)
  BY <1>2, OutgoingQueue
<1>6. Moved(f, old, e, new)
  <2>1. ASSUME NEW r \in PacketIds
        PROVE  e[r] + Cardinality(HoldersIn(new, r)) = f[r] + Cardinality(HoldersIn(old, r))
    <3>1. Cardinality(HoldersIn(new, r)) = Cardinality(HoldersIn(old, r)) + IF p = r THEN n ELSE 0
      BY <1>2 DEF More
    <3>2. Cardinality(HoldersIn(old, r)) \in Nat
      BY <1>5, HoldersFinite
    <3>3. f[r] \in Nat /\ e[r] = IF r = p THEN f[p] - n ELSE f[r]
      BY <1>1, <1>3
    <3> QED BY <3>1, <3>2, <3>3
  <2> QED BY <2>1 DEF Moved
<1>7. ASSUME q # "incoming" PROVE TellsIn(h, new)
  <2>1. TellsIn(h, old)
    <3>1. q = "outgoing" \/ q = "sent"
      BY <1>7 DEF QueueNames
    <3>2. TellsIn(h, h.clients[s].outgoing) /\ TellsIn(h, h.clients[s].sent)
      BY DEF PacketsSound, Tells
    <3> QED BY <1>2, <3>1, <3>2
  <2>2. ASSUME NEW k \in DOMAIN new PROVE new[k].compressed = h.packets[new[k].packet].deflated
    <3>1. new[k] = m \/ \E j \in DOMAIN old : new[k] = old[j]
      BY <1>2 DEF More
    <3> QED BY <1>7, <2>1, <3>1 DEF TellsIn
  <2> QED BY <2>2 DEF TellsIn
<1>8. QueueIs(h, g, s, q, new) /\ PacketsSound(g, e)
  <2>1. g = [h EXCEPT !.clients[s][q] = new]
    BY DEF WithQueue
  <2> QED BY <1>2, <1>4, <1>6, <1>7, <2>1, QueueSound
<1> QED BY <1>4, <1>8

\* A message that is taken from a queue leaves its reference to the caller.
LEMMA WithoutSound ==
    ASSUME NEW h \in HostType, NEW f \in Counts, PacketsSound(h, f),
           NEW s \in Slots, NEW q \in QueueNames, NEW k \in DOMAIN h.clients[s][q],
           NEW m, m = h.clients[s][q][k], NEW p, p = m.packet,
           NEW e, e = OneMore(f, p), NEW g, g = Without(h, s, q, k)
    PROVE  /\ p \in PacketIds
           /\ q # "incoming" => m \in Outgoing /\ m.compressed = h.packets[p].deflated
           /\ QueueIs(h, g, s, q, RemoveAt(h.clients[s][q], k))
           /\ e \in Counts /\ PacketsSound(g, e)
<1>1. PICK old : old = h.clients[s][q]
  OBVIOUS
<1>2. PICK new : new = RemoveAt(old, k)
  OBVIOUS
<1>3. old \in QueueOf(q) /\ old \in Seq(Message) /\ (q # "incoming" => old \in Seq(Outgoing))
  BY <1>1, OutgoingQueue
<1>4. m = old[k] /\ k \in DOMAIN old
  BY <1>1
<1>5. PICK Q : Q = IF q = "incoming" THEN Incoming ELSE Outgoing
  OBVIOUS
<1>6. Q \in SUBSET Message /\ QueueOf(q) = Seq(Q)
  BY <1>5 DEF Message, QueueOf
<1>7. new \in QueueOf(q) /\ More(new, old, m, 1)
  BY <1>2, <1>3, <1>4, <1>6, MoreWithout
<1>8. m \in Q
  BY <1>3, <1>4, <1>6
<1>9. p \in PacketIds
  BY <1>5, <1>8 DEF Incoming, Outgoing
<1>10. ASSUME q # "incoming" PROVE TellsIn(h, old)
  <2>1. q = "outgoing" \/ q = "sent"
    BY <1>10 DEF QueueNames
  <2>2. TellsIn(h, h.clients[s].outgoing) /\ TellsIn(h, h.clients[s].sent)
    BY DEF PacketsSound, Tells
  <2> QED BY <1>1, <2>1, <2>2
<1>11. ASSUME q # "incoming" PROVE m \in Outgoing /\ m.compressed = h.packets[p].deflated
  BY <1>4, <1>5, <1>8, <1>10, <1>11 DEF TellsIn
<1>12. f \in [PacketIds -> Nat]
  BY DEF Counts
<1>13. e \in Counts
  BY <1>9, <1>12 DEF Counts, OneMore
<1>14. Moved(f, old, e, new)
  <2>1. ASSUME NEW r \in PacketIds
        PROVE  e[r] + Cardinality(HoldersIn(new, r)) = f[r] + Cardinality(HoldersIn(old, r))
    <3>1. Cardinality(HoldersIn(old, r)) = Cardinality(HoldersIn(new, r)) + IF p = r THEN 1 ELSE 0
      BY <1>7 DEF More
    <3>2. Cardinality(HoldersIn(new, r)) \in Nat
      <4>1. new \in Seq(Message)
        BY <1>6, <1>7
      <4> QED BY <4>1, HoldersFinite
    <3>3. f[r] \in Nat /\ e[r] = IF r = p THEN f[p] + 1 ELSE f[r]
      BY <1>9, <1>12 DEF OneMore
    <3> QED BY <3>1, <3>2, <3>3, SMTT(60)
  <2> QED BY <2>1 DEF Moved
<1>15. ASSUME q # "incoming" PROVE TellsIn(h, new)
  <2>1. ASSUME NEW i \in DOMAIN new PROVE new[i].compressed = h.packets[new[i].packet].deflated
    <3>1. \E j \in DOMAIN old : new[i] = old[j]
      BY <1>7 DEF More
    <3> QED BY <1>10, <1>15, <3>1 DEF TellsIn
  <2> QED BY <2>1 DEF TellsIn
<1>16. g = [h EXCEPT !.clients[s][q] = new]
  <2>1. HostType = HostType /\ h.clients \in [Slots -> Client] /\ h.clients[s] \in Client
    BY HostFields
  <2> QED BY <1>1, <1>2 DEF Without
<1>17. QueueIs(h, g, s, q, new) /\ PacketsSound(g, e)
  BY <1>1, <1>7, <1>13, <1>14, <1>15, <1>16, QueueSound, SMTT(60)
<1> QED BY <1>1, <1>2, <1>9, <1>11, <1>13, <1>17

\* What is deflated stays so, and what is not, while the caller has references of it.
Steady(h, g, f) ==
    \A r \in PacketIds : f[r] > 0 => g.packets[r].deflated = h.packets[r].deflated

\* What of a host is not packets or queues of clients stays as it is.
KeepsRest(h, g) ==
    /\ g \in HostType /\ SameClients(h, g)
    /\ \A s \in Slots, q \in QueueNames : Free(h, s) => g.clients[s][q] = h.clients[s][q]

\* What changes packets or a queue of a client keeps the rest.
LEMMA RestKept ==
    ASSUME NEW h, NEW g, NEW s \in Slots, NEW q \in QueueNames,
           OnlyPackets(h, g) \/ (OnlyQueue(h, g, s, q) /\ ~Free(h, s))
    PROVE  KeepsRest(h, g)
<1>1. CASE OnlyPackets(h, g)
  BY <1>1 DEF OnlyPackets, KeepsRest, SameClients
<1>2. CASE OnlyQueue(h, g, s, q) /\ ~Free(h, s)
  <2>1. ASSUME NEW t \in Slots, NEW r \in QueueNames, Free(h, t)
        PROVE  g.clients[t][r] = h.clients[t][r]
    <3>1. ~(t = s /\ r = q)
      BY <1>2, <2>1
    <3> QED BY <1>2, <3>1 DEF OnlyQueue, SameOthers
  <2> QED BY <1>2, <2>1 DEF OnlyQueue, KeepsRest
<1> QED BY <1>1, <1>2

\* So do two such changes.
LEMMA RestKeptTwice ==
    ASSUME NEW h, NEW g, NEW e, KeepsRest(h, g), KeepsRest(g, e)
    PROVE  KeepsRest(h, e)
<1>1. SameClients(h, e)
  BY DEF KeepsRest, SameClients
<1>2. ASSUME NEW s \in Slots, NEW q \in QueueNames, Free(h, s)
      PROVE  e.clients[s][q] = h.clients[s][q]
  <2>1. Free(g, s)
    BY <1>2 DEF KeepsRest, SameClients, Free
  <2> QED BY <1>2, <2>1 DEF KeepsRest
<1> QED BY <1>1, <1>2 DEF KeepsRest

\* Parts of a packet are queued: each takes a reference of its own.
LEMMA QueueOutgoingSound ==
    ASSUME NEW h \in HostType, NEW f \in Counts, PacketsSound(h, f),
           NEW s \in Slots, ~Free(h, s), NEW p \in PacketIds, f[p] > 0,
           NEW compressed \in BOOLEAN, compressed = h.packets[p].deflated, NEW n \in Nat,
           NEW g, g = QueueOutgoing(h, s, p, compressed, n)
    PROVE  /\ PacketsSound(g, f) /\ KeepsRest(h, g)
           /\ \A r \in PacketIds : g.packets[r].deflated = h.packets[r].deflated
           /\ FreePackets(g) = FreePackets(h)
<1>1. /\ f[p] \in Nat /\ h.packets[p] \in Packet /\ h.packets[p].refCount \in Nat
      /\ f[p] <= h.packets[p].refCount
  BY CountOf DEF PacketsSound
<1>2. PICK x : x = [h.packets[p] EXCEPT !.refCount = @ + n]
  OBVIOUS
<1>3. /\ x \in Packet /\ x.refCount = h.packets[p].refCount + n
      /\ x.deflated = h.packets[p].deflated /\ x.flags = h.packets[p].flags
  BY <1>1, <1>2 DEF Packet
<1>4. PICK i : i = [h EXCEPT !.packets[p] = x]
  OBVIOUS
<1>5. PICK total : total = f[p] + n
  OBVIOUS
<1>6. PICK e : e = [f EXCEPT ![p] = total]
  OBVIOUS
<1>7. OnlyPacket(h, i, p, x) /\ e \in Counts /\ PacketsSound(i, e)
  <2>1. x.refCount = (total + h.packets[p].refCount) - f[p] /\ total \in Nat
    BY <1>1, <1>3, <1>5
  <2>2. x.deflated => "COMPRESSED" \in x.flags
    BY <1>3 DEF PacketsSound, Flagged
  <2> QED BY <1>3, <1>4, <1>6, <2>1, <2>2, PacketChange
<1>8. /\ i \in HostType /\ i.clients = h.clients
      /\ i.packets = [h.packets EXCEPT ![p] = x] /\ h.packets \in [PacketIds -> Packet]
  BY <1>7, HostFields DEF OnlyPacket, OnlyPackets
<1>9. PICK m : m = [packet |-> p, reliable |-> "RELIABLE" \in h.packets[p].flags,
                    compressed |-> compressed]
  OBVIOUS
<1>10. m \in Outgoing /\ m.packet = p /\ m.compressed = compressed
  BY <1>9 DEF Outgoing
<1>11. PICK puts : puts = [k \in 1 .. n |-> m]
  OBVIOUS
<1>12. PICK old : old = h.clients[s].outgoing
  OBVIOUS
<1>13. old \in Seq(Outgoing) /\ old = i.clients[s]["outgoing"]
  BY <1>8, <1>12, OutgoingQueue DEF QueueNames
<1>14. old \o puts \in Seq(Outgoing) /\ More(old, old \o puts, m, n)
  <2>1. Outgoing \in SUBSET Message
    BY DEF Message
  <2> QED BY <1>10, <1>11, <1>13, <2>1, MoreConcat
<1>15. g = [i EXCEPT !.clients[s]["outgoing"] = old \o puts]
  <2>1. h.clients[s] \in Client
    BY HostFields
  <2>2. /\ h = [clients |-> h.clients, packets |-> h.packets,
               instances |-> h.instances, joined |-> h.joined]
        /\ h.clients \in [Slots -> Client]
    BY HostFields
  <2>3. g = [h EXCEPT !.packets[p].refCount = @ + n, !.clients[s].outgoing = @ \o puts]
    BY <1>9, <1>11 DEF QueueOutgoing
  <2>4. g = [h EXCEPT !.packets[p] = x, !.clients[s].outgoing = old \o puts]
    BY <1>2, <1>12, <2>3
  <2>5. [h EXCEPT !.packets[p] = x, !.clients[s].outgoing = old \o puts]
          = [[h EXCEPT !.packets[p] = x] EXCEPT !.clients[s]["outgoing"] = old \o puts]
    OBVIOUS
  <2> QED BY <1>4, <2>4, <2>5, Zenon
<1>16. "outgoing" \in QueueNames /\ old \o puts \in QueueOf("outgoing")
  BY <1>14 DEF QueueNames, QueueOf
<1>17. n <= e[p] /\ e[p] - n = f[p] /\ m.compressed = i.packets[p].deflated
  <2>1. e[p] = f[p] + n
    BY <1>5, <1>6 DEF Counts
  <2>2. i.packets[p] = x
    BY <1>8
  <2> QED BY <1>1, <1>3, <1>10, <2>1, <2>2
<1>18. /\ QueueIs(i, g, s, "outgoing", old \o puts)
       /\ PacketsSound(g, Fewer(e, p, n))
  <2>1. PICK new : new = old \o puts
    OBVIOUS
  <2>2. PICK q : q = "outgoing"
    OBVIOUS
  <2>3. PICK c : c = i.clients[s][q]
    OBVIOUS
  <2>4. g = WithQueue(i, s, q, new) /\ More(i.clients[s][q], new, m, n)
    BY <1>13, <1>14, <1>15, <2>1, <2>2 DEF WithQueue
  <2>5. q \in QueueNames /\ new \in QueueOf(q)
    BY <1>16, <2>1, <2>2
  <2>6. m.packet = p /\ n <= e[p] /\ (q # "incoming" => m.compressed = i.packets[p].deflated)
    BY <1>10, <1>17
  <2>7. QueueIs(i, g, s, q, new) /\ PacketsSound(g, Fewer(e, p, n))
    BY <1>7, <1>8, <2>4, <2>5, <2>6, MoreSound
  <2> QED BY <2>1, <2>2, <2>7
<1>19. Fewer(e, p, n) = f
  <2>1. e = [f EXCEPT ![p] = total] /\ f \in [PacketIds -> Nat]
    BY <1>6 DEF Counts
  <2> QED BY <1>17, <2>1 DEF Fewer
<1>20. PacketsSound(g, f)
  BY <1>18, <1>19
<1>21. g.packets = i.packets
  BY <1>18 DEF QueueIs
<1>22. \A r \in PacketIds : g.packets[r].deflated = h.packets[r].deflated
  BY <1>3, <1>8, <1>21
<1>23. \A r \in PacketIds : r # p => g.packets[r].refCount = h.packets[r].refCount
  BY <1>8, <1>21
<1>24. g.packets[p].refCount # 0 /\ h.packets[p].refCount # 0
  <2>1. g.packets[p].refCount = h.packets[p].refCount + n
    BY <1>3, <1>8, <1>21
  <2> QED BY <1>1, <2>1
<1>25. FreePackets(g) = FreePackets(h)
  BY <1>23, <1>24 DEF FreePackets
<1>26. KeepsRest(h, g)
  <2>1. OnlyPackets(h, i)
    BY <1>7 DEF OnlyPacket
  <2>2. OnlyQueue(i, g, s, "outgoing")
    BY <1>18 DEF QueueIs
  <2>3. ~Free(i, s)
    BY <1>8 DEF Free
  <2> QED BY <1>16, <2>1, <2>2, <2>3, RestKept, RestKeptTwice
<1> QED BY <1>20, <1>22, <1>25, <1>26

\* A packet that gives up some of its references.
LEMMA ReleasedIs ==
    ASSUME NEW packet \in Packet, NEW n \in Nat, n <= packet.refCount,
           NEW x, x = Released(packet, n)
    PROVE  /\ x \in Packet /\ x.refCount = packet.refCount - n
           /\ packet.refCount = n => ~x.deflated
           /\ packet.refCount # n => x.deflated = packet.deflated /\ x.flags = packet.flags
<1>1. packet.refCount \in Nat
  BY DEF Packet
<1>2. CASE packet.refCount = n
  BY <1>1, <1>2 DEF Packet, Released, NoPacket
<1>3. CASE packet.refCount # n
  <2>1. x = [packet EXCEPT !.refCount = @ - n]
    BY <1>3 DEF Released
  <2>2. packet.refCount - n \in Nat
    BY <1>1
  <2> QED BY <1>1, <1>3, <2>1, <2>2 DEF Packet
<1> QED BY <1>2, <1>3

\* All packets give up the references the caller has above those it keeps.
LEMMA ReleaseAll ==
    ASSUME NEW h \in HostType, NEW f \in Counts, PacketsSound(h, f), NEW e \in Counts,
           \A r \in PacketIds : e[r] <= f[r],
           NEW new, new = [r \in PacketIds |-> Released(h.packets[r], f[r] - e[r])],
           NEW g, g = [h EXCEPT !.packets = new]
    PROVE  OnlyPackets(h, g) /\ PacketsSound(g, e) /\ Steady(h, g, e)
<1>1. h.packets \in [PacketIds -> Packet]
  BY HostFields
<1>2. ASSUME NEW r \in PacketIds
      PROVE  /\ e[r] \in Nat /\ f[r] \in Nat /\ h.packets[r].refCount \in Nat
             /\ f[r] <= h.packets[r].refCount
             /\ new[r] \in Packet
             /\ new[r].refCount = h.packets[r].refCount - (f[r] - e[r])
             /\ h.packets[r].refCount = f[r] - e[r] => ~new[r].deflated
             /\ h.packets[r].refCount # f[r] - e[r] => /\ new[r].deflated = h.packets[r].deflated
                                                       /\ new[r].flags = h.packets[r].flags
  <2>1. /\ f[r] \in Nat /\ h.packets[r] \in Packet /\ h.packets[r].refCount \in Nat
        /\ f[r] <= h.packets[r].refCount
    BY CountOf DEF PacketsSound
  <2>2. e[r] \in Nat
    BY DEF Counts
  <2>3. PICK n : n = f[r] - e[r]
    OBVIOUS
  <2>4. n \in Nat /\ n <= h.packets[r].refCount
    BY <2>1, <2>2, <2>3
  <2>5. PICK x : x = Released(h.packets[r], n)
    OBVIOUS
  <2>6. new[r] = x
    BY <2>3, <2>5
  <2>7. /\ x \in Packet /\ x.refCount = h.packets[r].refCount - n
        /\ h.packets[r].refCount = n => ~x.deflated
        /\ h.packets[r].refCount # n => /\ x.deflated = h.packets[r].deflated
                                        /\ x.flags = h.packets[r].flags
    BY <2>1, <2>4, <2>5, ReleasedIs
  <2> QED BY <2>1, <2>2, <2>3, <2>6, <2>7
<1>3. new \in [PacketIds -> Packet]
  BY <1>2
<1>4. /\ g \in HostType /\ g.clients = h.clients /\ g.instances = h.instances
      /\ g.joined = h.joined /\ g.packets = new
  BY <1>3 DEF HostType
<1>5. Counted(g, e)
  <2>1. ASSUME NEW r \in PacketIds
        PROVE  g.packets[r].refCount = e[r] + Cardinality(Messages(g, r))
    <3>1. Messages(g, r) = Messages(h, r)
      BY <1>4 DEF Messages
    <3>2. h.packets[r].refCount = f[r] + Cardinality(Messages(h, r))
      BY DEF PacketsSound, Counted
    <3>3. Cardinality(Messages(h, r)) \in Nat
      BY MessagesCount
    <3>4. g.packets[r].refCount = h.packets[r].refCount - (f[r] - e[r])
      BY <1>2, <1>4
    <3>5. e[r] \in Nat /\ f[r] \in Nat
      BY <1>2
    <3> QED BY <3>1, <3>2, <3>3, <3>4, <3>5
  <2> QED BY <2>1 DEF Counted
<1>6. ASSUME NEW s \in Slots, NEW q \in {"outgoing", "sent"}, NEW k \in DOMAIN h.clients[s][q]
      PROVE  h.clients[s][q][k].compressed = g.packets[h.clients[s][q][k].packet].deflated
  <2>1. h.clients[s][q][k].compressed = h.packets[h.clients[s][q][k].packet].deflated
    BY SMTT(60) DEF PacketsSound, Tells, TellsIn
  <2>2. PICK r : r = h.clients[s][q][k].packet
    OBVIOUS
  <2>3. r \in PacketIds
    <3>1. h.clients[s][q] \in Seq(Outgoing)
      BY OutgoingQueue DEF QueueNames
    <3>2. h.clients[s][q][k] \in Outgoing
      BY <3>1
    <3> QED BY <2>2, <3>2 DEF Outgoing
  <2>4. h.packets[r].refCount # f[r]
    <3>1. q \in QueueNames /\ Counted(h, f)
      BY DEF PacketsSound, QueueNames
    <3>2. h.packets[r].refCount = f[r] => h.clients[s][q][k].packet # r
      BY <2>3, <3>1, NoneHeld
    <3> QED BY <2>2, <3>2
  <2>5. /\ e[r] \in Nat /\ f[r] \in Nat /\ h.packets[r].refCount \in Nat
        /\ f[r] <= h.packets[r].refCount
    BY <1>2, <2>3
  <2>6. h.packets[r].refCount # f[r] - e[r]
    BY <2>4, <2>5
  <2>7. g.packets[r].deflated = h.packets[r].deflated
    BY <1>2, <1>4, <2>3, <2>6
  <2> QED BY <2>1, <2>2, <2>7
<1>7. Tells(g)
  <2>1. ASSUME NEW s \in Slots, NEW q \in {"outgoing", "sent"} PROVE TellsIn(g, g.clients[s][q])
    <3>1. g.clients[s][q] = h.clients[s][q]
      BY <1>4
    <3>2. TellsIn(g, h.clients[s][q])
      BY <1>6, Zenon DEF TellsIn
    <3> QED BY <3>1, <3>2, Zenon
  <2> QED BY <2>1 DEF Tells
<1>8. Flagged(g)
  <2>1. ASSUME NEW r \in PacketIds, g.packets[r].deflated
        PROVE  "COMPRESSED" \in g.packets[r].flags
    <3>1. h.packets[r].refCount # f[r] - e[r]
      BY <1>2, <1>4, <2>1
    <3>2. g.packets[r].deflated = h.packets[r].deflated /\ g.packets[r].flags = h.packets[r].flags
      BY <1>2, <1>4, <3>1
    <3> QED BY <2>1, <3>2 DEF PacketsSound, Flagged
  <2> QED BY <2>1 DEF Flagged
<1>9. ASSUME NEW r \in PacketIds, e[r] > 0
      PROVE  g.packets[r].deflated = h.packets[r].deflated
  <2>1. /\ e[r] \in Nat /\ f[r] \in Nat /\ h.packets[r].refCount \in Nat
        /\ f[r] <= h.packets[r].refCount
    BY <1>2
  <2>2. h.packets[r].refCount # f[r] - e[r]
    BY <1>9, <2>1
  <2> QED BY <1>2, <1>4, <2>2
<1> QED BY <1>4, <1>5, <1>7, <1>8, <1>9 DEF PacketsSound, OnlyPackets, Steady

\* A queue is cleared.
LEMMA QueueClearSound ==
    ASSUME NEW h \in HostType, NEW f \in Counts, PacketsSound(h, f),
           NEW s \in Slots, NEW q \in QueueNames, NEW g, g = QueueClear(h, s, q)
    PROVE  /\ OnlyQueue(h, g, s, q) /\ g.clients[s][q] = <<>>
           /\ PacketsSound(g, f) /\ Steady(h, g, f)
<1>1. PICK old : old = h.clients[s][q]
  OBVIOUS
<1>2. old \in Seq(Message)
  BY <1>1, OutgoingQueue
<1>3. PICK e : e = [r \in PacketIds |-> f[r] + Cardinality(HoldersIn(old, r))]
  OBVIOUS
<1>4. ASSUME NEW r \in PacketIds
      PROVE  /\ f[r] \in Nat /\ Cardinality(HoldersIn(old, r)) \in Nat
             /\ e[r] = f[r] + Cardinality(HoldersIn(old, r))
  BY <1>2, <1>3, HoldersFinite DEF Counts
<1>5. e \in Counts
  <2>1. \A r \in PacketIds : f[r] + Cardinality(HoldersIn(old, r)) \in Nat
    BY <1>4
  <2> QED BY <1>3, <2>1 DEF Counts
<1>6. PICK new : new = <<>>
  OBVIOUS
<1>7. new \in QueueOf(q) /\ TellsIn(h, new)
  BY <1>6 DEF QueueOf, TellsIn
<1>8. Moved(f, old, e, new)
  <2>1. ASSUME NEW r \in PacketIds
        PROVE  e[r] + Cardinality(HoldersIn(new, r)) = f[r] + Cardinality(HoldersIn(old, r))
    <3>1. HoldersIn(new, r) = {}
      BY <1>6 DEF HoldersIn
    <3>2. Cardinality(HoldersIn(new, r)) = 0
      BY <3>1, FS_EmptySet
    <3> QED BY <1>4, <3>2
  <2> QED BY <2>1 DEF Moved
<1>9. PICK i : i = [h EXCEPT !.clients[s][q] = new]
  OBVIOUS
<1>10. QueueIs(h, i, s, q, new) /\ PacketsSound(i, e)
  BY <1>1, <1>5, <1>7, <1>8, <1>9, QueueSound
<1>11. /\ i \in HostType /\ i.packets = h.packets /\ OnlyQueue(h, i, s, q)
       /\ i.clients[s][q] = <<>>
  BY <1>6, <1>10 DEF QueueIs, OnlyQueue
<1>12. PICK packets : packets = [r \in PacketIds |-> Released(i.packets[r], e[r] - f[r])]
  OBVIOUS
<1>13. packets = [p \in PacketIds |-> Released(h.packets[p],
                     Cardinality(HoldersIn(h.clients[s][q], p)))]
  <2>1. \A r \in PacketIds : e[r] - f[r] = Cardinality(HoldersIn(old, r))
    BY <1>4
  <2> QED BY <1>1, <1>11, <1>12, <2>1
<1>14. g = [i EXCEPT !.packets = packets]
  <2>1. h = [clients |-> h.clients, packets |-> h.packets,
             instances |-> h.instances, joined |-> h.joined]
    BY HostFields
  <2>2. g = [h EXCEPT !.clients[s][q] = new,
                      !.packets = [p \in PacketIds |->
                         Released(h.packets[p], Cardinality(HoldersIn(h.clients[s][q], p)))]]
    BY <1>6, <2>1 DEF QueueClear
  <2>3. g = [h EXCEPT !.clients[s][q] = new, !.packets = packets]
    BY <1>13, <2>2
  <2>4. [h EXCEPT !.clients[s][q] = new, !.packets = packets]
          = [[h EXCEPT !.clients[s][q] = new] EXCEPT !.packets = packets]
    OBVIOUS
  <2> QED BY <1>9, <2>3, <2>4
<1>15. OnlyPackets(i, g) /\ PacketsSound(g, f) /\ Steady(i, g, f)
  <2>1. \A r \in PacketIds : f[r] <= e[r]
    BY <1>4
  <2> QED BY <1>5, <1>10, <1>11, <1>12, <1>14, <2>1, ReleaseAll
<1>16. OnlyQueue(h, g, s, q) /\ g.clients[s][q] = <<>>
  BY <1>11, <1>15 DEF OnlyPackets, OnlyQueue, SameClients, SameOthers
<1>17. Steady(h, g, f)
  BY <1>11, <1>15 DEF Steady
<1> QED BY <1>15, <1>16, <1>17

\* The queues of slot s are empty, and what is not packets or these queues is the same.
Cleared(h, g, s) ==
    /\ g \in HostType /\ SameClients(h, g)
    /\ \A q \in QueueNames : g.clients[s][q] = <<>>
    /\ \A t \in Slots, q \in QueueNames : t # s => g.clients[t][q] = h.clients[t][q]

\* All queues of a client are cleared.
LEMMA ClearQueuesSound ==
    ASSUME NEW h \in HostType, NEW f \in Counts, PacketsSound(h, f),
           NEW s \in Slots, NEW g, g = ClearQueues(h, s)
    PROVE  Cleared(h, g, s) /\ PacketsSound(g, f) /\ Steady(h, g, f)
<1>1. PICK i : i = QueueClear(h, s, "sent")
  OBVIOUS
<1>2. PICK j : j = QueueClear(i, s, "outgoing")
  OBVIOUS
<1>3. g = QueueClear(j, s, "incoming")
  BY <1>1, <1>2 DEF ClearQueues
<1>4. "sent" \in QueueNames /\ "outgoing" \in QueueNames /\ "incoming" \in QueueNames
  BY DEF QueueNames
<1>5. /\ OnlyQueue(h, i, s, "sent") /\ i.clients[s]["sent"] = <<>>
      /\ PacketsSound(i, f) /\ Steady(h, i, f)
  BY <1>1, <1>4, QueueClearSound
<1>6. i \in HostType
  BY <1>5 DEF OnlyQueue
<1>7. /\ OnlyQueue(i, j, s, "outgoing") /\ j.clients[s]["outgoing"] = <<>>
      /\ PacketsSound(j, f) /\ Steady(i, j, f)
  BY <1>2, <1>4, <1>5, <1>6, QueueClearSound
<1>8. j \in HostType
  BY <1>7 DEF OnlyQueue
<1>9. /\ OnlyQueue(j, g, s, "incoming") /\ g.clients[s]["incoming"] = <<>>
      /\ PacketsSound(g, f) /\ Steady(j, g, f)
  BY <1>3, <1>4, <1>7, <1>8, QueueClearSound
<1>10. g \in HostType /\ SameClients(h, g)
  BY <1>5, <1>7, <1>9 DEF OnlyQueue, SameClients
<1>11. ASSUME NEW q \in QueueNames PROVE g.clients[s][q] = <<>>
  <2>1. CASE q = "sent"
    <3>1. j.clients[s][q] = i.clients[s][q]
      BY <1>7, <2>1 DEF OnlyQueue, SameOthers
    <3>2. g.clients[s][q] = j.clients[s][q]
      BY <1>9, <2>1 DEF OnlyQueue, SameOthers
    <3> QED BY <1>5, <2>1, <3>1, <3>2
  <2>2. CASE q = "outgoing"
    <3>1. g.clients[s][q] = j.clients[s][q]
      BY <1>9, <2>2 DEF OnlyQueue, SameOthers
    <3> QED BY <1>7, <2>2, <3>1
  <2>3. CASE q = "incoming"
    BY <1>9, <2>3
  <2> QED BY <2>1, <2>2, <2>3 DEF QueueNames
<1>12. ASSUME NEW t \in Slots, NEW q \in QueueNames, t # s
       PROVE  g.clients[t][q] = h.clients[t][q]
  BY <1>5, <1>7, <1>9, <1>12 DEF OnlyQueue, SameOthers
<1>13. Steady(h, g, f)
  BY <1>5, <1>7, <1>9 DEF Steady
<1> QED BY <1>9, <1>10, <1>11, <1>12, <1>13 DEF Cleared

-----------------------------------------------------------------------------
(* What is not packets: the slots, the LZF instances and the groups.       *)

\* A free slot has nothing, and a client has a level and takes messages.
Shape(h) ==
    \A s \in Slots :
      /\ Free(h, s) => /\ h.clients[s].group = None /\ h.clients[s].lzf = None
                       /\ \A q \in QueueNames : h.clients[s][q] = <<>>
      /\ ~Free(h, s) => h.clients[s].level \in Levels /\ h.clients[s].mtu \in 1 .. Mtu

Users(h, z) == {s \in Slots : h.clients[s].lzf = z}

\* The instances are counted by their users, which all have the level of theirs; no two
\* serve one level.
InstancesSound(h) ==
    /\ \A z \in LzfIds : h.instances[z].refCount = Cardinality(Users(h, z))
    /\ \A z \in LzfIds : h.instances[z].refCount = 0 => h.instances[z].level = None
    /\ \A s \in Slots : h.clients[s].lzf # None =>
         h.clients[s].level = h.instances[h.clients[s].lzf].level
    /\ \A s, t \in Slots :
         h.clients[s].lzf # None /\ h.clients[t].lzf # None
           /\ h.clients[s].level = h.clients[t].level
         => h.clients[s].lzf = h.clients[t].lzf

\* The socket is a member of the groups of its port that clients are in, one client in each.
MembersSound(h) ==
    /\ \A g \in LocalGroups : g \in h.joined <=> \E s \in Slots : h.clients[s].group = g
    /\ \A s, t \in Slots :
         h.clients[s].group \in LocalGroups /\ h.clients[s].group = h.clients[t].group => s = t

Rest(h) == Shape(h) /\ InstancesSound(h) /\ MembersSound(h)

\* All of this stays true while only packets and queues of clients change.
LEMMA RestSame ==
    ASSUME NEW h, NEW g, KeepsRest(h, g), Rest(h)
    PROVE  Rest(g)
<1>1. /\ g.instances = h.instances /\ g.joined = h.joined
      /\ \A t \in Slots : /\ g.clients[t].state = h.clients[t].state
                          /\ g.clients[t].group = h.clients[t].group
                          /\ g.clients[t].level = h.clients[t].level
                          /\ g.clients[t].lzf = h.clients[t].lzf
                          /\ g.clients[t].mtu = h.clients[t].mtu
  BY DEF KeepsRest, SameClients
<1>2. \A s \in Slots, q \in QueueNames : Free(h, s) => g.clients[s][q] = h.clients[s][q]
  BY DEF KeepsRest
<1>3. \A s \in Slots : Free(g, s) <=> Free(h, s)
  BY <1>1 DEF Free
<1>4. Shape(g)
  BY <1>1, <1>2, <1>3 DEF Rest, Shape
<1>5. \A z \in LzfIds : Users(g, z) = Users(h, z)
  BY <1>1 DEF Users
<1>6. InstancesSound(g)
  <2>1. \A s \in Slots : g.clients[s].lzf = h.clients[s].lzf /\ g.clients[s].level = h.clients[s].level
    BY <1>1
  <2> QED BY <1>1, <1>5, <2>1 DEF Rest, InstancesSound
<1>7. MembersSound(g)
  <2>1. \A s \in Slots : g.clients[s].group = h.clients[s].group
    BY <1>1
  <2> QED BY <1>1, <2>1 DEF Rest, MembersSound
<1> QED BY <1>4, <1>6, <1>7 DEF Rest

\* A host whose packets and queues are those of another.
SameQueues(h, g) ==
    /\ g \in HostType /\ g.packets = h.packets
    /\ \A t \in Slots, q \in QueueNames : g.clients[t][q] = h.clients[t][q]

\* All that is said of packets stays true while neither they nor the queues change.
LEMMA PacketsSame ==
    ASSUME NEW h, NEW g, NEW f, SameQueues(h, g), PacketsSound(h, f)
    PROVE  PacketsSound(g, f)
<1>1. g.packets = h.packets /\ \A t \in Slots, q \in QueueNames : g.clients[t][q] = h.clients[t][q]
  BY DEF SameQueues
<1>2. Counted(g, f)
  <2>1. \A p \in PacketIds : Messages(g, p) = Messages(h, p)
    BY <1>1, SameMessages
  <2> QED BY <1>1, <2>1 DEF PacketsSound, Counted
<1>3. Tells(g)
  <2>1. ASSUME NEW s \in Slots
        PROVE  TellsIn(g, g.clients[s].outgoing) /\ TellsIn(g, g.clients[s].sent)
    <3>1. g.clients[s].outgoing = h.clients[s].outgoing /\ g.clients[s].sent = h.clients[s].sent
      BY <1>1 DEF QueueNames
    <3>2. TellsIn(h, h.clients[s].outgoing) /\ TellsIn(h, h.clients[s].sent)
      BY DEF PacketsSound, Tells
    <3> QED BY <1>1, <3>1, <3>2 DEF TellsIn
  <2> QED BY <2>1 DEF Tells
<1>4. Flagged(g)
  BY <1>1 DEF PacketsSound, Flagged
<1> QED BY <1>2, <1>3, <1>4 DEF PacketsSound

\* Induction over the natural numbers, as a statement about sets.
LEMMA SetInduction ==
    ASSUME NEW T \in SUBSET Nat, 0 \in T, \A n \in T : n + 1 \in T
    PROVE  T = Nat
<1> DEFINE U == Nat \ T
<1>1. SUFFICES ASSUME U # {} PROVE FALSE
  OBVIOUS
<1>2. \E x \in U : \A y \in U : ~ (<<y, x>> \in OpToRel(<, Nat))
  BY <1>1, NatLessThanWellFounded, WFMin
<1>3. PICK x \in U : \A y \in U : ~(y < x)
  BY <1>2 DEF OpToRel
<1>4. x # 0 /\ x - 1 \in Nat /\ x - 1 \in T
  BY <1>3
<1> QED BY <1>4

\* Some number of a set is the least.
LEMMA LeastExists ==
    ASSUME NEW S \in SUBSET Nat, S # {}
    PROVE  \E x \in S : \A y \in S : x <= y
<1>1. \E x \in S : \A y \in S : ~ (<<y, x>> \in OpToRel(<, Nat))
  BY NatLessThanWellFounded, WFMin
<1>2. PICK x \in S : \A y \in S : ~(y < x)
  BY <1>1 DEF OpToRel
<1> QED BY <1>2

\* The first of a set is one of it.
LEMMA LeastChosen ==
    ASSUME NEW S \in SUBSET Nat, S # {}
    PROVE  First(S) \in S
BY LeastExists DEF First

-----------------------------------------------------------------------------
(* LZF instances.                                                          *)

\* The slots can be counted.
LEMMA SlotsFinite ==
    /\ IsFiniteSet(Slots) /\ Cardinality(Slots) = MaxClient /\ MaxClient \in Nat \ {0}
    /\ Slots \subseteq Nat \ {0} /\ None \notin Slots
    /\ \A S \in SUBSET Slots : IsFiniteSet(S) /\ Cardinality(S) \in Nat
<1>1. MaxClient \in Nat \ {0} /\ None \notin Slots
  BY PacketsAssumption
<1>2. IsFiniteSet(Slots) /\ Cardinality(Slots) = MaxClient
  BY <1>1, FS_Interval DEF Slots
<1>3. ASSUME NEW S \in SUBSET Slots PROVE IsFiniteSet(S) /\ Cardinality(S) \in Nat
  <2>1. IsFiniteSet(S)
    BY <1>2, FS_Subset
  <2> QED BY <2>1, FS_CardinalityType
<1> QED BY <1>1, <1>2, <1>3 DEF Slots

\* There is an instance for a client that has none: as many as there are slots.
LEMMA InstanceLeft ==
    ASSUME NEW h \in HostType, InstancesSound(h), NEW s \in Slots, h.clients[s].lzf = None
    PROVE  FreeInstances(h) # {}
<1> DEFINE U == Slots \ {s}
           used == {t \in U : h.clients[t].lzf # None}
           f == [t \in used |-> h.clients[t].lzf]
<1>1. SUFFICES ASSUME FreeInstances(h) = {} PROVE FALSE
  OBVIOUS
<1>2. h.clients \in [Slots -> Client] /\ h.instances \in [LzfIds -> Instance]
  BY HostFields
<1>3. \A t \in Slots : h.clients[t].lzf \in LzfIds \cup {None}
  BY <1>2, ClientFields
<1>4. ASSUME NEW z \in LzfIds PROVE \E t \in used : h.clients[t].lzf = z
  <2>1. h.instances[z].refCount # 0
    BY <1>1 DEF FreeInstances
  <2>2. Cardinality(Users(h, z)) # 0
    BY <2>1 DEF InstancesSound
  <2>3. Users(h, z) # {}
    BY <2>2, FS_EmptySet
  <2>4. PICK t \in Users(h, z) : TRUE
    BY <2>3
  <2>5. t \in Slots /\ h.clients[t].lzf = z
    BY DEF Users
  <2>6. z # None
    BY SlotsFinite DEF LzfIds
  <2> QED BY <2>5, <2>6
<1>5. f \in Surjection(used, LzfIds)
  <2>1. f \in [used -> LzfIds]
    BY <1>3
  <2>2. \A z \in LzfIds : \E t \in used : f[t] = z
    BY <1>4
  <2> HIDE DEF f, used
  <2> QED BY <2>1, <2>2 DEF Surjection
<1>6. used \in SUBSET Slots /\ IsFiniteSet(used)
  BY SlotsFinite
<1>7. Cardinality(LzfIds) <= Cardinality(used) /\ IsFiniteSet(LzfIds)
  <2> HIDE DEF f, used
  <2> QED BY <1>5, <1>6, FS_Surjection
<1>8. IsFiniteSet(U) /\ Cardinality(U) = MaxClient - 1
  BY SlotsFinite, FS_RemoveElement
<1>9. Cardinality(used) <= Cardinality(U)
  BY <1>8, FS_Subset
<1>10. Cardinality(LzfIds) = MaxClient
  BY SlotsFinite DEF LzfIds
<1>11. Cardinality(used) \in Nat
  BY <1>6, SlotsFinite
<1> HIDE DEF U, used, f
<1> QED BY <1>7, <1>8, <1>9, <1>10, <1>11, SlotsFinite

\* The parts of a host.
HostIs(g, clients, packets, instances, joined) ==
    /\ g.clients = clients /\ g.packets = packets
    /\ g.instances = instances /\ g.joined = joined

\* Client s has instance z, which is x.
LzfIs(h, g, s, z, x) ==
    /\ SameQueues(h, g) /\ g.joined = h.joined
    /\ \A t \in Slots : /\ g.clients[t].state = h.clients[t].state
                        /\ g.clients[t].group = h.clients[t].group
                        /\ g.clients[t].level = h.clients[t].level
                        /\ g.clients[t].mtu = h.clients[t].mtu
                        /\ g.clients[t].lzf = IF t = s THEN z ELSE h.clients[t].lzf
    /\ \A y \in LzfIds : g.instances[y] = IF y = z THEN x ELSE h.instances[y]

\* A client is given an instance.
LEMMA LzfSet ==
    ASSUME NEW h \in HostType, NEW s \in Slots, NEW z \in LzfIds, NEW x \in Instance,
           NEW g, g = [h EXCEPT !.clients[s].lzf = z, !.instances[z] = x]
    PROVE  LzfIs(h, g, s, z, x)
<1>1. /\ h.clients \in [Slots -> Client] /\ h.packets \in [PacketIds -> Packet]
      /\ h.instances \in [LzfIds -> Instance] /\ h.joined \in SUBSET Groups
      /\ h = [clients |-> h.clients, packets |-> h.packets,
              instances |-> h.instances, joined |-> h.joined]
  BY HostFields
<1>2. h.clients[s] \in Client
  BY <1>1
<1>3. PICK c : c = [h.clients[s] EXCEPT !.lzf = z]
  OBVIOUS
<1>4. /\ c \in Client /\ c.lzf = z
      /\ c.state = h.clients[s].state /\ c.group = h.clients[s].group
      /\ c.level = h.clients[s].level /\ c.mtu = h.clients[s].mtu
      /\ c.outgoing = h.clients[s].outgoing /\ c.sent = h.clients[s].sent
      /\ c.incoming = h.clients[s].incoming
  BY <1>2, <1>3 DEF Client
<1>5. PICK clients : clients = [h.clients EXCEPT ![s] = c]
  OBVIOUS
<1>6. PICK instances : instances = [h.instances EXCEPT ![z] = x]
  OBVIOUS
<1>7. HostIs(g, clients, h.packets, instances, h.joined) /\ g \in HostType
  <2>1. clients \in [Slots -> Client] /\ instances \in [LzfIds -> Instance]
    BY <1>1, <1>4, <1>5, <1>6
  <2>2. g.clients = [h.clients EXCEPT ![s].lzf = z]
    BY <1>1
  <2>3. g.clients = clients
    BY <1>3, <1>5, <2>2
  <2>4. g.instances = instances
    BY <1>1, <1>6
  <2>5. g.packets = h.packets /\ g.joined = h.joined
    BY <1>1
  <2>6. g = [clients |-> g.clients, packets |-> g.packets,
             instances |-> g.instances, joined |-> g.joined]
    BY <1>1
  <2> QED BY <1>1, <2>1, <2>3, <2>4, <2>5, <2>6 DEF HostIs, HostType
<1>8. \A t \in Slots : g.clients[t] = IF t = s THEN c ELSE h.clients[t]
  BY <1>1, <1>5, <1>7 DEF HostIs
<1>9. \A y \in LzfIds : g.instances[y] = IF y = z THEN x ELSE h.instances[y]
  BY <1>1, <1>6, <1>7 DEF HostIs
<1>10. SameQueues(h, g)
  <2>1. ASSUME NEW t \in Slots, NEW q \in QueueNames PROVE g.clients[t][q] = h.clients[t][q]
    BY <1>4, <1>8 DEF QueueNames
  <2> QED BY <1>7, <2>1 DEF SameQueues, HostIs
<1>11. ASSUME NEW t \in Slots
       PROVE  /\ g.clients[t].state = h.clients[t].state
              /\ g.clients[t].group = h.clients[t].group
              /\ g.clients[t].level = h.clients[t].level
              /\ g.clients[t].mtu = h.clients[t].mtu
              /\ g.clients[t].lzf = IF t = s THEN z ELSE h.clients[t].lzf
  BY <1>4, <1>8
<1>12. g.joined = h.joined
  BY <1>7 DEF HostIs
<1> QED BY <1>9, <1>10, <1>11, <1>12 DEF LzfIs

\* The instance that a client gets: one that serves its level, or a free one.
GetsLzf(h, g, s, z) ==
    /\ z \in LzfIds
    /\ g = [h EXCEPT !.clients[s].lzf = z,
                     !.instances[z] = [refCount |-> @.refCount + 1,
                                       level |-> h.clients[s].level]]
    /\ \/ h.instances[z].level = h.clients[s].level
       \/ /\ h.instances[z].refCount = 0
          /\ \A t \in Slots : h.clients[t].lzf # None => h.clients[t].level # h.clients[s].level

\* _gekkota_xudpclient_get_lzf changes nothing, or finds such an instance.
LEMMA WithLzfCases ==
    ASSUME NEW h \in HostType, InstancesSound(h), NEW s \in Slots, NEW g, g = WithLzf(h, s)
    PROVE  g = h \/ (h.clients[s].lzf = None /\ \E z \in LzfIds : GetsLzf(h, g, s, z))
<1>1. CASE h.clients[s].lzf # None
  BY <1>1 DEF WithLzf
<1>2. CASE h.clients[s].lzf = None
  <2>1. PICK servers : servers = Servers(h, s)
    OBVIOUS
  <2>2. PICK t : t = First(servers)
    OBVIOUS
  <2>3. PICK y : y = First(FreeInstances(h))
    OBVIOUS
  <2>4. PICK z : z = IF servers # {} THEN h.clients[t].lzf ELSE y
    OBVIOUS
  <2>5. g = [h EXCEPT !.clients[s].lzf = z,
                      !.instances[z] = [refCount |-> @.refCount + 1,
                                        level |-> h.clients[s].level]]
    BY <1>2, <2>1, <2>2, <2>3, <2>4, Zenon DEF WithLzf
  <2>6. CASE servers # {}
    <3>1. t \in servers
      <4>1. servers \in SUBSET Nat
        BY <2>1, SlotsFinite DEF Servers
      <4> QED BY <2>2, <2>6, <4>1, LeastChosen
    <3>2. t \in Slots /\ h.clients[t].lzf # None /\ h.clients[t].level = h.clients[s].level
      BY <2>1, <3>1 DEF Servers
    <3>3. z = h.clients[t].lzf
      BY <2>4, <2>6
    <3>4. h.clients[t].lzf \in LzfIds \cup {None}
      BY <3>2, HostFields, ClientFields
    <3>5. z \in LzfIds
      BY <3>2, <3>3, <3>4
    <3>6. h.instances[z].level = h.clients[s].level
      BY <3>2, <3>3 DEF InstancesSound
    <3> QED BY <1>2, <2>5, <3>5, <3>6 DEF GetsLzf
  <2>7. CASE servers = {}
    <3>1. y \in FreeInstances(h)
      <4>1. FreeInstances(h) # {}
        BY <1>2, InstanceLeft
      <4>2. FreeInstances(h) \in SUBSET Nat
        BY SlotsFinite DEF FreeInstances, LzfIds
      <4> QED BY <2>3, <4>1, <4>2, LeastChosen
    <3>2. z \in LzfIds /\ h.instances[z].refCount = 0
      BY <2>4, <2>7, <3>1 DEF FreeInstances
    <3>3. ASSUME NEW u \in Slots, h.clients[u].lzf # None
          PROVE  h.clients[u].level # h.clients[s].level
      BY <2>1, <2>7, <3>3 DEF Servers
    <3> QED BY <1>2, <2>5, <3>2, <3>3 DEF GetsLzf
  <2> QED BY <2>6, <2>7
<1> QED BY <1>1, <1>2

\* The instances stay sound when a client gets one of its level.
LEMMA GetsSound ==
    ASSUME NEW h \in HostType, Rest(h), NEW s \in Slots, ~Free(h, s), h.clients[s].lzf = None,
           NEW z \in LzfIds, NEW g, GetsLzf(h, g, s, z)
    PROVE  /\ SameQueues(h, g) /\ g.joined = h.joined
           /\ \A t \in Slots : /\ g.clients[t].state = h.clients[t].state
                               /\ g.clients[t].group = h.clients[t].group
                               /\ g.clients[t].level = h.clients[t].level
                               /\ g.clients[t].mtu = h.clients[t].mtu
                               /\ t # s => g.clients[t].lzf = h.clients[t].lzf
           /\ InstancesSound(g)
<1>1. PICK level : level = h.clients[s].level
  OBVIOUS
<1>2. level \in Levels
  BY <1>1 DEF Rest, Shape
<1>3. h.instances \in [LzfIds -> Instance] /\ h.instances[z] \in Instance
  BY HostFields
<1>4. h.instances[z].refCount \in Nat
  BY <1>3 DEF Instance
<1>5. PICK x : x = [refCount |-> h.instances[z].refCount + 1, level |-> level]
  OBVIOUS
<1>6. x \in Instance /\ x.refCount = h.instances[z].refCount + 1 /\ x.level = level
  BY <1>2, <1>4, <1>5 DEF Instance
<1>7. g = [h EXCEPT !.clients[s].lzf = z, !.instances[z] = x]
  <2>1. h = [clients |-> h.clients, packets |-> h.packets,
             instances |-> h.instances, joined |-> h.joined]
    BY HostFields
  <2> QED BY <1>1, <1>5, <2>1 DEF GetsLzf
<1>8. /\ SameQueues(h, g) /\ g.joined = h.joined
      /\ \A t \in Slots : /\ g.clients[t].state = h.clients[t].state
                          /\ g.clients[t].group = h.clients[t].group
                          /\ g.clients[t].level = h.clients[t].level
                          /\ g.clients[t].mtu = h.clients[t].mtu
                          /\ g.clients[t].lzf = IF t = s THEN z ELSE h.clients[t].lzf
      /\ \A y \in LzfIds : g.instances[y] = IF y = z THEN x ELSE h.instances[y]
  <2>1. LzfIs(h, g, s, z, x)
    BY <1>6, <1>7, LzfSet
  <2> QED BY <2>1 DEF LzfIs
<1>9. z # None /\ None \notin LzfIds /\ level # None
  BY <1>2, SlotsFinite, PacketsAssumption DEF LzfIds
<1>10. /\ \A y \in LzfIds : h.instances[y].refCount = Cardinality(Users(h, y))
       /\ \A y \in LzfIds : h.instances[y].refCount = 0 => h.instances[y].level = None
       /\ \A t \in Slots : h.clients[t].lzf # None =>
            h.clients[t].level = h.instances[h.clients[t].lzf].level
       /\ \A u, t \in Slots :
            h.clients[u].lzf # None /\ h.clients[t].lzf # None
              /\ h.clients[u].level = h.clients[t].level
            => h.clients[u].lzf = h.clients[t].lzf
  BY DEF Rest, InstancesSound
<1>11. /\ h.instances[z].level = level
          \/ (h.instances[z].refCount = 0
              /\ \A t \in Slots : h.clients[t].lzf # None => h.clients[t].level # level)
       /\ \A t \in Slots : h.clients[t].lzf = z => h.clients[t].level = level
       /\ \A t \in Slots : h.clients[t].lzf # None /\ h.clients[t].level = level
            => h.clients[t].lzf = z
  <2>1. h.instances[z].level = level
        \/ (h.instances[z].refCount = 0
            /\ \A t \in Slots : h.clients[t].lzf # None => h.clients[t].level # level)
    BY <1>1 DEF GetsLzf
  <2>2. CASE h.instances[z].level = level
    <3>1. \A t \in Slots : h.clients[t].lzf = z => h.clients[t].level = level
      BY <1>9, <1>10, <2>2
    <3>2. Cardinality(Users(h, z)) # 0
      BY <1>9, <1>10, <2>2
    <3>3. Users(h, z) # {}
      BY <3>2, FS_EmptySet
    <3>4. PICK u \in Slots : h.clients[u].lzf = z
      BY <3>3 DEF Users
    <3>5. h.clients[u].level = level
      BY <3>1, <3>4
    <3>6. \A t \in Slots : h.clients[t].lzf # None /\ h.clients[t].level = level
            => h.clients[t].lzf = z
      BY <1>9, <1>10, <3>4, <3>5
    <3> QED BY <2>2, <3>1, <3>6
  <2>3. CASE /\ h.instances[z].refCount = 0
             /\ \A t \in Slots : h.clients[t].lzf # None => h.clients[t].level # level
    <3>1. Cardinality(Users(h, z)) = 0
      BY <1>10, <2>3
    <3>2. Users(h, z) = {}
      <4>1. Users(h, z) \in SUBSET Slots
        BY DEF Users
      <4> QED BY <3>1, <4>1, SlotsFinite, FS_EmptySet
    <3>3. \A t \in Slots : h.clients[t].lzf # z
      BY <3>2 DEF Users
    <3> QED BY <2>3, <3>3
  <2> QED BY <2>1, <2>2, <2>3
<1>12. ASSUME NEW y \in LzfIds PROVE g.instances[y].refCount = Cardinality(Users(g, y))
  <2>1. CASE y # z
    <3>1. Users(g, y) = Users(h, y)
      BY <1>8, <1>9, <2>1 DEF Users
    <3> QED BY <1>8, <1>10, <2>1, <3>1
  <2>2. CASE y = z
    <3>1. Users(g, z) = Users(h, z) \cup {s}
      BY <1>8 DEF Users
    <3>2. s \notin Users(h, z) /\ Users(h, z) \in SUBSET Slots
      BY <1>9 DEF Users
    <3>3. Cardinality(Users(h, z) \cup {s}) = Cardinality(Users(h, z)) + 1
      BY <3>2, SlotsFinite, FS_AddElement
    <3> QED BY <1>6, <1>8, <1>10, <2>2, <3>1, <3>3
  <2> QED BY <2>1, <2>2
<1>13. ASSUME NEW y \in LzfIds, g.instances[y].refCount = 0 PROVE g.instances[y].level = None
  BY <1>4, <1>6, <1>8, <1>10, <1>13
<1>14. ASSUME NEW t \in Slots, g.clients[t].lzf # None
       PROVE  g.clients[t].level = g.instances[g.clients[t].lzf].level
  <2>1. h.clients[t].lzf \in LzfIds \cup {None}
    BY HostFields, ClientFields
  <2>2. CASE t = s \/ h.clients[t].lzf = z
    BY <1>1, <1>6, <1>8, <1>11, <2>2
  <2>3. CASE t # s /\ h.clients[t].lzf # z
    BY <1>8, <1>10, <1>14, <2>1, <2>3
  <2> QED BY <2>2, <2>3
<1>15. ASSUME NEW u \in Slots, NEW t \in Slots, g.clients[u].lzf # None, g.clients[t].lzf # None,
              g.clients[u].level = g.clients[t].level
       PROVE  g.clients[u].lzf = g.clients[t].lzf
  BY <1>1, <1>8, <1>10, <1>11, <1>15
<1>16. InstancesSound(g)
  BY <1>12, <1>13, <1>14, <1>15 DEF InstancesSound
<1> QED BY <1>8, <1>16

\* _gekkota_xudpclient_get_lzf leaves packets and queues alone, and all that is said.
LEMMA WithLzfSound ==
    ASSUME NEW h \in HostType, NEW f, PacketsSound(h, f), Rest(h), NEW s \in Slots, ~Free(h, s),
           NEW g, g = WithLzf(h, s)
    PROVE  /\ SameQueues(h, g) /\ PacketsSound(g, f) /\ Rest(g)
           /\ \A t \in Slots : /\ g.clients[t].state = h.clients[t].state
                               /\ g.clients[t].group = h.clients[t].group
                               /\ g.clients[t].mtu = h.clients[t].mtu
<1>1. CASE g = h
  BY <1>1 DEF SameQueues
<1>2. CASE h.clients[s].lzf = None /\ \E z \in LzfIds : GetsLzf(h, g, s, z)
  <2>1. PICK z \in LzfIds : GetsLzf(h, g, s, z)
    BY <1>2
  <2>2. /\ SameQueues(h, g) /\ g.joined = h.joined
        /\ \A t \in Slots : /\ g.clients[t].state = h.clients[t].state
                            /\ g.clients[t].group = h.clients[t].group
                            /\ g.clients[t].level = h.clients[t].level
                            /\ g.clients[t].mtu = h.clients[t].mtu
                            /\ t # s => g.clients[t].lzf = h.clients[t].lzf
        /\ InstancesSound(g)
    BY <1>2, <2>1, GetsSound
  <2>3. PacketsSound(g, f)
    BY <2>2, PacketsSame
  <2>4. MembersSound(g)
    BY <2>2 DEF Rest, MembersSound
  <2>5. Shape(g)
    <3>1. \A t \in Slots : Free(g, t) <=> Free(h, t)
      BY <2>2 DEF Free
    <3>2. \A t \in Slots, q \in QueueNames : g.clients[t][q] = h.clients[t][q]
      BY <2>2 DEF SameQueues
    <3> QED BY <2>2, <3>1, <3>2 DEF Rest, Shape
  <2> QED BY <2>2, <2>3, <2>4, <2>5 DEF Rest
<1>3. InstancesSound(h)
  BY DEF Rest
<1>4. g = h \/ (h.clients[s].lzf = None /\ \E z \in LzfIds : GetsLzf(h, g, s, z))
  BY <1>3, WithLzfCases
<1> QED BY <1>1, <1>2, <1>4

-----------------------------------------------------------------------------
(* Clients are made, leave and go.                                         *)

\* Only the client of slot s is another, c.
ClientIs(h, g, s, c) ==
    /\ g \in HostType
    /\ g.packets = h.packets /\ g.instances = h.instances /\ g.joined = h.joined
    /\ \A t \in Slots : g.clients[t] = IF t = s THEN c ELSE h.clients[t]

\* A client is set.
LEMMA ClientSet ==
    ASSUME NEW h \in HostType, NEW s \in Slots, NEW c \in Client,
           NEW g, g = [h EXCEPT !.clients[s] = c]
    PROVE  ClientIs(h, g, s, c)
<1>1. /\ h.clients \in [Slots -> Client] /\ h.packets \in [PacketIds -> Packet]
      /\ h.instances \in [LzfIds -> Instance] /\ h.joined \in SUBSET Groups
      /\ h = [clients |-> h.clients, packets |-> h.packets,
              instances |-> h.instances, joined |-> h.joined]
  BY HostFields
<1>2. PICK clients : clients = [h.clients EXCEPT ![s] = c]
  OBVIOUS
<1>3. clients \in [Slots -> Client] /\ \A t \in Slots : clients[t] = IF t = s THEN c ELSE h.clients[t]
  BY <1>1, <1>2
<1>4. g = [clients |-> clients, packets |-> h.packets,
           instances |-> h.instances, joined |-> h.joined]
  BY <1>1, <1>2
<1>5. g \in HostType
  BY <1>1, <1>3, <1>4 DEF HostType
<1> QED BY <1>3, <1>4, <1>5 DEF ClientIs

\* A client that was reset is one, and has nothing.
LEMMA ResetIs ==
    /\ Reset \in Client /\ Reset.state = "DISCONNECTED" /\ Reset.group = None /\ Reset.lzf = None
    /\ \A q \in QueueNames : Reset[q] = <<>>
BY PacketsAssumption DEF Reset, Client, States, QueueNames

\* The instance of client s loses a user, and the socket leaves the client's group.
Freed(h, g, s) ==
    /\ SameQueues(h, g) /\ g.clients = h.clients
    /\ g.joined = h.joined \ {h.clients[s].group}
    /\ \A z \in LzfIds :
         /\ z # h.clients[s].lzf => g.instances[z] = h.instances[z]
         /\ z = h.clients[s].lzf =>
              /\ g.instances[z].refCount = h.instances[z].refCount - 1
              /\ h.instances[z].refCount = 1 => g.instances[z].level = None
              /\ h.instances[z].refCount # 1 => g.instances[z].level = h.instances[z].level

\* What gekkota_xudpclient_destroy does first.
LEMMA FreedIs ==
    ASSUME NEW h \in HostType, InstancesSound(h), NEW s \in Slots, NEW i, NEW g,
           i = SocketLeave(h, h.clients[s].group),
           g = IF h.clients[s].lzf = None THEN i ELSE LzfDestroy(i, h.clients[s].lzf)
    PROVE  Freed(h, g, s)
<1>1. /\ h.clients \in [Slots -> Client] /\ h.packets \in [PacketIds -> Packet]
      /\ h.instances \in [LzfIds -> Instance] /\ h.joined \in SUBSET Groups
      /\ h = [clients |-> h.clients, packets |-> h.packets,
              instances |-> h.instances, joined |-> h.joined]
  BY HostFields
<1>2. PICK joined : joined = h.joined \ {h.clients[s].group}
  OBVIOUS
<1>3. joined \in SUBSET Groups
  BY <1>1, <1>2
<1>4. i = [clients |-> h.clients, packets |-> h.packets,
           instances |-> h.instances, joined |-> joined]
  BY <1>1, <1>2 DEF SocketLeave
<1>5. None \notin LzfIds
  BY SlotsFinite DEF LzfIds
<1>6. PICK z : z = h.clients[s].lzf
  OBVIOUS
<1>7. CASE z = None
  <2>1. g = i
    BY <1>6, <1>7
  <2>2. g \in HostType
    BY <1>1, <1>3, <1>4, <2>1 DEF HostType
  <2> QED BY <1>2, <1>4, <1>5, <1>6, <1>7, <2>1, <2>2 DEF Freed, SameQueues
<1>8. CASE z # None
  <2>1. z \in LzfIds
    <3>1. h.clients[s] \in Client
      BY <1>1
    <3> QED BY <1>6, <1>8, <3>1, ClientFields
  <2>2. h.instances[z] \in Instance /\ h.instances[z].refCount \in Nat
    BY <1>1, <2>1 DEF Instance
  <2>3. h.instances[z].refCount # 0
    <3>1. s \in Users(h, z) /\ Users(h, z) \in SUBSET Slots
      BY <1>6 DEF Users
    <3>2. Cardinality(Users(h, z)) # 0
      BY <3>1, SlotsFinite, FS_EmptySet
    <3> QED BY <2>1, <3>2 DEF InstancesSound
  <2>4. PICK x : x = IF h.instances[z].refCount = 1 THEN NoInstance
                     ELSE [refCount |-> h.instances[z].refCount - 1,
                           level |-> h.instances[z].level]
    OBVIOUS
  <2>5. /\ x \in Instance /\ x.refCount = h.instances[z].refCount - 1
        /\ h.instances[z].refCount = 1 => x.level = None
        /\ h.instances[z].refCount # 1 => x.level = h.instances[z].level
    <3>1. CASE h.instances[z].refCount = 1
      BY <2>4, <3>1 DEF NoInstance, Instance
    <3>2. CASE h.instances[z].refCount # 1
      <4>1. h.instances[z].refCount - 1 \in Nat
        BY <2>2, <2>3
      <4> QED BY <2>2, <2>4, <3>2, <4>1 DEF Instance
    <3> QED BY <3>1, <3>2
  <2>6. PICK instances : instances = [h.instances EXCEPT ![z] = x]
    OBVIOUS
  <2>7. /\ instances \in [LzfIds -> Instance]
        /\ \A y \in LzfIds : instances[y] = IF y = z THEN x ELSE h.instances[y]
    BY <1>1, <2>1, <2>5, <2>6
  <2>8. g = [i EXCEPT !.instances[z] = x]
    <3>1. i.instances = h.instances
      BY <1>4
    <3>2. g = LzfDestroy(i, z)
      BY <1>6, <1>8
    <3>3. LzfDestroy(i, z)
            = [i EXCEPT !.instances[z] =
                 IF i.instances[z].refCount = 1 THEN NoInstance
                 ELSE [refCount |-> i.instances[z].refCount - 1,
                       level |-> i.instances[z].level]]
      BY DEF LzfDestroy
    <3> QED BY <2>4, <3>1, <3>2, <3>3
  <2>9. g = [clients |-> h.clients, packets |-> h.packets,
             instances |-> instances, joined |-> joined]
    BY <1>4, <2>6, <2>8
  <2>10. g \in HostType
    BY <1>1, <1>3, <2>7, <2>9 DEF HostType
  <2>11. /\ g.clients = h.clients /\ g.packets = h.packets
         /\ g.instances = instances /\ g.joined = joined
    BY <2>9
  <2>12. SameQueues(h, g)
    BY <2>10, <2>11 DEF SameQueues
  <2>13. ASSUME NEW y \in LzfIds
         PROVE  /\ y # z => g.instances[y] = h.instances[y]
                /\ y = z =>
                     /\ g.instances[y].refCount = h.instances[y].refCount - 1
                     /\ h.instances[y].refCount = 1 => g.instances[y].level = None
                     /\ h.instances[y].refCount # 1 => g.instances[y].level = h.instances[y].level
    BY <2>5, <2>7, <2>11
  <2> QED BY <1>2, <1>6, <2>11, <2>12, <2>13 DEF Freed
<1> QED BY <1>7, <1>8

\* A client is destroyed: what it had is nobody's, and what others have stays sound.
LEMMA ClientDestroySound ==
    ASSUME NEW h \in HostType, NEW f \in Counts, PacketsSound(h, f), Rest(h), NEW s \in Slots,
           NEW g, g = ClientDestroy(h, s)
    PROVE  g \in HostType /\ PacketsSound(g, f) /\ Rest(g) /\ Steady(h, g, f)
<1>1. PICK i : i = SocketLeave(h, h.clients[s].group)
  OBVIOUS
<1>2. PICK j : j = IF h.clients[s].lzf = None THEN i ELSE LzfDestroy(i, h.clients[s].lzf)
  OBVIOUS
<1>3. PICK k : k = ClearQueues(j, s)
  OBVIOUS
<1>4. g = [k EXCEPT !.clients[s] = Reset]
  BY <1>1, <1>2, <1>3, Zenon DEF ClientDestroy
<1>5. Freed(h, j, s)
  <2>1. InstancesSound(h)
    BY DEF Rest
  <2> QED BY <1>1, <1>2, <2>1, FreedIs
<1>6. SameQueues(h, j) /\ j \in HostType /\ PacketsSound(j, f)
  BY <1>5, PacketsSame DEF Freed, SameQueues
<1>7. Cleared(j, k, s) /\ PacketsSound(k, f) /\ Steady(j, k, f)
  BY <1>3, <1>6, ClearQueuesSound
<1>8. k \in HostType
  BY <1>7 DEF Cleared
<1>9. ClientIs(k, g, s, Reset)
  BY <1>4, <1>8, ClientSet, ResetIs
<1>10. SameQueues(k, g)
  <2>1. ASSUME NEW t \in Slots, NEW q \in QueueNames PROVE g.clients[t][q] = k.clients[t][q]
    BY <1>7, <1>9, ResetIs DEF ClientIs, Cleared
  <2> QED BY <1>9, <2>1 DEF SameQueues, ClientIs
<1>11. PacketsSound(g, f)
  BY <1>7, <1>10, PacketsSame
<1>12. Steady(h, g, f)
  BY <1>6, <1>7, <1>10 DEF Steady, SameQueues
<1>13. ASSUME NEW t \in Slots, t # s
       PROVE  /\ g.clients[t].state = h.clients[t].state
              /\ g.clients[t].group = h.clients[t].group
              /\ g.clients[t].level = h.clients[t].level
              /\ g.clients[t].lzf = h.clients[t].lzf
              /\ g.clients[t].mtu = h.clients[t].mtu
              /\ \A q \in QueueNames : g.clients[t][q] = h.clients[t][q]
  <2>1. g.clients[t] = k.clients[t]
    BY <1>9, <1>13 DEF ClientIs
  <2>2. j.clients = h.clients
    BY <1>5 DEF Freed
  <2> QED BY <1>7, <1>13, <2>1, <2>2 DEF Cleared, SameClients
<1>14. /\ g.clients[s].state = "DISCONNECTED" /\ g.clients[s].group = None
       /\ g.clients[s].lzf = None /\ \A q \in QueueNames : g.clients[s][q] = <<>>
  BY <1>9, ResetIs DEF ClientIs
<1>15. g.instances = j.instances /\ g.joined = j.joined
  BY <1>7, <1>9 DEF ClientIs, Cleared, SameClients
<1>16. Shape(g)
  <2>1. ASSUME NEW t \in Slots
        PROVE  /\ Free(g, t) => /\ g.clients[t].group = None /\ g.clients[t].lzf = None
                                /\ \A q \in QueueNames : g.clients[t][q] = <<>>
               /\ ~Free(g, t) => g.clients[t].level \in Levels /\ g.clients[t].mtu \in 1 .. Mtu
    <3>1. CASE t = s
      BY <1>14, <3>1 DEF Free
    <3>2. CASE t # s
      <4>1. /\ Free(h, t) => /\ h.clients[t].group = None /\ h.clients[t].lzf = None
                             /\ \A q \in QueueNames : h.clients[t][q] = <<>>
            /\ ~Free(h, t) => h.clients[t].level \in Levels /\ h.clients[t].mtu \in 1 .. Mtu
        BY DEF Rest, Shape
      <4>2. Free(g, t) <=> Free(h, t)
        BY <1>13, <3>2 DEF Free
      <4> QED BY <1>13, <3>2, <4>1, <4>2
    <3> QED BY <3>1, <3>2
  <2> QED BY <2>1 DEF Shape
<1>17. MembersSound(g)
  <2>1. g.joined = h.joined \ {h.clients[s].group}
    BY <1>5, <1>15 DEF Freed
  <2>2. None \notin LocalGroups
    BY PacketsAssumption
  <2>3. \A t \in Slots : g.clients[t].group = IF t = s THEN None ELSE h.clients[t].group
    BY <1>13, <1>14
  <2> QED BY <2>1, <2>2, <2>3 DEF Rest, MembersSound
<1>18. InstancesSound(g)
  <2>1. \A t \in Slots : /\ g.clients[t].lzf = IF t = s THEN None ELSE h.clients[t].lzf
                         /\ t # s => g.clients[t].level = h.clients[t].level
    BY <1>13, <1>14
  <2>2. None \notin LzfIds
    BY SlotsFinite DEF LzfIds
  <2>3. \A z \in LzfIds : Users(g, z) = Users(h, z) \ {s}
    BY <2>1, <2>2 DEF Users
  <2>4. \A z \in LzfIds : /\ h.instances[z].refCount = Cardinality(Users(h, z))
                          /\ h.instances[z].refCount \in Nat
                          /\ h.instances[z].refCount = 0 => h.instances[z].level = None
    <3>1. \A z \in LzfIds : Users(h, z) \in SUBSET Slots
      BY DEF Users
    <3> QED BY <3>1, SlotsFinite DEF Rest, InstancesSound
  <2>5. ASSUME NEW z \in LzfIds
        PROVE  /\ g.instances[z].refCount = Cardinality(Users(g, z))
               /\ g.instances[z].refCount = 0 => g.instances[z].level = None
               /\ g.instances[z].refCount # 0 => g.instances[z].level = h.instances[z].level
    <3>1. CASE z # h.clients[s].lzf
      <4>1. Users(g, z) = Users(h, z)
        BY <2>3, <3>1 DEF Users
      <4>2. g.instances[z] = h.instances[z]
        BY <1>5, <1>15, <3>1 DEF Freed
      <4> QED BY <2>4, <4>1, <4>2
    <3>2. CASE z = h.clients[s].lzf
      <4>1. /\ g.instances[z].refCount = h.instances[z].refCount - 1
            /\ h.instances[z].refCount = 1 => g.instances[z].level = None
            /\ h.instances[z].refCount # 1 => g.instances[z].level = h.instances[z].level
        BY <1>5, <1>15, <3>2 DEF Freed
      <4>2. s \in Users(h, z) /\ Users(h, z) \in SUBSET Slots
        BY <3>2 DEF Users
      <4>3. Cardinality(Users(h, z) \ {s}) = Cardinality(Users(h, z)) - 1
        BY <4>2, SlotsFinite, FS_RemoveElement
      <4>4. Cardinality(Users(g, z)) = h.instances[z].refCount - 1
        BY <2>3, <2>4, <4>3
      <4> QED BY <2>4, <4>1, <4>4
    <3> QED BY <3>1, <3>2
  <2>6. ASSUME NEW t \in Slots, g.clients[t].lzf # None
        PROVE  g.clients[t].level = g.instances[g.clients[t].lzf].level
    <3>1. PICK z : z = h.clients[t].lzf
      OBVIOUS
    <3>2. t # s /\ g.clients[t].lzf = z /\ g.clients[t].level = h.clients[t].level
      BY <2>1, <2>6, <3>1
    <3>3. z \in LzfIds
      <4>1. h.clients[t] \in Client
        BY HostFields
      <4> QED BY <2>6, <3>1, <3>2, <4>1, ClientFields
    <3>4. t \in Users(g, z) /\ Users(g, z) \in SUBSET Slots
      BY <3>2 DEF Users
    <3>5. Cardinality(Users(g, z)) # 0
      BY <3>4, SlotsFinite, FS_EmptySet
    <3>6. g.instances[z].level = h.instances[z].level
      BY <2>5, <3>3, <3>5
    <3>7. h.clients[t].level = h.instances[z].level
      BY <2>6, <3>1, <3>2 DEF Rest, InstancesSound
    <3> QED BY <3>2, <3>6, <3>7
  <2>7. ASSUME NEW t \in Slots, NEW u \in Slots, g.clients[t].lzf # None, g.clients[u].lzf # None,
               g.clients[t].level = g.clients[u].level
        PROVE  g.clients[t].lzf = g.clients[u].lzf
    BY <2>1, <2>7 DEF Rest, InstancesSound
  <2> QED BY <2>5, <2>6, <2>7 DEF InstancesSound
<1> QED BY <1>9, <1>11, <1>12, <1>16, <1>17, <1>18 DEF Rest, ClientIs

\* The first free slot is the one behind the table if no slot is free.
LEMMA FirstFreeIs ==
    ASSUME NEW h
    PROVE  /\ FirstFree(h) \in 1 .. MaxClient + 1
           /\ FirstFree(h) \in Slots => Free(h, FirstFree(h))
<1>1. MaxClient \in Nat
  BY PacketsAssumption
<1>2. PICK S : S = {s \in 1 .. MaxClient + 1 : s \in Slots => Free(h, s)}
  OBVIOUS
<1>3. MaxClient + 1 \in S /\ S \in SUBSET Nat
  BY <1>1, <1>2 DEF Slots
<1>4. PICK s \in S : \A y \in S : s <= y
  BY <1>3, LeastExists
<1>5. s \in 1 .. MaxClient + 1 /\ (s \in Slots => Free(h, s))
  BY <1>2, <1>4
<1>6. ASSUME NEW t \in 1 .. s - 1 PROVE ~Free(h, t)
  <2>1. t \in 1 .. MaxClient + 1 /\ ~(s <= t)
    BY <1>1, <1>5
  <2>2. t \notin S
    BY <1>4, <2>1
  <2> QED BY <1>2, <2>1, <2>2
<1>7. \E x \in 1 .. MaxClient + 1 :
        /\ x \in Slots => Free(h, x)
        /\ \A t \in 1 .. x - 1 : ~Free(h, t)
  BY <1>5, <1>6
<1> QED BY <1>7, Zenon DEF FirstFree

\* A client that was just made.
NewClient(c) ==
    /\ c \in Client /\ c.state # "DISCONNECTED" /\ c.lzf = None
    /\ c.level \in Levels /\ c.mtu \in 1 .. Mtu
    /\ \A q \in QueueNames : c[q] = <<>>

\* The socket of a host has joined a group, if it is of the socket's port.
GroupJoined(h, i, x) ==
    /\ i \in HostType
    /\ HostIs(i, h.clients, h.packets, h.instances, h.joined \cup ({x} \cap LocalGroups))

\* A client is made in a free slot: the socket joins its group, if it has one and the group
\* is of the socket's port, and there is no other client in the group.
LEMMA ConnectSound ==
    ASSUME NEW h \in HostType, NEW f, PacketsSound(h, f), Rest(h),
           NEW s \in Slots, Free(h, s), NEW c, NewClient(c), MayJoin(h, c.group),
           NEW i, GroupJoined(h, i, c.group),
           NEW g, ClientIs(i, g, s, c)
    PROVE  g \in HostType /\ PacketsSound(g, f) /\ Rest(g) /\ g.packets = h.packets
<1>1. /\ g \in HostType /\ g.packets = h.packets /\ g.instances = h.instances
      /\ g.joined = h.joined \cup ({c.group} \cap LocalGroups)
      /\ \A t \in Slots : g.clients[t] = IF t = s THEN c ELSE h.clients[t]
  BY DEF ClientIs, HostIs, GroupJoined
<1>2. /\ h.clients[s].group = None /\ h.clients[s].lzf = None
      /\ \A q \in QueueNames : h.clients[s][q] = <<>>
  BY DEF Rest, Shape
<1>3. SameQueues(h, g)
  BY <1>1, <1>2 DEF SameQueues, NewClient
<1>4. PacketsSound(g, f)
  BY <1>3, PacketsSame
<1>5. Shape(g)
  <2>1. ASSUME NEW t \in Slots
        PROVE  /\ Free(g, t) => /\ g.clients[t].group = None /\ g.clients[t].lzf = None
                                /\ \A q \in QueueNames : g.clients[t][q] = <<>>
               /\ ~Free(g, t) => g.clients[t].level \in Levels /\ g.clients[t].mtu \in 1 .. Mtu
    <3>1. CASE t = s
      BY <1>1, <3>1 DEF Free, NewClient
    <3>2. CASE t # s
      BY <1>1, <3>2 DEF Free, Rest, Shape
    <3> QED BY <3>1, <3>2
  <2> QED BY <2>1 DEF Shape
<1>6. \A t \in Slots : /\ g.clients[t].lzf = h.clients[t].lzf
                       /\ h.clients[t].lzf # None => g.clients[t].level = h.clients[t].level
  BY <1>1, <1>2 DEF NewClient
<1>7. InstancesSound(g)
  <2>1. \A z \in LzfIds : Users(g, z) = Users(h, z)
    BY <1>6 DEF Users
  <2> QED BY <1>1, <1>6, <2>1 DEF Rest, InstancesSound
<1>8. MembersSound(g)
  <2>1. None \notin LocalGroups
    BY PacketsAssumption
  <2>2. \A t \in Slots : g.clients[t].group = IF t = s THEN c.group ELSE h.clients[t].group
    BY <1>1
  <2>3. /\ \A x \in LocalGroups : x \in h.joined <=> \E t \in Slots : h.clients[t].group = x
        /\ \A t, u \in Slots :
             h.clients[t].group \in LocalGroups /\ h.clients[t].group = h.clients[u].group => t = u
    BY DEF Rest, MembersSound
  <2>4. c.group \in LocalGroups => \A t \in Slots : h.clients[t].group # c.group
    BY <2>3 DEF MayJoin
  <2>5. ASSUME NEW x \in LocalGroups
        PROVE  x \in g.joined <=> \E t \in Slots : g.clients[t].group = x
    <3>1. CASE x = c.group
      BY <1>1, <2>2, <3>1
    <3>2. CASE x # c.group
      <4>1. x \in g.joined <=> x \in h.joined
        BY <1>1, <3>2
      <4>2. (\E t \in Slots : g.clients[t].group = x) <=> \E t \in Slots : h.clients[t].group = x
        BY <1>2, <2>1, <2>2, <3>2
      <4> QED BY <2>3, <4>1, <4>2
    <3> QED BY <3>1, <3>2
  <2>6. ASSUME NEW t \in Slots, NEW u \in Slots, g.clients[t].group \in LocalGroups,
               g.clients[t].group = g.clients[u].group
        PROVE  t = u
    BY <2>2, <2>3, <2>4, <2>6
  <2> QED BY <2>5, <2>6 DEF MembersSound
<1> QED BY <1>1, <1>4, <1>5, <1>7, <1>8 DEF Rest

\* A client leaves: its queues are cleared, and it stays in its slot.
LEMMA LeaveSound ==
    ASSUME NEW h \in HostType, NEW f \in Counts, PacketsSound(h, f), Rest(h),
           NEW s \in Slots, ~Free(h, s),
           NEW g, g = [ClearQueues(h, s) EXCEPT !.clients[s].state = "LEAVING"]
    PROVE  g \in HostType /\ PacketsSound(g, f) /\ Rest(g) /\ Steady(h, g, f)
<1>1. PICK i : i = ClearQueues(h, s)
  OBVIOUS
<1>2. Cleared(h, i, s) /\ PacketsSound(i, f) /\ Steady(h, i, f)
  BY <1>1, ClearQueuesSound
<1>3. KeepsRest(h, i)
  <2>1. ASSUME NEW t \in Slots, NEW q \in QueueNames, Free(h, t)
        PROVE  i.clients[t][q] = h.clients[t][q]
    BY <1>2, <2>1 DEF Cleared
  <2> QED BY <1>2, <2>1 DEF KeepsRest, Cleared
<1>4. Rest(i) /\ i \in HostType
  BY <1>3, RestSame DEF KeepsRest
<1>5. i.clients[s] \in Client /\ i.clients \in [Slots -> Client]
  BY <1>4, HostFields
<1>6. PICK c : c = [i.clients[s] EXCEPT !.state = "LEAVING"]
  OBVIOUS
<1>7. /\ c \in Client /\ c.state = "LEAVING"
      /\ c.group = i.clients[s].group /\ c.level = i.clients[s].level
      /\ c.lzf = i.clients[s].lzf /\ c.mtu = i.clients[s].mtu
      /\ \A q \in QueueNames : c[q] = i.clients[s][q]
  BY <1>5, <1>6 DEF Client, States, QueueNames
<1>8. g = [i EXCEPT !.clients[s] = c]
  <2>1. i = [clients |-> i.clients, packets |-> i.packets,
             instances |-> i.instances, joined |-> i.joined]
    BY <1>4, HostFields
  <2>2. g = [i EXCEPT !.clients[s].state = "LEAVING"]
    BY <1>1
  <2> QED BY <1>5, <1>6, <2>1, <2>2
<1>9. ClientIs(i, g, s, c)
  BY <1>4, <1>7, <1>8, ClientSet
<1>10. ASSUME NEW t \in Slots
       PROVE  /\ Free(g, t) <=> Free(i, t)
              /\ g.clients[t].group = i.clients[t].group
              /\ g.clients[t].level = i.clients[t].level
              /\ g.clients[t].lzf = i.clients[t].lzf
              /\ g.clients[t].mtu = i.clients[t].mtu
              /\ \A q \in QueueNames : g.clients[t][q] = i.clients[t][q]
  <2>1. CASE t # s
    BY <1>9, <2>1 DEF ClientIs, Free
  <2>2. CASE t = s
    <3>1. ~Free(i, s)
      BY <1>2 DEF Cleared, SameClients, Free
    <3>2. g.clients[s] = c
      BY <1>9 DEF ClientIs
    <3> QED BY <1>7, <2>2, <3>1, <3>2 DEF Free
  <2> QED BY <2>1, <2>2
<1>11. /\ g \in HostType /\ g.packets = i.packets /\ g.instances = i.instances
       /\ g.joined = i.joined
  BY <1>9 DEF ClientIs
<1>12. PacketsSound(g, f)
  <2>1. SameQueues(i, g)
    BY <1>10, <1>11 DEF SameQueues
  <2> QED BY <1>2, <2>1, PacketsSame
<1>13. Shape(g)
  <2>1. Shape(i)
    BY <1>4 DEF Rest
  <2> QED BY <1>10, <2>1 DEF Shape
<1>14. InstancesSound(g)
  <2>1. \A z \in LzfIds : Users(g, z) = Users(i, z)
    BY <1>10 DEF Users
  <2>2. \A t \in Slots : g.clients[t].lzf = i.clients[t].lzf /\ g.clients[t].level = i.clients[t].level
    BY <1>10
  <2> QED BY <1>4, <1>11, <2>1, <2>2, SMTT(60) DEF Rest, InstancesSound
<1>15. MembersSound(g)
  <2>1. \A t \in Slots : g.clients[t].group = i.clients[t].group
    BY <1>10
  <2> QED BY <1>4, <1>11, <2>1 DEF Rest, MembersSound
<1>16. Steady(h, g, f)
  BY <1>2, <1>11 DEF Steady
<1> QED BY <1>11, <1>12, <1>13, <1>14, <1>15, <1>16 DEF Rest

-----------------------------------------------------------------------------
(* Packets are sent.                                                       *)

\* What division of natural numbers gives is one.
LEMMA DivisionNat ==
    ASSUME NEW a \in Nat, NEW b \in Nat \ {0}
    PROVE  a \div b \in Nat
<1> DEFINE k == a \div b
           m == a % b
<1>1. k \in Int /\ m \in 0 .. (b - 1) /\ a = k * b + m
  BY SMT
<1> HIDE DEF k, m
<1>2. ASSUME k <= -1 PROVE FALSE
  <2>1. k * b <= -b
    BY <1>1, <1>2, SMT
  <2> QED BY <1>1, <2>1, SMT
<1>3. k \in Nat
  BY <1>1, <1>2
<1> QED BY <1>3 DEF k

\* The messages of a packet can be counted, as a client takes messages.
LEMMA FragmentsNat ==
    ASSUME NEW h \in HostType, NEW s \in Slots, h.clients[s].mtu \in 1 .. Mtu,
           NEW p \in PacketIds
    PROVE  Fragments(h, s, p) \in Nat
<1>1. PICK mtu : mtu = h.clients[s].mtu
  OBVIOUS
<1>2. mtu \in Nat \ {0}
  BY <1>1, PacketsAssumption
<1>3. PICK length : length = h.packets[p].length
  OBVIOUS
<1>4. h.packets[p] \in Packet
  BY HostFields
<1>5. length \in Nat
  BY <1>3, <1>4 DEF Packet
<1>6. length + mtu - 1 \in Nat
  BY <1>2, <1>5
<1>7. (length + mtu - 1) \div mtu \in Nat
  BY <1>2, <1>6, DivisionNat
<1> QED BY <1>1, <1>3, <1>7 DEF Fragments

\* What a host is after messages were queued: all is sound, and as much of it as before.
QueuedWell(h, g, f) ==
    /\ g \in HostType /\ PacketsSound(g, f) /\ KeepsRest(h, g)
    /\ \A r \in PacketIds : g.packets[r].deflated = h.packets[r].deflated
    /\ FreePackets(g) = FreePackets(h)

\* The messages of a packet are queued.
LEMMA QueueMessagesSound ==
    ASSUME NEW h \in HostType, NEW f \in Counts, PacketsSound(h, f), Rest(h),
           NEW s \in Slots, ~Free(h, s), NEW p \in PacketIds, f[p] > 0,
           NEW compressed \in BOOLEAN, compressed = h.packets[p].deflated,
           NEW g, g = QueueMessages(h, s, p, compressed)
    PROVE  QueuedWell(h, g, f)
<1>1. Fragments(h, s, p) \in Nat
  <2>1. h.clients[s].mtu \in 1 .. Mtu
    BY DEF Rest, Shape
  <2> QED BY <2>1, FragmentsNat
<1>2. KeepsRest(h, h)
  BY DEF KeepsRest, SameClients
<1>3. CASE Fragments(h, s, p) = 1
  <2>1. g = QueueOutgoing(h, s, p, compressed, 1)
    BY <1>3 DEF QueueMessages
  <2>2. PICK n : n = 1
    OBVIOUS
  <2>3. n \in Nat /\ g = QueueOutgoing(h, s, p, compressed, n)
    BY <2>1, <2>2
  <2>4. /\ PacketsSound(g, f) /\ KeepsRest(h, g)
        /\ \A r \in PacketIds : g.packets[r].deflated = h.packets[r].deflated
        /\ FreePackets(g) = FreePackets(h)
    BY <2>3, QueueOutgoingSound
  <2> QED BY <2>4 DEF QueuedWell, KeepsRest
<1>4. CASE Fragments(h, s, p) # 1 /\ h.clients[s].group # None
  <2>1. g = h
    BY <1>4 DEF QueueMessages
  <2> QED BY <1>2, <2>1 DEF QueuedWell
<1>5. CASE Fragments(h, s, p) # 1 /\ h.clients[s].group = None
  <2>1. PICK n : n = Fragments(h, s, p)
    OBVIOUS
  <2>2. PICK flags : flags = h.packets[p].flags \cup {"RELIABLE"}
    OBVIOUS
  <2>3. PICK i : i = SetFlags(h, p, flags)
    OBVIOUS
  <2>4. g = QueueOutgoing(i, s, p, compressed, n)
    BY <1>5, <2>1, <2>2, <2>3, Zenon DEF QueueMessages
  <2>5. flags \in SUBSET Flags /\ (h.packets[p].deflated => "COMPRESSED" \in flags)
    <3>1. h.packets[p] \in Packet
      BY HostFields
    <3>2. h.packets[p].flags \in SUBSET Flags
      BY <3>1 DEF Packet
    <3>3. h.packets[p].deflated => "COMPRESSED" \in h.packets[p].flags
      BY DEF PacketsSound, Flagged
    <3> QED BY <2>2, <3>2, <3>3 DEF Flags
  <2>6. /\ OnlyPackets(h, i) /\ PacketsSound(i, f)
        /\ \A r \in PacketIds : /\ i.packets[r].deflated = h.packets[r].deflated
                                /\ i.packets[r].refCount = h.packets[r].refCount
                                /\ i.packets[r].length = h.packets[r].length
    BY <2>3, <2>5, FlagsSound
  <2>7. i \in HostType /\ ~Free(i, s) /\ compressed = i.packets[p].deflated
    BY <2>6 DEF OnlyPackets, Free
  <2>8. /\ PacketsSound(g, f) /\ KeepsRest(i, g)
        /\ \A r \in PacketIds : g.packets[r].deflated = i.packets[r].deflated
        /\ FreePackets(g) = FreePackets(i)
    BY <1>1, <2>1, <2>4, <2>6, <2>7, QueueOutgoingSound
  <2>9. KeepsRest(h, g)
    <3>1. KeepsRest(h, i)
      BY <2>6 DEF OnlyPackets, KeepsRest, SameClients
    <3> QED BY <2>8, <3>1, RestKeptTwice
  <2>10. FreePackets(i) = FreePackets(h)
    BY <2>6 DEF FreePackets
  <2> QED BY <2>6, <2>8, <2>9, <2>10 DEF QueuedWell, KeepsRest
<1> QED BY <1>3, <1>4, <1>5

\* What a host is after a packet was sent: all is sound, and one packet may be used up.
SentWell(h, g, f) ==
    /\ g \in HostType /\ PacketsSound(g, f) /\ Rest(g) /\ Steady(h, g, f)
    /\ FreePackets(h) \ {Fresh(h)} \subseteq FreePackets(g)

\* A packet that stays as it is is queued well, and so it is sent well.
LEMMA QueuedIsSent ==
    ASSUME NEW h, NEW g, NEW f, QueuedWell(h, g, f), Rest(h)
    PROVE  SentWell(h, g, f)
<1>1. Rest(g)
  BY RestSame DEF QueuedWell
<1> QED BY <1>1 DEF QueuedWell, SentWell, Steady

\* The packet that _gekkota_xudpclient_deflate makes.
LEMMA DeflatedSound ==
    ASSUME NEW h \in HostType, NEW f \in Counts, PacketsSound(h, f), Rest(h),
           NEW s \in Slots, ~Free(h, s), NEW p \in PacketIds, f[p] > 0,
           "COMPRESSED" \in h.packets[p].flags, FreePackets(h) # {},
           NEW d, d = Fresh(h), NEW g, g = Deflated(h, s, p)
    PROVE  /\ d \in PacketIds /\ d # p /\ f[d] = 0
           /\ g \in HostType /\ Rest(g) /\ ~Free(g, s)
           /\ [f EXCEPT ![d] = 1] \in Counts /\ PacketsSound(g, [f EXCEPT ![d] = 1])
           /\ g.packets[d].deflated = h.packets[p].shrinks
           /\ \A r \in PacketIds : r # d => g.packets[r] = h.packets[r]
<1>1. PICK i : i = WithLzf(h, s)
  OBVIOUS
<1>2. /\ SameQueues(h, i) /\ PacketsSound(i, f) /\ Rest(i)
      /\ \A t \in Slots : /\ i.clients[t].state = h.clients[t].state
                          /\ i.clients[t].group = h.clients[t].group
                          /\ i.clients[t].mtu = h.clients[t].mtu
  BY <1>1, WithLzfSound
<1>3. i \in HostType /\ i.packets = h.packets /\ ~Free(i, s)
  BY <1>2 DEF SameQueues, Free
<1>4. FreePackets(i) = FreePackets(h)
  BY <1>3 DEF FreePackets
<1>5. d = Fresh(i) /\ FreePackets(i) # {}
  BY <1>4 DEF Fresh
<1>6. PICK packet : packet = h.packets[p]
  OBVIOUS
<1>7. /\ packet \in Packet /\ packet.flags \in SUBSET Flags /\ packet.length \in Nat
      /\ packet.shrinks \in BOOLEAN /\ "COMPRESSED" \in packet.flags
  BY <1>6, HostFields DEF Packet
<1>8. g = PacketNew(i, packet.flags, packet.length, packet.shrinks, FALSE)
  BY <1>1, <1>6 DEF Deflated
<1>9. /\ d \in PacketIds /\ d \in FreePackets(i) /\ f[d] = 0
      /\ OnlyPackets(i, g)
      /\ g.packets[d] = [refCount |-> 1, flags |-> packet.flags, length |-> packet.length,
                         deflated |-> packet.shrinks, shrinks |-> FALSE]
      /\ \A r \in PacketIds : r # d => g.packets[r] = i.packets[r]
      /\ [f EXCEPT ![d] = 1] \in Counts /\ PacketsSound(g, [f EXCEPT ![d] = 1])
  <2>1. PICK flags : flags = packet.flags
    OBVIOUS
  <2>2. PICK length : length = packet.length
    OBVIOUS
  <2>3. PICK deflated : deflated = packet.shrinks
    OBVIOUS
  <2>4. PICK shrinks : shrinks = FALSE
    OBVIOUS
  <2>5. /\ flags \in SUBSET Flags /\ length \in Nat /\ deflated \in BOOLEAN
        /\ shrinks \in BOOLEAN /\ (deflated => "COMPRESSED" \in flags)
    BY <1>7, <2>1, <2>2, <2>3, <2>4
  <2>6. g = PacketNew(i, flags, length, deflated, shrinks)
    BY <1>8, <2>1, <2>2, <2>3, <2>4
  <2>7. /\ d \in PacketIds /\ d \in FreePackets(i) /\ f[d] = 0
        /\ OnlyPackets(i, g)
        /\ g.packets[d] = [refCount |-> 1, flags |-> flags, length |-> length,
                           deflated |-> deflated, shrinks |-> shrinks]
        /\ \A r \in PacketIds : r # d => g.packets[r] = i.packets[r]
        /\ [f EXCEPT ![d] = 1] \in Counts /\ PacketsSound(g, [f EXCEPT ![d] = 1])
    BY <1>2, <1>3, <1>5, <2>5, <2>6, NewSound, SMTT(60)
  <2> QED BY <2>1, <2>2, <2>3, <2>4, <2>7
<1>10. KeepsRest(i, g)
  BY <1>9 DEF OnlyPackets, KeepsRest, SameClients
<1>11. Rest(g) /\ g \in HostType
  BY <1>2, <1>10, RestSame DEF KeepsRest
<1>12. ~Free(g, s)
  BY <1>3, <1>9 DEF OnlyPackets, Free
<1>13. g.packets[d].deflated = h.packets[p].shrinks
  BY <1>6, <1>9
<1> QED BY <1>3, <1>9, <1>11, <1>12, <1>13

\* A caller's only reference of packet d is given up: the others stay as they are.
LEMMA GivenUp ==
    ASSUME NEW h \in HostType, NEW f \in Counts, NEW d \in PacketIds, f[d] = 0,
           PacketsSound(h, [f EXCEPT ![d] = 1]), Rest(h), NEW g, g = PacketDestroy(h, d)
    PROVE  /\ OnlyPackets(h, g) /\ Rest(g) /\ PacketsSound(g, f)
           /\ \A r \in PacketIds : r # d => g.packets[r] = h.packets[r]
<1>1. PICK e : e = [f EXCEPT ![d] = 1]
  OBVIOUS
<1>2. e \in Counts /\ e[d] = 1 /\ PacketsSound(h, e)
  BY <1>1 DEF Counts
<1>3. /\ OnlyPackets(h, g)
      /\ \A r \in PacketIds : r # d => g.packets[r] = h.packets[r]
      /\ PacketsSound(g, [e EXCEPT ![d] = e[d] - 1])
  <2>1. e[d] > 0
    BY <1>2
  <2> QED BY <1>2, <2>1, DestroySound
<1>4. [e EXCEPT ![d] = e[d] - 1] = f
  <2>1. f \in [PacketIds -> Nat]
    BY DEF Counts
  <2>2. e[d] - 1 = f[d]
    BY <1>2
  <2> QED BY <1>1, <2>1, <2>2
<1>5. Rest(g)
  <2>1. KeepsRest(h, g)
    BY <1>3 DEF OnlyPackets, KeepsRest, SameClients
  <2> QED BY <2>1, RestSame
<1> QED BY <1>3, <1>4, <1>5

\* gekkota_xudpclient_send.
LEMMA SentSound ==
    ASSUME NEW h \in HostType, NEW f \in Counts, PacketsSound(h, f), Rest(h),
           NEW s \in Slots, ~Free(h, s), NEW p \in PacketIds, f[p] > 0,
           ~h.packets[p].deflated, FreePackets(h) # {}, NEW g, g = Sent(h, s, p)
    PROVE  SentWell(h, g, f)
<1>1. PICK packet : packet = h.packets[p]
  OBVIOUS
<1>2. packet \in Packet
  BY <1>1, HostFields
<1>3. packet.deflated = FALSE /\ packet.shrinks \in BOOLEAN /\ packet.flags \in SUBSET Flags
  BY <1>1, <1>2 DEF Packet
<1>4. PICK yes : yes = TRUE
  OBVIOUS
<1>5. PICK no : no = FALSE
  OBVIOUS
<1>6. yes \in BOOLEAN /\ no \in BOOLEAN
  BY <1>4, <1>5
<1>7. CASE "COMPRESSED" \notin packet.flags
  <2>1. g = QueueMessages(h, s, p, no)
    BY <1>1, <1>5, <1>7 DEF Sent
  <2>2. no = h.packets[p].deflated
    BY <1>1, <1>3, <1>5
  <2>3. QueuedWell(h, g, f)
    BY <1>6, <2>1, <2>2, QueueMessagesSound
  <2> QED BY <2>3, QueuedIsSent
<1>8. CASE "COMPRESSED" \in packet.flags
  <2>1. PICK d : d = Fresh(h)
    OBVIOUS
  <2>2. PICK i : i = Deflated(h, s, p)
    OBVIOUS
  <2>3. PICK e : e = [f EXCEPT ![d] = 1]
    OBVIOUS
  <2>4. /\ d \in PacketIds /\ d # p /\ f[d] = 0
        /\ i \in HostType /\ Rest(i) /\ ~Free(i, s)
        /\ e \in Counts /\ PacketsSound(i, e)
        /\ i.packets[d].deflated = packet.shrinks
        /\ \A r \in PacketIds : r # d => i.packets[r] = h.packets[r]
    <3>1. /\ d \in PacketIds /\ d # p /\ f[d] = 0
          /\ i \in HostType /\ Rest(i) /\ ~Free(i, s)
          /\ [f EXCEPT ![d] = 1] \in Counts /\ PacketsSound(i, [f EXCEPT ![d] = 1])
          /\ i.packets[d].deflated = h.packets[p].shrinks
          /\ \A r \in PacketIds : r # d => i.packets[r] = h.packets[r]
      BY <1>1, <1>8, <2>1, <2>2, DeflatedSound
    <3> QED BY <1>1, <2>3, <3>1
  <2>5. e[d] > 0
    BY <2>3, <2>4 DEF Counts
  <2>6. PacketsSound(i, [f EXCEPT ![d] = 1])
    BY <2>3, <2>4
  <2>7. CASE packet.shrinks
    <3>1. PICK j : j = QueueMessages(i, s, d, yes)
      OBVIOUS
    <3>2. g = PacketDestroy(j, d)
      BY <1>1, <1>4, <1>8, <2>1, <2>2, <2>7, <3>1 DEF Sent
    <3>3. yes = i.packets[d].deflated
      BY <1>3, <1>4, <2>4, <2>7
    <3>4. QueuedWell(i, j, e)
      BY <1>6, <2>4, <2>5, <3>1, <3>3, QueueMessagesSound
    <3>5. j \in HostType /\ Rest(j) /\ PacketsSound(j, [f EXCEPT ![d] = 1])
      BY <2>3, <2>4, <3>4, RestSame DEF QueuedWell
    <3>6. /\ OnlyPackets(j, g) /\ Rest(g) /\ PacketsSound(g, f)
          /\ \A r \in PacketIds : r # d => g.packets[r] = j.packets[r]
      BY <2>4, <3>2, <3>5, GivenUp, SMTT(60)
    <3>7. Steady(h, g, f)
      <4>1. ASSUME NEW r \in PacketIds, f[r] > 0
            PROVE  g.packets[r].deflated = h.packets[r].deflated
        <5>1. r # d
          BY <2>4, <4>1
        <5>2. g.packets[r] = j.packets[r] /\ i.packets[r] = h.packets[r]
          BY <2>4, <3>6, <5>1
        <5>3. j.packets[r].deflated = i.packets[r].deflated
          BY <3>4 DEF QueuedWell
        <5> QED BY <5>2, <5>3
      <4> QED BY <4>1 DEF Steady
    <3>8. FreePackets(h) \ {Fresh(h)} \subseteq FreePackets(g)
      <4>1. ASSUME NEW r \in FreePackets(h), r # d PROVE r \in FreePackets(g)
        <5>1. r \in PacketIds /\ h.packets[r].refCount = 0
          BY DEF FreePackets
        <5>2. r \in FreePackets(i)
          BY <2>4, <4>1, <5>1 DEF FreePackets
        <5>3. r \in FreePackets(j)
          BY <3>4, <5>2 DEF QueuedWell
        <5> QED BY <3>6, <4>1, <5>1, <5>3 DEF FreePackets
      <4> QED BY <2>1, <4>1
    <3> QED BY <3>6, <3>7, <3>8 DEF SentWell, OnlyPackets
  <2>8. CASE ~packet.shrinks
    <3>1. PICK flags : flags = packet.flags \ {"COMPRESSED"}
      OBVIOUS
    <3>2. PICK j : j = PacketDestroy(i, d)
      OBVIOUS
    <3>3. PICK k : k = SetFlags(j, p, flags)
      OBVIOUS
    <3>4. g = QueueMessages(k, s, p, no)
      BY <1>1, <1>5, <1>8, <2>1, <2>2, <2>8, <3>1, <3>2, <3>3 DEF Sent
    <3>5. /\ OnlyPackets(i, j) /\ Rest(j) /\ PacketsSound(j, f)
          /\ \A r \in PacketIds : r # d => j.packets[r] = i.packets[r]
      BY <2>4, <2>6, <3>2, GivenUp
    <3>6. j \in HostType /\ ~Free(j, s) /\ j.packets[p] = packet
      BY <1>1, <2>4, <3>5 DEF OnlyPackets, Free
    <3>7. flags \in SUBSET Flags /\ (j.packets[p].deflated => "COMPRESSED" \in flags)
      BY <1>3, <3>1, <3>6
    <3>8. /\ OnlyPackets(j, k) /\ PacketsSound(k, f)
          /\ \A r \in PacketIds : /\ k.packets[r].deflated = j.packets[r].deflated
                                  /\ k.packets[r].refCount = j.packets[r].refCount
                                  /\ k.packets[r].length = j.packets[r].length
      BY <3>3, <3>5, <3>6, <3>7, FlagsSound
    <3>9. k \in HostType /\ Rest(k) /\ ~Free(k, s)
      <4>1. KeepsRest(j, k)
        BY <3>8 DEF OnlyPackets, KeepsRest, SameClients
      <4> QED BY <3>5, <3>6, <3>8, <4>1, RestSame DEF OnlyPackets, Free
    <3>10. no = k.packets[p].deflated
      BY <1>3, <1>5, <3>6, <3>8
    <3>11. QueuedWell(k, g, f)
      BY <1>6, <3>4, <3>8, <3>9, <3>10, QueueMessagesSound
    <3>12. Rest(g) /\ g \in HostType /\ PacketsSound(g, f)
      BY <3>9, <3>11, RestSame DEF QueuedWell
    <3>13. Steady(h, g, f)
      <4>1. ASSUME NEW r \in PacketIds, f[r] > 0
            PROVE  g.packets[r].deflated = h.packets[r].deflated
        <5>1. r # d
          BY <2>4, <4>1
        <5>2. j.packets[r] = i.packets[r] /\ i.packets[r] = h.packets[r]
          BY <2>4, <3>5, <5>1
        <5>3. g.packets[r].deflated = k.packets[r].deflated
          BY <3>11 DEF QueuedWell
        <5> QED BY <3>8, <5>2, <5>3
      <4> QED BY <4>1 DEF Steady
    <3>14. FreePackets(h) \ {Fresh(h)} \subseteq FreePackets(g)
      <4>1. ASSUME NEW r \in FreePackets(h), r # d PROVE r \in FreePackets(g)
        <5>1. r \in PacketIds /\ h.packets[r].refCount = 0
          BY DEF FreePackets
        <5>2. j.packets[r] = i.packets[r] /\ i.packets[r] = h.packets[r]
          BY <2>4, <3>5, <4>1, <5>1
        <5>3. r \in FreePackets(k)
          BY <3>8, <5>1, <5>2 DEF FreePackets
        <5> QED BY <3>11, <5>3 DEF QueuedWell
      <4> QED BY <2>1, <4>1
    <3> QED BY <3>12, <3>13, <3>14 DEF SentWell
  <2> QED BY <2>7, <2>8
<1> QED BY <1>7, <1>8

-----------------------------------------------------------------------------
(* What is done to one client after the other.                             *)

\* The results of steps that are taken one after the other, from the first.
Iterated(f, N, first, step) == f = [k \in 0 .. N |-> IF k = 0 THEN first ELSE step[k][f[k - 1]]]

\* There are such results if each step can be taken after the one before.
LEMMA IterationDefined ==
    ASSUME NEW N \in Nat, NEW D, NEW first \in D[0], NEW step,
           \A k \in 1 .. N : step[k] \in [D[k - 1] -> D[k]]
    PROVE  \E f : Iterated(f, N, first, step) /\ \A k \in 0 .. N : f[k] \in D[k]
<1> DEFINE Good(f, n) == Iterated(f, n, first, step) /\ \A k \in 0 .. n : f[k] \in D[k]
           T == {n \in Nat : n <= N => \E f : Good(f, n)}
<1>1. 0 \in T
  <2> DEFINE f == [k \in 0 .. 0 |-> first]
  <2>1. Iterated(f, 0, first, step)
    BY DEF Iterated
  <2>2. \A k \in 0 .. 0 : f[k] \in D[k]
    OBVIOUS
  <2> HIDE DEF f
  <2> QED BY <2>1, <2>2
<1>2. ASSUME NEW n \in T PROVE n + 1 \in T
  <2> SUFFICES ASSUME n + 1 <= N PROVE \E f : Good(f, n + 1)
    OBVIOUS
  <2>1. PICK f : Good(f, n)
    OBVIOUS
  <2> DEFINE g == [k \in 0 .. (n + 1) |-> IF k <= n THEN f[k] ELSE step[n + 1][f[n]]]
  <2>2. \A k \in 0 .. n : f[k] = IF k = 0 THEN first ELSE step[k][f[k - 1]]
    BY <2>1 DEF Iterated
  <2>3. \A k \in 0 .. (n + 1) : g[k] = IF k = 0 THEN first ELSE step[k][g[k - 1]]
    BY <2>2
  <2>4. Iterated(g, n + 1, first, step)
    BY <2>3, Zenon DEF Iterated
  <2>5. ASSUME NEW k \in 0 .. (n + 1) PROVE g[k] \in D[k]
    <3>1. CASE k <= n
      BY <2>1, <3>1
    <3>2. CASE ~(k <= n)
      <4>1. k = n + 1 /\ n + 1 \in 1 .. N /\ (n + 1) - 1 = n /\ n \in 0 .. n
        BY <3>2
      <4>2. f[n] \in D[n] /\ step[n + 1] \in [D[n] -> D[n + 1]]
        BY <2>1, <4>1
      <4>3. step[n + 1][f[n]] \in D[n + 1]
        BY <4>2
      <4>4. g[k] = step[n + 1][f[n]]
        BY <3>2
      <4> QED BY <4>1, <4>3, <4>4
    <3> QED BY <3>1, <3>2
  <2> HIDE DEF g
  <2> QED BY <2>4, <2>5
<1> HIDE DEF T, Good
<1>3. T = Nat
  BY <1>1, <1>2, SetInduction DEF T
<1>4. \E f : Good(f, N)
  BY <1>3 DEF T
<1> QED BY <1>4 DEF Good

\* What the turns of gekkota_xudp_broadcast are taken in.
TurnIs(turn, h, p) ==
    turn = [s \in 0 .. MaxClient |->
              IF s = 0 THEN [host |-> h, failed |-> FALSE] ELSE SentInTurn(turn[s - 1], s, p)]

\* A broadcast that got as far as client k: there are packets left for the others.
Underway(h, f, k) ==
    {r \in [host : HostType, failed : BOOLEAN] :
       /\ PacketsSound(r.host, f) /\ Rest(r.host) /\ Steady(h, r.host, f)
       /\ Cardinality(FreePackets(r.host)) >= MaxClient - k}

\* A turn of a broadcast.
LEMMA TurnSound ==
    ASSUME NEW h \in HostType, NEW f \in Counts, NEW p \in PacketIds, f[p] > 0,
           ~h.packets[p].deflated, NEW k \in Slots, NEW r \in Underway(h, f, k - 1)
    PROVE  SentInTurn(r, k, p) \in Underway(h, f, k)
<1>1. k \in Nat /\ MaxClient \in Nat /\ k <= MaxClient
  BY SlotsFinite DEF Slots
<1>2. PICK i : i = r.host
  OBVIOUS
<1>3. PICK b : b = r.failed
  OBVIOUS
<1>4. /\ i \in HostType /\ b \in BOOLEAN /\ r = [host |-> i, failed |-> b]
      /\ PacketsSound(i, f) /\ Rest(i) /\ Steady(h, i, f)
      /\ Cardinality(FreePackets(i)) >= MaxClient - (k - 1)
  BY <1>2, <1>3 DEF Underway
<1>5. IsFiniteSet(FreePackets(i)) /\ Cardinality(FreePackets(i)) \in Nat
  <2>1. FreePackets(i) \in SUBSET PacketIds
    BY DEF FreePackets
  <2> QED BY <2>1, PacketsAssumption, FS_Subset, FS_CardinalityType
<1>6. CASE SentInTurn(r, k, p) = r
  <2>1. Cardinality(FreePackets(i)) >= MaxClient - k
    BY <1>1, <1>4, <1>5
  <2> QED BY <1>2, <1>4, <1>6, <2>1 DEF Underway
<1>7. CASE SentInTurn(r, k, p) = [r EXCEPT !.failed = TRUE]
  <2>1. Cardinality(FreePackets(i)) >= MaxClient - k
    BY <1>1, <1>4, <1>5
  <2>2. PICK e : e = SentInTurn(r, k, p)
    OBVIOUS
  <2>3. e = [host |-> i, failed |-> TRUE]
    BY <1>4, <1>7, <2>2
  <2>4. e \in [host : HostType, failed : BOOLEAN] /\ e.host = i
    BY <1>4, <2>3
  <2> QED BY <1>4, <2>1, <2>2, <2>4 DEF Underway
<1>8. CASE Connected(i, k) /\ SentInTurn(r, k, p) = [r EXCEPT !.host = Sent(i, k, p)]
  <2>1. PICK g : g = Sent(i, k, p)
    OBVIOUS
  <2>2. ~Free(i, k)
    BY <1>8 DEF Connected, Free
  <2>3. ~i.packets[p].deflated
    BY <1>4 DEF Steady
  <2>4. Cardinality(FreePackets(i)) >= 1
    BY <1>1, <1>4, <1>5
  <2>5. FreePackets(i) # {}
    BY <2>4, FS_EmptySet
  <2>6. SentWell(i, g, f)
    BY <1>4, <2>1, <2>2, <2>3, <2>5, SentSound
  <2>7. /\ g \in HostType /\ PacketsSound(g, f) /\ Rest(g) /\ Steady(i, g, f)
        /\ FreePackets(i) \ {Fresh(i)} \subseteq FreePackets(g)
    BY <2>6 DEF SentWell
  <2>8. Steady(h, g, f)
    BY <1>4, <2>7 DEF Steady
  <2>9. Cardinality(FreePackets(g)) >= MaxClient - k
    <3>1. Fresh(i) \in FreePackets(i)
      BY <2>5 DEF Fresh
    <3>2. /\ IsFiniteSet(FreePackets(i) \ {Fresh(i)})
          /\ Cardinality(FreePackets(i) \ {Fresh(i)}) = Cardinality(FreePackets(i)) - 1
      BY <1>5, <3>1, FS_RemoveElement
    <3>3. IsFiniteSet(FreePackets(g)) /\ Cardinality(FreePackets(g)) \in Nat
      <4>1. FreePackets(g) \in SUBSET PacketIds
        BY DEF FreePackets
      <4> QED BY <4>1, PacketsAssumption, FS_Subset, FS_CardinalityType
    <3>4. Cardinality(FreePackets(i) \ {Fresh(i)}) <= Cardinality(FreePackets(g))
      BY <2>7, <3>3, FS_Subset
    <3> QED BY <1>1, <1>4, <1>5, <3>2, <3>3, <3>4
  <2>10. SentInTurn(r, k, p) = [host |-> g, failed |-> b]
    BY <1>4, <1>8, <2>1
  <2> QED BY <1>4, <2>7, <2>8, <2>9, <2>10 DEF Underway
<1>9. \/ SentInTurn(r, k, p) = r
      \/ SentInTurn(r, k, p) = [r EXCEPT !.failed = TRUE]
      \/ Connected(i, k) /\ SentInTurn(r, k, p) = [r EXCEPT !.host = Sent(i, k, p)]
  BY <1>2 DEF SentInTurn
<1> QED BY <1>6, <1>7, <1>8, <1>9

\* gekkota_xudp_broadcast.
LEMMA BroadcastSound ==
    ASSUME NEW h \in HostType, NEW f \in Counts, PacketsSound(h, f), Rest(h),
           NEW p \in PacketIds, f[p] > 0, ~h.packets[p].deflated,
           Cardinality(FreePackets(h)) >= MaxClient, NEW g, g = Broadcasted(h, p)
    PROVE  g \in HostType /\ PacketsSound(g, f) /\ Rest(g) /\ Steady(h, g, f)
<1> DEFINE D == [k \in 0 .. MaxClient |-> Underway(h, f, k)]
           first == [host |-> h, failed |-> FALSE]
           step == [k \in 1 .. MaxClient |->
                      [r \in Underway(h, f, k - 1) |-> SentInTurn(r, k, p)]]
<1>1. MaxClient \in Nat /\ Slots = 1 .. MaxClient
  BY PacketsAssumption DEF Slots
<1>2. first \in Underway(h, f, 0)
  BY <1>1 DEF Underway, Steady
<1>3. ASSUME NEW k \in 1 .. MaxClient
      PROVE  \A r \in Underway(h, f, k - 1) : SentInTurn(r, k, p) \in Underway(h, f, k)
  BY <1>1, TurnSound
<1>4. \A k \in 1 .. MaxClient : step[k] \in [D[k - 1] -> D[k]]
  <2>1. ASSUME NEW k \in 1 .. MaxClient PROVE step[k] \in [D[k - 1] -> D[k]]
    <3>1. k - 1 \in 0 .. MaxClient /\ k \in 0 .. MaxClient
      BY <1>1
    <3>2. D[k - 1] = Underway(h, f, k - 1) /\ D[k] = Underway(h, f, k)
      BY <3>1
    <3>3. step[k] = [r \in Underway(h, f, k - 1) |-> SentInTurn(r, k, p)]
      OBVIOUS
    <3> HIDE DEF step, D
    <3>4. step[k] \in [Underway(h, f, k - 1) -> Underway(h, f, k)]
      BY <1>3, <3>3
    <3> QED BY <3>2, <3>4
  <2> QED BY <2>1
<1>5. first \in D[0]
  BY <1>1, <1>2
<1>6. \A k \in 1 .. MaxClient : \A r \in Underway(h, f, k - 1) : step[k][r] = SentInTurn(r, k, p)
  OBVIOUS
<1>7. \A k \in 0 .. MaxClient : D[k] = Underway(h, f, k)
  OBVIOUS
<1>8. \E turn : TurnIs(turn, h, p)
  <2> HIDE DEF D, step, first
  <2>1. PICK t : Iterated(t, MaxClient, first, step) /\ \A k \in 0 .. MaxClient : t[k] \in D[k]
    BY <1>1, <1>4, <1>5, IterationDefined
  <2>2. t = [k \in 0 .. MaxClient |-> IF k = 0 THEN first ELSE step[k][t[k - 1]]]
    BY <2>1 DEF Iterated
  <2>3. ASSUME NEW k \in 0 .. MaxClient, k # 0
        PROVE  step[k][t[k - 1]] = SentInTurn(t[k - 1], k, p)
    <3>1. k \in 1 .. MaxClient /\ k - 1 \in 0 .. MaxClient
      BY <1>1, <2>3
    <3>2. t[k - 1] \in Underway(h, f, k - 1)
      BY <1>7, <2>1, <3>1
    <3> QED BY <1>6, <3>1, <3>2
  <2>4. t = [k \in 0 .. MaxClient |-> IF k = 0 THEN first ELSE SentInTurn(t[k - 1], k, p)]
    BY <2>2, <2>3
  <2>5. TurnIs(t, h, p)
    BY <2>4 DEF TurnIs, first
  <2> QED BY <2>5
<1>9. PICK turn : turn = CHOOSE t : TurnIs(t, h, p)
  OBVIOUS
<1>10. TurnIs(turn, h, p)
  BY <1>8, <1>9
<1>11. g = turn[MaxClient].host
  BY <1>9, Zenon DEF Broadcasted, TurnIs
<1> DEFINE T == {k \in Nat : k <= MaxClient => turn[k] \in Underway(h, f, k)}
<1>12. 0 \in T
  BY <1>1, <1>2, <1>10 DEF TurnIs
<1>13. ASSUME NEW k \in T PROVE k + 1 \in T
  <2> SUFFICES ASSUME k + 1 <= MaxClient PROVE turn[k + 1] \in Underway(h, f, k + 1)
    OBVIOUS
  <2>1. /\ k \in Nat /\ turn[k] \in Underway(h, f, k) /\ (k + 1) - 1 = k /\ k + 1 # 0
        /\ k + 1 \in 0 .. MaxClient /\ k + 1 \in 1 .. MaxClient
    BY <1>1
  <2>2. turn[k + 1] = SentInTurn(turn[(k + 1) - 1], k + 1, p)
    BY <1>10, <2>1 DEF TurnIs
  <2> QED BY <1>3, <2>1, <2>2
<1> HIDE DEF T, D, step, first
<1>14. T = Nat
  BY <1>12, <1>13, SetInduction DEF T
<1>15. turn[MaxClient] \in Underway(h, f, MaxClient)
  BY <1>1, <1>14 DEF T
<1> QED BY <1>11, <1>15 DEF Underway

\* What gekkota_xudp_destroy leaves, one client after the other.
GoneIs(gone, h) ==
    gone = [s \in 0 .. MaxClient |-> IF s = 0 THEN h ELSE ClientDestroy(gone[s - 1], s)]

\* All clients are destroyed.
LEMMA GoneSound ==
    ASSUME NEW h \in HostType, NEW f \in Counts, PacketsSound(h, f), Rest(h),
           NEW gone, (\E t : GoneIs(t, h)) => GoneIs(gone, h), NEW g, g = gone[MaxClient]
    PROVE  g \in HostType /\ PacketsSound(g, f) /\ Rest(g) /\ Steady(h, g, f)
<1> DEFINE Well == {i \in HostType : PacketsSound(i, f) /\ Rest(i) /\ Steady(h, i, f)}
           D == [k \in 0 .. MaxClient |-> Well]
           step == [k \in 1 .. MaxClient |-> [i \in Well |-> ClientDestroy(i, k)]]
<1>1. MaxClient \in Nat /\ Slots = 1 .. MaxClient
  BY PacketsAssumption DEF Slots
<1>2. h \in Well
  BY DEF Steady
<1>3. ASSUME NEW k \in 1 .. MaxClient, NEW i \in Well PROVE ClientDestroy(i, k) \in Well
  <2>1. PICK j : j = ClientDestroy(i, k)
    OBVIOUS
  <2>2. j \in HostType /\ PacketsSound(j, f) /\ Rest(j) /\ Steady(i, j, f)
    BY <1>1, <2>1, ClientDestroySound
  <2>3. Steady(h, j, f)
    BY <2>2 DEF Steady
  <2> QED BY <2>1, <2>2, <2>3
<1>4. \A k \in 1 .. MaxClient : step[k] \in [D[k - 1] -> D[k]]
  <2>1. ASSUME NEW k \in 1 .. MaxClient PROVE step[k] \in [D[k - 1] -> D[k]]
    <3>1. k - 1 \in 0 .. MaxClient /\ k \in 0 .. MaxClient
      BY <1>1
    <3>2. D[k - 1] = Well /\ D[k] = Well
      BY <3>1
    <3>3. step[k] = [i \in Well |-> ClientDestroy(i, k)]
      OBVIOUS
    <3> HIDE DEF step, D, Well
    <3>4. step[k] \in [Well -> Well]
      BY <1>3, <3>3
    <3> QED BY <3>2, <3>4
  <2> QED BY <2>1
<1>5. \A k \in 0 .. MaxClient : D[k] = Well
  OBVIOUS
<1>6. \A k \in 1 .. MaxClient, i \in Well : step[k][i] = ClientDestroy(i, k)
  OBVIOUS
<1> HIDE DEF D, step, Well
<1>7. \E t : GoneIs(t, h)
  <2>1. h \in D[0]
    BY <1>1, <1>2, <1>5
  <2>2. PICK t : Iterated(t, MaxClient, h, step) /\ \A k \in 0 .. MaxClient : t[k] \in D[k]
    BY <1>1, <1>4, <2>1, IterationDefined
  <2>3. t = [k \in 0 .. MaxClient |-> IF k = 0 THEN h ELSE step[k][t[k - 1]]]
    BY <2>2 DEF Iterated
  <2>4. ASSUME NEW k \in 0 .. MaxClient, k # 0
        PROVE  step[k][t[k - 1]] = ClientDestroy(t[k - 1], k)
    <3>1. k \in 1 .. MaxClient /\ k - 1 \in 0 .. MaxClient
      BY <1>1, <2>4
    <3>2. t[k - 1] \in Well
      BY <1>5, <2>2, <3>1
    <3> QED BY <1>6, <3>1, <3>2
  <2>5. t = [k \in 0 .. MaxClient |-> IF k = 0 THEN h ELSE ClientDestroy(t[k - 1], k)]
    BY <2>3, <2>4
  <2> QED BY <2>5 DEF GoneIs
<1>8. GoneIs(gone, h)
  BY <1>7
<1> DEFINE T == {k \in Nat : k <= MaxClient => gone[k] \in Well}
<1>9. 0 \in T
  BY <1>1, <1>2, <1>8 DEF GoneIs
<1>10. ASSUME NEW k \in T PROVE k + 1 \in T
  <2> SUFFICES ASSUME k + 1 <= MaxClient PROVE gone[k + 1] \in Well
    OBVIOUS
  <2>1. /\ k \in Nat /\ gone[k] \in Well /\ (k + 1) - 1 = k /\ k + 1 # 0
        /\ k + 1 \in 0 .. MaxClient /\ k + 1 \in 1 .. MaxClient
    BY <1>1
  <2>2. gone[k + 1] = ClientDestroy(gone[(k + 1) - 1], k + 1)
    BY <1>8, <2>1 DEF GoneIs
  <2> QED BY <1>3, <2>1, <2>2
<1> HIDE DEF T
<1>11. T = Nat
  BY <1>9, <1>10, SetInduction DEF T
<1>12. gone[MaxClient] \in Well
  BY <1>1, <1>11 DEF T
<1> QED BY <1>12 DEF Well

-----------------------------------------------------------------------------
(* Messages leave their queues, and others come.                           *)

\* What is left when a message is taken from a queue, and its packet is the caller's.
LEMMA TakenOut ==
    ASSUME NEW h \in HostType, NEW f \in Counts, PacketsSound(h, f), Rest(h),
           NEW s \in Slots, NEW q \in QueueNames, NEW k \in DOMAIN h.clients[s][q],
           NEW m, m = h.clients[s][q][k], NEW p, p = m.packet,
           NEW e, e = OneMore(f, p),
           NEW g, g = Without(h, s, q, k)
    PROVE  /\ p \in PacketIds /\ e \in Counts /\ e[p] = f[p] + 1 /\ f[p] \in Nat
           /\ q # "incoming" => m \in Outgoing /\ m.compressed = h.packets[p].deflated
           /\ OnlyQueue(h, g, s, q) /\ g.packets = h.packets
           /\ ~Free(h, s) /\ ~Free(g, s)
           /\ PacketsSound(g, e) /\ KeepsRest(h, g) /\ Rest(g)
<1>1. /\ p \in PacketIds
      /\ q # "incoming" => m \in Outgoing /\ m.compressed = h.packets[p].deflated
      /\ QueueIs(h, g, s, q, RemoveAt(h.clients[s][q], k))
      /\ e \in Counts /\ PacketsSound(g, e)
  <2>1. p \in PacketIds
    BY WithoutSound
  <2>2. q # "incoming" => m \in Outgoing /\ m.compressed = h.packets[p].deflated
    BY WithoutSound, SMTT(60)
  <2>3. QueueIs(h, g, s, q, RemoveAt(h.clients[s][q], k))
    BY WithoutSound
  <2>4. e \in Counts
    BY WithoutSound
  <2>5. PacketsSound(g, e)
    BY WithoutSound
  <2> QED BY <2>1, <2>2, <2>3, <2>4, <2>5
<1>2. OnlyQueue(h, g, s, q) /\ g.packets = h.packets
  BY <1>1 DEF QueueIs
<1>3. ~Free(h, s)
  <2>1. h.clients[s][q] # <<>>
    <3>1. h.clients[s][q] \in Seq(Message)
      BY OutgoingQueue
    <3> QED BY <3>1
  <2> QED BY <2>1 DEF Rest, Shape
<1>4. ~Free(g, s)
  BY <1>2, <1>3 DEF OnlyQueue, SameClients, Free
<1>5. KeepsRest(h, g)
  BY <1>2, <1>3, RestKept
<1>6. Rest(g)
  BY <1>5, RestSame
<1>7. f[p] \in Nat /\ e[p] = f[p] + 1
  BY <1>1 DEF Counts, OneMore
<1> QED BY <1>1, <1>2, <1>3, <1>4, <1>5, <1>6, <1>7

\* The caller gives back the reference it was left.
LEMMA GivenBack ==
    ASSUME NEW h \in HostType, NEW f \in Counts, NEW p \in PacketIds, NEW e,
           e = OneMore(f, p), PacketsSound(h, e), Rest(h),
           NEW g, g = PacketDestroy(h, p)
    PROVE  /\ g \in HostType /\ PacketsSound(g, f) /\ Rest(g) /\ Steady(h, g, f)
           /\ \A r \in PacketIds : r # p => g.packets[r] = h.packets[r]
<1>1. f[p] \in Nat /\ e[p] = f[p] + 1 /\ e \in Counts /\ f \in [PacketIds -> Nat]
  BY DEF Counts, OneMore
<1>2. e[p] > 0 /\ (f[p] > 0 => e[p] > 1)
  BY <1>1
<1>3. /\ OnlyPackets(h, g)
      /\ \A r \in PacketIds : r # p => g.packets[r] = h.packets[r]
      /\ e[p] > 1 => g.packets[p].deflated = h.packets[p].deflated
      /\ PacketsSound(g, [e EXCEPT ![p] = e[p] - 1])
  BY <1>1, <1>2, DestroySound
<1>4. [e EXCEPT ![p] = e[p] - 1] = f
  <2>1. e[p] - 1 = f[p]
    BY <1>1
  <2> QED BY <1>1, <2>1 DEF OneMore
<1>5. Rest(g)
  <2>1. KeepsRest(h, g)
    BY <1>3 DEF OnlyPackets, KeepsRest, SameClients
  <2> QED BY <2>1, RestSame
<1>6. Steady(h, g, f)
  <2>1. ASSUME NEW r \in PacketIds, f[r] > 0
        PROVE  g.packets[r].deflated = h.packets[r].deflated
    <3>1. CASE r = p
      BY <1>2, <1>3, <2>1, <3>1
    <3>2. CASE r # p
      BY <1>3, <3>2
    <3> QED BY <3>1, <3>2
  <2> QED BY <2>1 DEF Steady
<1>7. PacketsSound(g, f)
  BY <1>3, <1>4
<1> QED BY <1>3, <1>5, <1>6, <1>7 DEF OnlyPackets

\* A message goes from one queue to the other.
LEMMA GoesOver ==
    ASSUME NEW h \in HostType, NEW f \in Counts, PacketsSound(h, f), Rest(h),
           NEW s \in Slots, NEW a \in {"outgoing", "sent"}, NEW b \in {"outgoing", "sent"},
           NEW k \in DOMAIN h.clients[s][a], NEW m, m = h.clients[s][a][k],
           NEW i, i = Without(h, s, a, k), NEW new \in Seq(Outgoing),
           More(i.clients[s][b], new, m, 1), NEW g, g = WithQueue(i, s, b, new)
    PROVE  g \in HostType /\ PacketsSound(g, f) /\ Rest(g) /\ Steady(h, g, f)
<1>1. PICK p : p = m.packet
  OBVIOUS
<1>2. PICK e : e = OneMore(f, p)
  OBVIOUS
<1>3. /\ a \in QueueNames /\ b \in QueueNames /\ a # "incoming" /\ new \in QueueOf(b)
  BY DEF QueueNames, QueueOf
<1>4. /\ p \in PacketIds /\ e \in Counts /\ e[p] = f[p] + 1 /\ f[p] \in Nat
      /\ m.compressed = h.packets[p].deflated
      /\ OnlyQueue(h, i, s, a) /\ i.packets = h.packets
      /\ ~Free(i, s) /\ PacketsSound(i, e) /\ Rest(i)
  <2>1. /\ p \in PacketIds /\ e \in Counts /\ e[p] = f[p] + 1 /\ f[p] \in Nat
        /\ a # "incoming" => m \in Outgoing /\ m.compressed = h.packets[p].deflated
        /\ OnlyQueue(h, i, s, a) /\ i.packets = h.packets
        /\ ~Free(h, s) /\ ~Free(i, s)
        /\ PacketsSound(i, e) /\ KeepsRest(h, i) /\ Rest(i)
    <3>1. /\ h \in HostType /\ f \in Counts /\ PacketsSound(h, f) /\ Rest(h)
          /\ s \in Slots /\ a \in QueueNames /\ k \in DOMAIN h.clients[s][a]
          /\ m = h.clients[s][a][k] /\ i = Without(h, s, a, k)
      BY <1>3
    <3>2. PICK q \in QueueNames : q = a
      BY <3>1
    <3>3. k \in DOMAIN h.clients[s][q] /\ m = h.clients[s][q][k] /\ i = Without(h, s, q, k)
      BY <3>1, <3>2
    <3>4. /\ p \in PacketIds /\ e \in Counts /\ e[p] = f[p] + 1 /\ f[p] \in Nat
          /\ q # "incoming" => m \in Outgoing /\ m.compressed = h.packets[p].deflated
          /\ OnlyQueue(h, i, s, q) /\ i.packets = h.packets
          /\ ~Free(h, s) /\ ~Free(i, s)
          /\ PacketsSound(i, e) /\ KeepsRest(h, i) /\ Rest(i)
      BY ONLY h \in HostType, f \in Counts, PacketsSound(h, f), Rest(h), s \in Slots, q \in QueueNames,
              <1>1, <1>2, <3>3, TakenOut, SMTT(60)
    <3> QED BY <3>2, <3>4
  <2> QED BY <1>3, <2>1
<1>5. i \in HostType
  BY <1>4 DEF OnlyQueue
<1>6. PICK n : n = 1
  OBVIOUS
<1>7. n \in Nat /\ n <= e[p] /\ e[p] - n = f[p] /\ More(i.clients[s][b], new, m, n)
  BY <1>4, <1>6
<1>8. QueueIs(i, g, s, b, new) /\ PacketsSound(g, Fewer(e, p, n))
  <2>1. b # "incoming" => m.compressed = i.packets[p].deflated
    BY <1>4
  <2> QED BY <1>1, <1>3, <1>4, <1>5, <1>7, <2>1, MoreSound
<1>9. Fewer(e, p, n) = f
  <2>1. f \in [PacketIds -> Nat]
    BY DEF Counts
  <2> QED BY <1>2, <1>7, <2>1 DEF OneMore, Fewer
<1>10. OnlyQueue(i, g, s, b) /\ g.packets = i.packets
  BY <1>8 DEF QueueIs
<1>11. KeepsRest(i, g)
  BY <1>3, <1>4, <1>10, RestKept
<1>12. Rest(g) /\ g \in HostType
  <2>1. Rest(g)
    BY <1>4, <1>11, RestSame
  <2> QED BY <1>11, <2>1 DEF KeepsRest
<1>13. PacketsSound(g, f)
  BY <1>8, <1>9
<1>14. Steady(h, g, f)
  BY <1>4, <1>10 DEF Steady
<1> QED BY <1>12, <1>13, <1>14

\* What the data handlers do with a message: its packet is in the queue, or is free again.
LEMMA ReceivedSound ==
    ASSUME NEW h \in HostType, NEW f \in Counts, PacketsSound(h, f), Rest(h),
           NEW s \in Slots, ~Free(h, s), FreePackets(h) # {},
           NEW flags \in SUBSET Flags, NEW length \in Nat, NEW deflated \in BOOLEAN,
           deflated => "COMPRESSED" \in flags, NEW fragments \in Nat, NEW queued \in BOOLEAN,
           NEW g, g = Received(h, s, flags, length, deflated, fragments, queued)
    PROVE  g \in HostType /\ PacketsSound(g, f) /\ Rest(g) /\ Steady(h, g, f)
<1>1. PICK p : p = Fresh(h)
  OBVIOUS
<1>2. PICK no : no = FALSE
  OBVIOUS
<1>3. PICK i : i = PacketNew(h, flags, length, deflated, no)
  OBVIOUS
<1>4. PICK e : e = [f EXCEPT ![p] = 1]
  OBVIOUS
<1>5. /\ p \in PacketIds /\ f[p] = 0 /\ OnlyPackets(h, i)
      /\ \A r \in PacketIds : r # p => i.packets[r] = h.packets[r]
      /\ e \in Counts /\ PacketsSound(i, e)
  <2>1. no \in BOOLEAN
    BY <1>2
  <2>2. /\ p \in PacketIds /\ p \in FreePackets(h) /\ f[p] = 0
        /\ OnlyPackets(h, i)
        /\ i.packets[p] = [refCount |-> 1, flags |-> flags, length |-> length,
                           deflated |-> deflated, shrinks |-> no]
        /\ \A r \in PacketIds : r # p => i.packets[r] = h.packets[r]
        /\ [f EXCEPT ![p] = 1] \in Counts /\ PacketsSound(i, [f EXCEPT ![p] = 1])
    BY <1>1, <1>3, <2>1, NewSound
  <2> QED BY <1>4, <2>2
<1>6. i \in HostType /\ Rest(i) /\ ~Free(i, s) /\ e[p] = 1
  <2>1. KeepsRest(h, i)
    BY <1>5 DEF OnlyPackets, KeepsRest, SameClients
  <2>2. e[p] = 1
    BY <1>4, <1>5 DEF Counts
  <2> QED BY <1>5, <2>1, <2>2, RestSame DEF OnlyPackets, Free
<1>7. PICK l : l = IF queued
                     THEN [PacketShare(i, p) EXCEPT !.clients[s].incoming = Append(@,
                             [packet |-> p, fragmentsRemaining |-> fragments])]
                     ELSE i
  OBVIOUS
<1>8. g = PacketDestroy(l, p)
  BY <1>1, <1>2, <1>3, <1>7 DEF Received
<1>9. /\ l \in HostType /\ Rest(l) /\ PacketsSound(l, e)
      /\ \A r \in PacketIds : l.packets[r].deflated = i.packets[r].deflated
  <2>1. CASE ~queued
    BY <1>5, <1>6, <1>7, <2>1
  <2>2. CASE queued
    <3>1. PICK j : j = PacketShare(i, p)
      OBVIOUS
    <3>2. PICK c : c = OneMore(e, p)
      OBVIOUS
    <3>3. /\ OnlyPackets(i, j) /\ c \in Counts /\ PacketsSound(j, c)
          /\ \A r \in PacketIds : j.packets[r].deflated = i.packets[r].deflated
      BY <1>5, <1>6, <3>1, <3>2, ShareSound
    <3>4. j \in HostType /\ ~Free(j, s) /\ Rest(j)
      <4>1. KeepsRest(i, j)
        BY <3>3 DEF OnlyPackets, KeepsRest, SameClients
      <4> QED BY <1>6, <3>3, <4>1, RestSame DEF OnlyPackets, Free
    <3>5. PICK m : m = [packet |-> p, fragmentsRemaining |-> fragments]
      OBVIOUS
    <3>6. m \in Incoming /\ m.packet = p
      BY <1>5, <3>5 DEF Incoming
    <3>7. PICK q : q = "incoming"
      OBVIOUS
    <3>8. PICK old : old = j.clients[s][q]
      OBVIOUS
    <3>9. q \in QueueNames /\ old \in Seq(Incoming)
      <4>1. q \in QueueNames
        BY <3>7 DEF QueueNames
      <4>2. old \in QueueOf(q)
        BY <3>4, <3>8, <4>1, OutgoingQueue
      <4> QED BY <3>7, <4>1, <4>2 DEF QueueOf
    <3>10. PICK new : new = Append(old, m)
      OBVIOUS
    <3>11. new \in QueueOf(q) /\ More(old, new, m, 1)
      <4>1. Incoming \in SUBSET Message
        BY DEF Message
      <4>2. new \in Seq(Incoming) /\ More(old, new, m, 1)
        BY <3>6, <3>9, <3>10, <4>1, MoreOne
      <4> QED BY <3>7, <4>2 DEF QueueOf
    <3>12. l = WithQueue(j, s, q, new)
      <4>1. l = [j EXCEPT !.clients[s].incoming = Append(@, m)]
        BY <1>7, <2>2, <3>1, <3>5
      <4>2. j.clients[s].incoming = old
        BY <3>7, <3>8
      <4>3. l = [j EXCEPT !.clients[s].incoming = new]
        BY <3>10, <4>1, <4>2
      <4>4. [j EXCEPT !.clients[s].incoming = new] = [j EXCEPT !.clients[s]["incoming"] = new]
        OBVIOUS
      <4> QED BY <3>7, <4>3, <4>4 DEF WithQueue
    <3>13. PICK n : n = 1
      OBVIOUS
    <3>14. n \in Nat /\ n <= c[p] /\ c[p] - n = e[p] /\ More(j.clients[s][q], new, m, n)
      <4>1. c[p] = 2
        BY <1>5, <1>6, <3>2 DEF Counts, OneMore
      <4> QED BY <1>6, <3>8, <3>11, <3>13, <4>1
    <3>15. QueueIs(j, l, s, q, new) /\ PacketsSound(l, Fewer(c, p, n))
      BY <1>5, <3>3, <3>4, <3>6, <3>7, <3>9, <3>11, <3>12, <3>14, MoreSound
    <3>16. Fewer(c, p, n) = e
      <4>1. e \in [PacketIds -> Nat]
        BY <1>5 DEF Counts
      <4> QED BY <3>2, <3>14, <4>1 DEF OneMore, Fewer
    <3>17. OnlyQueue(j, l, s, q) /\ l.packets = j.packets
      BY <3>15 DEF QueueIs
    <3>18. KeepsRest(j, l)
      BY <3>4, <3>9, <3>17, RestKept
    <3>19. Rest(l) /\ l \in HostType
      BY <3>4, <3>18, RestSame DEF KeepsRest
    <3>20. PacketsSound(l, e)
      BY <3>15, <3>16
    <3> QED BY <3>3, <3>17, <3>19, <3>20
  <2> QED BY <2>1, <2>2
<1>10. /\ OnlyPackets(l, g) /\ Rest(g) /\ PacketsSound(g, f)
       /\ \A r \in PacketIds : r # p => g.packets[r] = l.packets[r]
  <2>1. PacketsSound(l, [f EXCEPT ![p] = 1])
    BY <1>4, <1>9
  <2> QED BY <1>5, <1>8, <1>9, <2>1, GivenUp
<1>11. Steady(h, g, f)
  <2>1. ASSUME NEW r \in PacketIds, f[r] > 0
        PROVE  g.packets[r].deflated = h.packets[r].deflated
    <3>1. r # p
      BY <1>5, <2>1
    <3>2. g.packets[r] = l.packets[r] /\ i.packets[r] = h.packets[r]
      BY <1>5, <1>10, <3>1
    <3>3. l.packets[r].deflated = i.packets[r].deflated
      BY <1>9
    <3> QED BY <3>2, <3>3
  <2> QED BY <2>1 DEF Steady
<1> QED BY <1>10, <1>11 DEF OnlyPackets

-----------------------------------------------------------------------------
(* What becomes of an incoming message.                                    *)

\* A fragment is copied into its packet.
Copied(h, s, k) == [h EXCEPT !.clients[s].incoming[k].fragmentsRemaining = @ - 1]

\* What is said of a host stays true when a fragment is copied into its packet.
LEMMA FragmentSound ==
    ASSUME NEW h \in HostType, NEW f \in Counts, PacketsSound(h, f), Rest(h),
           NEW s \in Slots, NEW k \in DOMAIN h.clients[s].incoming,
           h.clients[s].incoming[k].fragmentsRemaining > 0,
           NEW g, g = Copied(h, s, k)
    PROVE  g \in HostType /\ PacketsSound(g, f) /\ Rest(g) /\ Steady(h, g, f)
<1>1. PICK q : q = "incoming"
  OBVIOUS
<1>2. PICK old : old = h.clients[s].incoming
  OBVIOUS
<1>3. PICK m : m = [packet |-> old[k].packet,
                    fragmentsRemaining |-> old[k].fragmentsRemaining - 1]
  OBVIOUS
<1>4. PICK new : new = [old EXCEPT ![k] = m]
  OBVIOUS
<1>5. q \in QueueNames /\ q = "incoming" /\ QueueOf(q) = Seq(Incoming) /\ old \in Seq(Incoming)
  <2>1. q \in QueueNames
    BY <1>1 DEF QueueNames
  <2>2. h.clients[s][q] \in QueueOf(q)
    BY <2>1, OutgoingQueue
  <2> QED BY <1>1, <1>2, <2>1, <2>2 DEF QueueOf
<1>6. k \in DOMAIN old /\ old[k] \in Incoming /\ old[k].fragmentsRemaining > 0
  BY <1>2, <1>5
<1>7. m \in Incoming /\ m.packet = old[k].packet
  BY <1>3, <1>6 DEF Incoming
<1>8. new \in Seq(Incoming) /\ DOMAIN new = DOMAIN old
      /\ \A j \in DOMAIN old : new[j].packet = old[j].packet
  BY <1>4, <1>5, <1>6, <1>7
<1>9. g = [h EXCEPT !.clients[s][q] = new]
  <2>1. [old[k] EXCEPT !.fragmentsRemaining = old[k].fragmentsRemaining - 1] = m
    BY <1>3, <1>6 DEF Incoming
  <2>2. g = [h EXCEPT !.clients[s].incoming =
                [old EXCEPT ![k] = [old[k] EXCEPT !.fragmentsRemaining
                                                   = old[k].fragmentsRemaining - 1]]]
    BY <1>2 DEF Copied
  <2>3. g = [h EXCEPT !.clients[s].incoming = new]
    BY <1>4, <2>1, <2>2
  <2>4. [h EXCEPT !.clients[s].incoming = new] = [h EXCEPT !.clients[s]["incoming"] = new]
    OBVIOUS
  <2> QED BY <1>1, <2>3, <2>4
<1>10. Moved(f, h.clients[s][q], f, new)
  <2>1. ASSUME NEW r \in PacketIds PROVE HoldersIn(new, r) = HoldersIn(old, r)
    BY <1>8 DEF HoldersIn
  <2>2. h.clients[s][q] = old
    BY <1>1, <1>2
  <2> QED BY <2>1, <2>2 DEF Moved
<1>11. QueueIs(h, g, s, q, new) /\ PacketsSound(g, f)
  <2>1. new \in QueueOf(q)
    BY <1>5, <1>8
  <2>2. q # "incoming" => TellsIn(h, new)
    BY <1>5
  <2> QED BY <1>5, <1>9, <1>10, <2>1, <2>2, QueueSound
<1>12. OnlyQueue(h, g, s, q) /\ g.packets = h.packets
  BY <1>11 DEF QueueIs
<1>13. ~Free(h, s)
  <2>1. h.clients[s][q] # <<>>
    BY <1>1, <1>2, <1>5, <1>6
  <2> QED BY <1>5, <2>1 DEF Rest, Shape
<1>14. KeepsRest(h, g)
  BY <1>5, <1>12, <1>13, RestKept
<1>15. Rest(g)
  BY <1>14, RestSame
<1> QED BY <1>11, <1>12, <1>14, <1>15 DEF Steady, KeepsRest

\* The packet of an event: what is inflated is given up, and what is left is not deflated.
LEMMA InflateSound ==
    ASSUME NEW h \in HostType, NEW f \in Counts, NEW p \in PacketIds, NEW e, e = OneMore(f, p),
           PacketsSound(h, e), Rest(h), NEW s \in Slots, ~Free(h, s), FreePackets(h) # {},
           NEW r, r = InflateFor(h, s, p)
    PROVE  /\ r.packet \in PacketIds /\ r.host \in HostType
           /\ PacketsSound(r.host, OneMore(f, r.packet)) /\ Rest(r.host)
           /\ ~r.host.packets[r.packet].deflated /\ Steady(h, r.host, f)
<1>1. f[p] \in Nat /\ e[p] = f[p] + 1 /\ e \in Counts /\ f \in [PacketIds -> Nat]
      /\ \A x \in PacketIds : x # p => e[x] = f[x]
  BY DEF Counts, OneMore
<1>2. CASE "COMPRESSED" \notin h.packets[p].flags
  <2>1. r = [host |-> h, packet |-> p]
    BY <1>2 DEF InflateFor
  <2>2. r.host = h /\ r.packet = p
    BY <2>1
  <2>3. h.packets[p].deflated => "COMPRESSED" \in h.packets[p].flags
    BY DEF PacketsSound, Flagged
  <2>4. PacketsSound(h, OneMore(f, p))
    OBVIOUS
  <2>5. Steady(h, h, f)
    BY DEF Steady
  <2> QED BY <1>2, <2>2, <2>3, <2>4, <2>5
<1>3. CASE "COMPRESSED" \in h.packets[p].flags
  <2>1. PICK h1 : h1 = WithLzf(h, s)
    OBVIOUS
  <2>2. PICK no : no = FALSE
    OBVIOUS
  <2>3. PICK d : d = Fresh(h1)
    OBVIOUS
  <2>4. PICK h2 : h2 = PacketNew(h1, h.packets[p].flags, h.packets[p].length, no, no)
    OBVIOUS
  <2>5. PICK g : g = PacketDestroy(h2, p)
    OBVIOUS
  <2>6. r.packet = d /\ r.host = g
    BY <1>3, <2>1, <2>2, <2>3, <2>4, <2>5 DEF InflateFor
  <2>7. h1.packets = h.packets /\ h1 \in HostType /\ PacketsSound(h1, e) /\ Rest(h1)
    <3>1. SameQueues(h, h1) /\ PacketsSound(h1, e) /\ Rest(h1)
      BY <2>1, WithLzfSound
    <3> QED BY <3>1 DEF SameQueues
  <2>8. FreePackets(h1) # {}
    BY <2>7 DEF FreePackets
  <2>9. h.packets[p].flags \in SUBSET Flags /\ h.packets[p].length \in Nat /\ no \in BOOLEAN
    <3>1. h.packets[p] \in Packet
      BY HostFields
    <3> QED BY <2>2, <3>1 DEF Packet
  <2>10. PICK flags : flags = h.packets[p].flags
    OBVIOUS
  <2>11. PICK length : length = h.packets[p].length
    OBVIOUS
  <2>12. PICK c : c = [e EXCEPT ![d] = 1]
    OBVIOUS
  <2>13. /\ d \in PacketIds /\ e[d] = 0 /\ OnlyPackets(h1, h2)
         /\ h2.packets[d].deflated = no
         /\ \A x \in PacketIds : x # d => h2.packets[x] = h1.packets[x]
         /\ c \in Counts /\ PacketsSound(h2, c)
    <3>1. flags \in SUBSET Flags /\ length \in Nat /\ (no => "COMPRESSED" \in flags)
      BY <2>2, <2>9, <2>10, <2>11
    <3>2. h2 = PacketNew(h1, flags, length, no, no)
      BY <2>4, <2>10, <2>11
    <3>3. /\ d \in PacketIds /\ d \in FreePackets(h1) /\ e[d] = 0
          /\ OnlyPackets(h1, h2)
          /\ h2.packets[d] = [refCount |-> 1, flags |-> flags, length |-> length,
                              deflated |-> no, shrinks |-> no]
          /\ \A x \in PacketIds : x # d => h2.packets[x] = h1.packets[x]
          /\ [e EXCEPT ![d] = 1] \in Counts /\ PacketsSound(h2, [e EXCEPT ![d] = 1])
      BY <1>1, <2>3, <2>7, <2>8, <2>9, <3>1, <3>2, NewSound
    <3> QED BY <2>12, <3>3
  <2>14. d # p /\ f[d] = 0 /\ c[p] = f[p] + 1 /\ c[d] = 1
    <3>1. d # p
      BY <1>1, <2>13
    <3> QED BY <1>1, <2>12, <2>13, <3>1 DEF Counts
  <2>15. h2 \in HostType /\ Rest(h2)
    <3>1. KeepsRest(h1, h2)
      BY <2>13 DEF OnlyPackets, KeepsRest, SameClients
    <3> QED BY <2>7, <2>13, <3>1, RestSame DEF OnlyPackets
  <2>16. c[p] > 0 /\ (f[p] > 0 => c[p] > 1)
    BY <1>1, <2>14
  <2>17. /\ OnlyPackets(h2, g)
         /\ \A x \in PacketIds : x # p => g.packets[x] = h2.packets[x]
         /\ c[p] > 1 => g.packets[p].deflated = h2.packets[p].deflated
         /\ PacketsSound(g, [c EXCEPT ![p] = c[p] - 1])
    BY <2>5, <2>13, <2>15, <2>16, DestroySound
  <2>18. [c EXCEPT ![p] = c[p] - 1] = OneMore(f, d)
    <3>1. c[p] - 1 = f[p] /\ f[d] + 1 = 1
      BY <1>1, <2>14
    <3>2. c \in [PacketIds -> Nat] /\ c = [e EXCEPT ![d] = 1]
      BY <2>12, <2>13 DEF Counts
    <3>3. \A x \in PacketIds : x # p /\ x # d => c[x] = f[x]
      BY <1>1, <3>2 DEF Counts
    <3> QED BY <1>1, <2>13, <2>14, <3>1, <3>2, <3>3 DEF OneMore
  <2>19. g \in HostType /\ Rest(g)
    <3>1. KeepsRest(h2, g)
      BY <2>17 DEF OnlyPackets, KeepsRest, SameClients
    <3> QED BY <2>15, <2>17, <3>1, RestSame DEF OnlyPackets
  <2>20. ~g.packets[d].deflated
    BY <2>2, <2>13, <2>14, <2>17
  <2>21. Steady(h, g, f)
    <3>1. ASSUME NEW x \in PacketIds, f[x] > 0
          PROVE  g.packets[x].deflated = h.packets[x].deflated
      <4>1. x # d
        BY <2>14, <3>1
      <4>2. h2.packets[x] = h.packets[x]
        BY <2>7, <2>13, <4>1
      <4>3. CASE x = p
        BY <2>16, <2>17, <3>1, <4>2, <4>3
      <4>4. CASE x # p
        BY <2>17, <4>2, <4>4
      <4> QED BY <4>3, <4>4
    <3> QED BY <3>1 DEF Steady
  <2>22. PacketsSound(g, OneMore(f, d))
    BY <2>17, <2>18
  <2> QED BY <2>6, <2>13, <2>19, <2>20, <2>21, <2>22
<1> QED BY <1>2, <1>3

\* A message whose packet cannot be inflated: it is gone.
LEMMA FailsSound ==
    ASSUME NEW h \in HostType, NEW f \in Counts, PacketsSound(h, f), Rest(h),
           NEW s \in Slots, NEW k \in DOMAIN h.clients[s].incoming,
           NEW p, p = h.clients[s].incoming[k].packet,
           NEW g, g = PacketDestroy(WithLzf(Without(h, s, "incoming", k), s), p)
    PROVE  g \in HostType /\ PacketsSound(g, f) /\ Rest(g) /\ Steady(h, g, f)
<1>1. PICK q : q = "incoming"
  OBVIOUS
<1>2. PICK m : m = h.clients[s][q][k]
  OBVIOUS
<1>3. PICK e : e = OneMore(f, p)
  OBVIOUS
<1>4. PICK i : i = Without(h, s, q, k)
  OBVIOUS
<1>5. PICK l : l = WithLzf(i, s)
  OBVIOUS
<1>6. q \in QueueNames /\ k \in DOMAIN h.clients[s][q] /\ p = m.packet /\ g = PacketDestroy(l, p)
  <2>1. h.clients[s][q] = h.clients[s].incoming
    BY <1>1
  <2>2. g = PacketDestroy(l, p)
    BY <1>1, <1>4, <1>5
  <2> QED BY <1>1, <1>2, <2>1, <2>2 DEF QueueNames
<1>7. /\ p \in PacketIds /\ OnlyQueue(h, i, s, q) /\ i.packets = h.packets
      /\ ~Free(i, s) /\ PacketsSound(i, e) /\ Rest(i)
  BY <1>2, <1>3, <1>4, <1>6, TakenOut, SMTT(60)
<1>8. i \in HostType
  BY <1>7 DEF OnlyQueue
<1>9. SameQueues(i, l) /\ PacketsSound(l, e) /\ Rest(l)
  BY <1>5, <1>7, <1>8, WithLzfSound
<1>10. l \in HostType /\ l.packets = h.packets
  BY <1>7, <1>9 DEF SameQueues
<1>11. g \in HostType /\ PacketsSound(g, f) /\ Rest(g) /\ Steady(l, g, f)
  BY <1>3, <1>6, <1>7, <1>9, <1>10, GivenBack
<1> QED BY <1>10, <1>11 DEF Steady

\* A message is put behind the messages of a queue, or before them.
Extends(new, old, m) == new = Append(old, m) \/ new = <<m>> \o old

\* A message goes to the other queue, behind or before its messages.
LEMMA MovesSound ==
    ASSUME NEW h \in HostType, NEW f \in Counts, PacketsSound(h, f), Rest(h),
           NEW s \in Slots, NEW a \in {"outgoing", "sent"}, NEW b \in {"outgoing", "sent"},
           NEW k \in DOMAIN h.clients[s][a], NEW m, m = h.clients[s][a][k],
           NEW i, i = Without(h, s, a, k), NEW old, old = i.clients[s][b],
           NEW new, Extends(new, old, m),
           NEW g, g = WithQueue(i, s, b, new)
    PROVE  g \in HostType /\ PacketsSound(g, f) /\ Rest(g) /\ Steady(h, g, f)
<1>1. a \in QueueNames /\ b \in QueueNames /\ a # "incoming" /\ QueueOf(b) = Seq(Outgoing)
  BY DEF QueueNames, QueueOf
<1>2. PICK p : p = m.packet
  OBVIOUS
<1>3. PICK e : e = OneMore(f, p)
  OBVIOUS
<1>4. m \in Outgoing /\ i \in HostType
  <2>1. /\ a # "incoming" => m \in Outgoing /\ m.compressed = h.packets[p].deflated
        /\ OnlyQueue(h, i, s, a)
    BY <1>1, <1>2, <1>3, TakenOut, SMTT(60)
  <2> QED BY <1>1, <2>1 DEF OnlyQueue
<1>5. old \in Seq(Outgoing)
  BY <1>1, <1>4, OutgoingQueue
<1>6. new \in Seq(Outgoing) /\ More(old, new, m, 1)
  <2>1. Outgoing \in SUBSET Message
    BY DEF Message
  <2>2. /\ Append(old, m) \in Seq(Outgoing) /\ More(old, Append(old, m), m, 1)
        /\ <<m>> \o old \in Seq(Outgoing) /\ More(old, <<m>> \o old, m, 1)
    BY <1>4, <1>5, <2>1, MoreOne
  <2>3. CASE new = Append(old, m)
    BY <2>2, <2>3
  <2>4. CASE new = <<m>> \o old
    BY <2>2, <2>4
  <2> QED BY <2>3, <2>4 DEF Extends
<1>7. More(i.clients[s][b], new, m, 1)
  BY <1>6
<1> QED BY <1>6, <1>7, GoesOver

\* A message is given up: the datagram it is in has left, or it is acknowledged.
LEMMA LeavesSound ==
    ASSUME NEW h \in HostType, NEW f \in Counts, PacketsSound(h, f), Rest(h),
           NEW s \in Slots, NEW q \in {"outgoing", "sent"}, NEW k \in DOMAIN h.clients[s][q],
           NEW p, p = h.clients[s][q][k].packet,
           NEW g, g = PacketDestroy(Without(h, s, q, k), p)
    PROVE  g \in HostType /\ PacketsSound(g, f) /\ Rest(g) /\ Steady(h, g, f)
<1>1. PICK m : m = h.clients[s][q][k]
  OBVIOUS
<1>2. PICK e : e = OneMore(f, p)
  OBVIOUS
<1>3. PICK i : i = Without(h, s, q, k)
  OBVIOUS
<1>4. q \in QueueNames /\ p = m.packet /\ g = PacketDestroy(i, p)
  BY <1>1, <1>3 DEF QueueNames
<1>5. /\ p \in PacketIds /\ OnlyQueue(h, i, s, q) /\ i.packets = h.packets
      /\ PacketsSound(i, e) /\ Rest(i)
  BY <1>1, <1>2, <1>3, <1>4, TakenOut, SMTT(60)
<1>6. i \in HostType
  BY <1>5 DEF OnlyQueue
<1>7. g \in HostType /\ PacketsSound(g, f) /\ Rest(g) /\ Steady(i, g, f)
  BY <1>2, <1>4, <1>5, <1>6, GivenBack
<1> QED BY <1>5, <1>7 DEF Steady

\* No packet somebody has from outside is deflated.
Plain(h, f) == \A p \in PacketIds : f[p] > 0 => ~h.packets[p].deflated

\* It stays so while those packets are steady.
LEMMA PlainKept ==
    ASSUME NEW h, NEW g, NEW f, Plain(h, f), Steady(h, g, f)
    PROVE  Plain(g, f)
BY DEF Plain, Steady

\* A message becomes an event.
LEMMA EventSound ==
    ASSUME NEW h \in HostType, NEW f \in Counts, PacketsSound(h, f), Rest(h), Plain(h, f),
           NEW s \in Slots, NEW k \in DOMAIN h.clients[s].incoming, FreePackets(h) # {},
           NEW p, p = h.clients[s].incoming[k].packet,
           NEW r, r = InflateFor(Without(h, s, "incoming", k), s, p)
    PROVE  /\ r.packet \in PacketIds /\ r.host \in HostType
           /\ PacketsSound(r.host, OneMore(f, r.packet)) /\ Rest(r.host)
           /\ Plain(r.host, OneMore(f, r.packet))
<1>1. PICK q : q = "incoming"
  OBVIOUS
<1>2. PICK m : m = h.clients[s][q][k]
  OBVIOUS
<1>3. PICK e : e = OneMore(f, p)
  OBVIOUS
<1>4. PICK i : i = Without(h, s, q, k)
  OBVIOUS
<1>5. q \in QueueNames /\ k \in DOMAIN h.clients[s][q] /\ p = m.packet /\ r = InflateFor(i, s, p)
  <2>1. h.clients[s][q] = h.clients[s].incoming
    BY <1>1
  <2>2. r = InflateFor(i, s, p)
    BY <1>1, <1>4
  <2> QED BY <1>1, <1>2, <2>1, <2>2 DEF QueueNames
<1>6. /\ p \in PacketIds /\ OnlyQueue(h, i, s, q) /\ i.packets = h.packets
      /\ ~Free(i, s) /\ PacketsSound(i, e) /\ Rest(i)
  BY <1>2, <1>3, <1>4, <1>5, TakenOut, SMTT(60)
<1>7. i \in HostType /\ FreePackets(i) # {}
  BY <1>6 DEF OnlyQueue, FreePackets
<1>8. /\ r.packet \in PacketIds /\ r.host \in HostType
      /\ PacketsSound(r.host, OneMore(f, r.packet)) /\ Rest(r.host)
      /\ ~r.host.packets[r.packet].deflated /\ Steady(i, r.host, f)
  BY <1>3, <1>5, <1>6, <1>7, InflateSound
<1>9. Plain(r.host, OneMore(f, r.packet))
  <2>1. Plain(r.host, f)
    BY <1>6, <1>8 DEF Plain, Steady
  <2>2. ASSUME NEW x \in PacketIds, OneMore(f, r.packet)[x] > 0
        PROVE  ~r.host.packets[x].deflated
    <3>1. CASE x = r.packet
      BY <1>8, <3>1
    <3>2. CASE x # r.packet
      <4>1. OneMore(f, r.packet)[x] = f[x]
        BY <1>8, <3>2 DEF OneMore, Counts
      <4> QED BY <2>1, <2>2, <4>1 DEF Plain
    <3> QED BY <3>1, <3>2
  <2> QED BY <2>2 DEF Plain
<1> QED BY <1>8, <1>9

-----------------------------------------------------------------------------
(* The inductive invariant.                                                *)

\* The references from outside of the library: the application's and its event's.
Outside(e, n) == [p \in PacketIds |-> n[p] + IF e = p THEN 1 ELSE 0]

\* The packets are sound for what the application and its event hold, instances and groups
\* are, and the application never gets at a deflated packet.
IInv ==
    /\ TypeOK
    /\ PacketsSound(host, Outside(event, held))
    /\ Rest(host)
    /\ Plain(host, Outside(event, held))

\* The references from outside are counts.
LEMMA OutsideCounts ==
    ASSUME NEW e, NEW n \in [PacketIds -> Nat], NEW f, f = Outside(e, n)
    PROVE  f \in Counts /\ \A p \in PacketIds : f[p] = n[p] + IF e = p THEN 1 ELSE 0
<1>1. \A p \in PacketIds : n[p] + (IF e = p THEN 1 ELSE 0) \in Nat
  OBVIOUS
<1> QED BY <1>1 DEF Outside, Counts

\* What the application keeps is one reference more.
LEMMA OutsideMore ==
    ASSUME NEW e, NEW n \in [PacketIds -> Nat], NEW p \in PacketIds, NEW f, f = Outside(e, n)
    PROVE  Outside(e, OneMore(n, p)) = OneMore(f, p)
<1>1. PICK l : l = OneMore(n, p)
  OBVIOUS
<1>2. l \in [PacketIds -> Nat] /\ l[p] = n[p] + 1 /\ \A r \in PacketIds : r # p => l[r] = n[r]
  BY <1>1 DEF OneMore
<1>3. PICK g : g = Outside(e, l)
  OBVIOUS
<1>4. g \in Counts /\ \A r \in PacketIds : g[r] = l[r] + IF e = r THEN 1 ELSE 0
  BY <1>2, <1>3, OutsideCounts
<1>5. f \in Counts /\ \A r \in PacketIds : f[r] = n[r] + IF e = r THEN 1 ELSE 0
  BY OutsideCounts
<1>6. g[p] = f[p] + 1 /\ \A r \in PacketIds : r # p => g[r] = f[r]
  <2>1. n[p] \in Nat
    OBVIOUS
  <2>2. g[p] = f[p] + 1
    BY <1>2, <1>4, <1>5, <2>1
  <2> QED BY <1>2, <1>4, <1>5, <2>2
<1>7. g = OneMore(f, p)
  BY <1>4, <1>5, <1>6 DEF OneMore, Counts
<1> QED BY <1>1, <1>3, <1>7

\* A caller has one reference of packet p less.
OneLess(f, p) == [f EXCEPT ![p] = f[p] - 1]

\* What the application gives up is one reference less.
LEMMA OutsideLess ==
    ASSUME NEW e, NEW n \in [PacketIds -> Nat], NEW p \in PacketIds, n[p] > 0,
           NEW f, f = Outside(e, n)
    PROVE  Outside(e, OneLess(n, p)) = OneLess(f, p)
<1>1. PICK l : l = OneLess(n, p)
  OBVIOUS
<1>2. l \in [PacketIds -> Nat] /\ l[p] = n[p] - 1 /\ \A r \in PacketIds : r # p => l[r] = n[r]
  BY <1>1 DEF OneLess
<1>3. PICK g : g = Outside(e, l)
  OBVIOUS
<1>4. g \in Counts /\ \A r \in PacketIds : g[r] = l[r] + IF e = r THEN 1 ELSE 0
  BY <1>2, <1>3, OutsideCounts
<1>5. f \in Counts /\ \A r \in PacketIds : f[r] = n[r] + IF e = r THEN 1 ELSE 0
  BY OutsideCounts
<1>6. g[p] = f[p] - 1 /\ \A r \in PacketIds : r # p => g[r] = f[r]
  <2>1. n[p] \in Nat
    OBVIOUS
  <2>2. g[p] = f[p] - 1
    BY <1>2, <1>4, <1>5, <2>1
  <2> QED BY <1>2, <1>4, <1>5, <2>2
<1>7. g = OneLess(f, p)
  BY <1>4, <1>5, <1>6 DEF OneLess, Counts
<1> QED BY <1>1, <1>3, <1>7

\* An event has one reference of its packet.
LEMMA OutsideEvent ==
    ASSUME NEW n \in [PacketIds -> Nat], NEW p, NEW e, e \notin PacketIds
    PROVE  /\ p \in PacketIds => Outside(p, n) = OneMore(Outside(e, n), p)
           /\ p \notin PacketIds => Outside(p, n) = Outside(e, n)
<1>1. PICK f : f = Outside(e, n)
  OBVIOUS
<1>2. PICK g : g = Outside(p, n)
  OBVIOUS
<1>3. f \in Counts /\ \A r \in PacketIds : f[r] = n[r]
  <2>1. f \in Counts /\ \A r \in PacketIds : f[r] = n[r] + IF e = r THEN 1 ELSE 0
    BY <1>1, OutsideCounts
  <2> QED BY <2>1
<1>4. g \in Counts /\ \A r \in PacketIds : g[r] = n[r] + IF p = r THEN 1 ELSE 0
  BY <1>2, OutsideCounts
<1>5. CASE p \in PacketIds
  <2>1. g[p] = f[p] + 1 /\ \A r \in PacketIds : r # p => g[r] = f[r]
    BY <1>3, <1>4, <1>5
  <2>2. g = OneMore(f, p)
    BY <1>3, <1>4, <1>5, <2>1 DEF OneMore, Counts
  <2> QED BY <1>1, <1>2, <1>5, <2>2
<1>6. CASE p \notin PacketIds
  <2>1. \A r \in PacketIds : g[r] = f[r]
    BY <1>3, <1>4, <1>6
  <2>2. g = f
    BY <1>3, <1>4, <2>1 DEF Counts
  <2> QED BY <1>1, <1>2, <1>6, <2>2
<1> QED BY <1>5, <1>6

\* What the invariant says, of the host and of the references from outside.
LEMMA InvariantIs ==
    ASSUME IInv, NEW h, h = host, NEW f, f = Outside(event, held)
    PROVE  /\ h \in HostType /\ f \in Counts /\ PacketsSound(h, f) /\ Rest(h) /\ Plain(h, f)
           /\ event \in PacketIds \cup {Notice, None} /\ held \in [PacketIds -> Nat]
           /\ \A p \in PacketIds : f[p] = held[p] + IF event = p THEN 1 ELSE 0
           /\ \A p \in PacketIds : Usable(p) => f[p] > 0 /\ ~h.packets[p].deflated
<1>1. /\ h \in HostType /\ PacketsSound(h, f) /\ Rest(h) /\ Plain(h, f)
      /\ event \in PacketIds \cup {Notice, None} /\ held \in [PacketIds -> Nat]
  BY DEF IInv, TypeOK
<1>2. f \in Counts /\ \A p \in PacketIds : f[p] = held[p] + IF event = p THEN 1 ELSE 0
  BY <1>1, OutsideCounts
<1>3. ASSUME NEW p \in PacketIds, Usable(p) PROVE f[p] > 0 /\ ~h.packets[p].deflated
  <2>1. f[p] = held[p] + IF event = p THEN 1 ELSE 0
    BY <1>2
  <2>2. held[p] \in Nat
    BY <1>1
  <2>3. f[p] > 0
    BY <1>3, <2>1, <2>2 DEF Usable
  <2> QED BY <1>1, <2>3 DEF Plain
<1> QED BY <1>1, <1>2, <1>3

\* The invariant stays when nothing changes outside and the host stays sound for it.
LEMMA KeepsInvariant ==
    ASSUME IInv, NEW h, h = host, NEW f, f = Outside(event, held), NEW g, Keep(g),
           g \in HostType /\ PacketsSound(g, f) /\ Rest(g) /\ Steady(h, g, f)
    PROVE  IInv'
<1>1. host' = g /\ event' = event /\ held' = held
  BY DEF Keep
<1>2. Plain(g, f)
  BY InvariantIs, PlainKept
<1>3. TypeOK'
  BY <1>1 DEF IInv, TypeOK
<1>4. Outside(event', held') = f
  BY <1>1
<1>5. PacketsSound(host', Outside(event', held')) /\ Rest(host')
        /\ Plain(host', Outside(event', held'))
  BY <1>1, <1>2, <1>4
<1> QED BY <1>3, <1>5 DEF IInv

-----------------------------------------------------------------------------
(* The steps of the application.                                           *)

\* The invariant holds of the host that a call has left, and of what it changed outside.
LEMMA Established ==
    ASSUME NEW g, host' = g, NEW f, f = Outside(event', held'), g \in HostType,
           event' \in PacketIds \cup {Notice, None}, held' \in [PacketIds -> Nat],
           PacketsSound(g, f), Rest(g), Plain(g, f)
    PROVE  IInv'
<1>1. TypeOK'
  BY DEF TypeOK
<1>2. PacketsSound(host', Outside(event', held')) /\ Rest(host')
        /\ Plain(host', Outside(event', held'))
  OBVIOUS
<1> QED BY <1>1, <1>2 DEF IInv

\* The application makes a packet: its reference is the application's.
LEMMA NewPacketStep == ASSUME IInv, NewPacket PROVE IInv'
<1>1. PICK h : h = host
  OBVIOUS
<1>2. PICK f : f = Outside(event, held)
  OBVIOUS
<1>3. /\ h \in HostType /\ f \in Counts /\ PacketsSound(h, f) /\ Rest(h) /\ Plain(h, f)
      /\ event \in PacketIds \cup {Notice, None} /\ held \in [PacketIds -> Nat]
      /\ \A r \in PacketIds : f[r] = held[r] + IF event = r THEN 1 ELSE 0
  BY <1>1, <1>2, InvariantIs
<1>4. PICK k \in Kinds : host' = PacketNew(host, k.flags, k.length, FALSE, k.shrinks)
  BY DEF NewPacket
<1>5. PICK flags : flags = k.flags
  OBVIOUS
<1>6. PICK length : length = k.length
  OBVIOUS
<1>7. PICK shrinks : shrinks = k.shrinks
  OBVIOUS
<1>8. PICK no : no = FALSE
  OBVIOUS
<1>9. PICK p : p = Fresh(h)
  OBVIOUS
<1>10. PICK g : g = PacketNew(h, flags, length, no, shrinks)
  OBVIOUS
<1>11. /\ flags \in SUBSET Flags /\ length \in Nat /\ shrinks \in BOOLEAN /\ no \in BOOLEAN
       /\ no => "COMPRESSED" \in flags
  BY <1>4, <1>5, <1>6, <1>7, <1>8, PacketsAssumption
<1>12. host' = g
  BY <1>1, <1>4, <1>5, <1>6, <1>7, <1>8, <1>10
<1>13. /\ FreePackets(h) # {} /\ event' = event
       /\ held' = [held EXCEPT ![p] = 1]
  BY <1>1, <1>9 DEF NewPacket
<1>14. PICK e : e = [f EXCEPT ![p] = 1]
  OBVIOUS
<1>15. /\ p \in PacketIds /\ f[p] = 0 /\ OnlyPackets(h, g) /\ g.packets[p].deflated = no
       /\ \A r \in PacketIds : r # p => g.packets[r] = h.packets[r]
       /\ e \in Counts /\ PacketsSound(g, e)
  <2>1. /\ p \in PacketIds /\ p \in FreePackets(h) /\ f[p] = 0
        /\ OnlyPackets(h, g)
        /\ g.packets[p] = [refCount |-> 1, flags |-> flags, length |-> length,
                           deflated |-> no, shrinks |-> shrinks]
        /\ \A r \in PacketIds : r # p => g.packets[r] = h.packets[r]
        /\ [f EXCEPT ![p] = 1] \in Counts /\ PacketsSound(g, [f EXCEPT ![p] = 1])
    BY <1>3, <1>9, <1>10, <1>11, <1>13, NewSound
  <2> QED BY <1>14, <2>1
<1>16. held[p] = 0 /\ event # p
  <2>1. held[p] \in Nat /\ held[p] + (IF event = p THEN 1 ELSE 0) = 0
    BY <1>3, <1>15
  <2> QED BY <2>1
<1>17. held' \in [PacketIds -> Nat]
  BY <1>3, <1>13, <1>15
<1>18. Outside(event', held') = e
  <2>1. held[p] + 1 = 1 /\ f[p] + 1 = 1
    BY <1>15, <1>16
  <2>2. Outside(event, OneMore(held, p)) = OneMore(f, p)
    BY <1>2, <1>3, <1>15, OutsideMore
  <2>3. OneMore(held, p) = held'
    BY <1>13, <2>1 DEF OneMore
  <2>4. OneMore(f, p) = e
    BY <1>14, <2>1 DEF OneMore
  <2> QED BY <1>13, <2>2, <2>3, <2>4
<1>19. Rest(g) /\ g \in HostType
  <2>1. KeepsRest(h, g)
    BY <1>15 DEF OnlyPackets, KeepsRest, SameClients
  <2> QED BY <1>3, <1>15, <2>1, RestSame DEF OnlyPackets
<1>20. Plain(g, e)
  <2>1. ASSUME NEW r \in PacketIds, e[r] > 0 PROVE ~g.packets[r].deflated
    <3>1. CASE r = p
      BY <1>8, <1>15, <3>1
    <3>2. CASE r # p
      <4>1. e[r] = f[r]
        BY <1>3, <1>14, <3>2 DEF Counts
      <4> QED BY <1>3, <1>15, <2>1, <3>2, <4>1 DEF Plain
    <3> QED BY <3>1, <3>2
  <2> QED BY <2>1 DEF Plain
<1>21. event' \in PacketIds \cup {Notice, None}
  BY <1>3, <1>13
<1> QED BY <1>12, <1>15, <1>17, <1>18, <1>19, <1>20, <1>21, Established

\* The application takes another reference.
LEMMA NewReferenceStep == ASSUME IInv, NewReference PROVE IInv'
<1>1. PICK h : h = host
  OBVIOUS
<1>2. PICK f : f = Outside(event, held)
  OBVIOUS
<1>3. /\ h \in HostType /\ f \in Counts /\ PacketsSound(h, f) /\ Rest(h) /\ Plain(h, f)
      /\ event \in PacketIds \cup {Notice, None} /\ held \in [PacketIds -> Nat]
      /\ \A r \in PacketIds : Usable(r) => f[r] > 0 /\ ~h.packets[r].deflated
  BY <1>1, <1>2, InvariantIs
<1>4. PICK p \in PacketIds : /\ Usable(p) /\ host' = PacketShare(host, p)
                             /\ held' = [held EXCEPT ![p] = @ + 1] /\ event' = event
  BY DEF NewReference
<1>5. PICK e : e = OneMore(f, p)
  OBVIOUS
<1>6. PICK g : g = PacketShare(h, p)
  OBVIOUS
<1>7. /\ OnlyPackets(h, g) /\ e \in Counts /\ PacketsSound(g, e)
      /\ \A r \in PacketIds : g.packets[r].deflated = h.packets[r].deflated
  BY <1>3, <1>5, <1>6, ShareSound
<1>8. Outside(event', held') = e /\ held' \in [PacketIds -> Nat]
  <2>1. Outside(event, OneMore(held, p)) = OneMore(f, p)
    BY <1>2, <1>3, OutsideMore
  <2>2. held' \in [PacketIds -> Nat]
    BY <1>3, <1>4
  <2>3. held' = OneMore(held, p)
    BY <1>4 DEF OneMore
  <2> QED BY <1>4, <1>5, <2>1, <2>2, <2>3
<1>9. Rest(g) /\ g \in HostType
  <2>1. KeepsRest(h, g)
    BY <1>7 DEF OnlyPackets, KeepsRest, SameClients
  <2> QED BY <1>3, <1>7, <2>1, RestSame DEF OnlyPackets
<1>10. Plain(g, e)
  <2>1. ASSUME NEW r \in PacketIds, e[r] > 0 PROVE ~g.packets[r].deflated
    <3>1. f[r] > 0
      <4>1. CASE r = p
        BY <1>3, <1>4, <4>1
      <4>2. CASE r # p
        BY <1>3, <1>5, <2>1, <4>2 DEF OneMore, Counts
      <4> QED BY <4>1, <4>2
    <3> QED BY <1>3, <1>7, <3>1 DEF Plain
  <2> QED BY <2>1 DEF Plain
<1>11. host' = g /\ event' \in PacketIds \cup {Notice, None}
  BY <1>1, <1>3, <1>4, <1>6
<1> QED BY <1>7, <1>8, <1>9, <1>10, <1>11, Established

\* A reference from outside is given up.
LEMMA GivesUp ==
    ASSUME NEW h \in HostType, NEW f \in Counts, PacketsSound(h, f), Rest(h), Plain(h, f),
           NEW p \in PacketIds, f[p] > 0, NEW g, g = PacketDestroy(h, p),
           NEW e, e = OneLess(f, p)
    PROVE  g \in HostType /\ PacketsSound(g, e) /\ Rest(g) /\ Plain(g, e)
<1>1. /\ OnlyPackets(h, g)
      /\ \A r \in PacketIds : r # p => g.packets[r] = h.packets[r]
      /\ g.packets[p].deflated => h.packets[p].deflated
      /\ PacketsSound(g, [f EXCEPT ![p] = f[p] - 1])
  BY DestroySound
<1>2. Rest(g) /\ g \in HostType
  <2>1. KeepsRest(h, g)
    BY <1>1 DEF OnlyPackets, KeepsRest, SameClients
  <2> QED BY <1>1, <2>1, RestSame DEF OnlyPackets
<1>3. Plain(g, e)
  <2>1. ASSUME NEW r \in PacketIds, e[r] > 0 PROVE ~g.packets[r].deflated
    <3>1. CASE r = p
      BY <1>1, <3>1 DEF Plain
    <3>2. CASE r # p
      <4>1. e[r] = f[r]
        BY <3>2 DEF Counts, OneLess
      <4> QED BY <1>1, <2>1, <3>2, <4>1 DEF Plain
    <3> QED BY <3>1, <3>2
  <2> QED BY <2>1 DEF Plain
<1>4. PacketsSound(g, e)
  BY <1>1 DEF OneLess
<1> QED BY <1>2, <1>3, <1>4

\* The application gives up a reference.
LEMMA DestroyPacketStep == ASSUME IInv, DestroyPacket PROVE IInv'
<1>1. PICK h : h = host
  OBVIOUS
<1>2. PICK f : f = Outside(event, held)
  OBVIOUS
<1>3. /\ h \in HostType /\ f \in Counts /\ PacketsSound(h, f) /\ Rest(h) /\ Plain(h, f)
      /\ event \in PacketIds \cup {Notice, None} /\ held \in [PacketIds -> Nat]
      /\ \A r \in PacketIds : Usable(r) => f[r] > 0 /\ ~h.packets[r].deflated
  BY <1>1, <1>2, InvariantIs
<1>4. PICK p \in PacketIds : /\ held[p] > 0 /\ host' = PacketDestroy(host, p)
                             /\ held' = [held EXCEPT ![p] = @ - 1] /\ event' = event
  BY DEF DestroyPacket
<1>5. PICK e : e = OneLess(f, p)
  OBVIOUS
<1>6. PICK g : g = PacketDestroy(h, p)
  OBVIOUS
<1>7. f[p] > 0
  BY <1>3, <1>4 DEF Usable
<1>8. g \in HostType /\ PacketsSound(g, e) /\ Rest(g) /\ Plain(g, e)
  BY <1>3, <1>5, <1>6, <1>7, GivesUp
<1>9. Outside(event', held') = e /\ held' \in [PacketIds -> Nat]
  <2>1. Outside(event, OneLess(held, p)) = OneLess(f, p)
    BY <1>2, <1>3, <1>4, OutsideLess
  <2>2. held[p] - 1 \in Nat
    BY <1>3, <1>4
  <2>3. held' \in [PacketIds -> Nat]
    BY <1>3, <1>4, <2>2
  <2>4. held' = OneLess(held, p)
    BY <1>4 DEF OneLess
  <2> QED BY <1>4, <1>5, <2>1, <2>3, <2>4
<1>10. host' = g /\ event' \in PacketIds \cup {Notice, None}
  BY <1>1, <1>3, <1>4, <1>6
<1> QED BY <1>8, <1>9, <1>10, Established

\* The last reference of the event is given up.
LEMMA DestroyEventStep == ASSUME IInv, DestroyEvent PROVE IInv'
<1>1. PICK h : h = host
  OBVIOUS
<1>2. PICK f : f = Outside(event, held)
  OBVIOUS
<1>3. /\ h \in HostType /\ f \in Counts /\ PacketsSound(h, f) /\ Rest(h) /\ Plain(h, f)
      /\ event \in PacketIds \cup {Notice, None} /\ held \in [PacketIds -> Nat]
      /\ \A r \in PacketIds : Usable(r) => f[r] > 0 /\ ~h.packets[r].deflated
  BY <1>1, <1>2, InvariantIs
<1>4. /\ event # None /\ event' = None /\ held' = held
      /\ host' = IF event = Notice THEN host ELSE PacketDestroy(host, event)
  BY DEF DestroyEvent
<1>5. Notice \notin PacketIds /\ None \notin PacketIds
  BY PacketsAssumption
<1>6. PICK g : g = host'
  OBVIOUS
<1>7. PICK e : e = Outside(None, held)
  OBVIOUS
<1>8. g \in HostType /\ PacketsSound(g, e) /\ Rest(g) /\ Plain(g, e)
  <2>1. CASE event = Notice
    <3>1. e = f
      BY <1>2, <1>3, <1>5, <1>7, <2>1, OutsideEvent
    <3> QED BY <1>1, <1>3, <1>4, <1>6, <2>1, <3>1
  <2>2. CASE event # Notice
    <3>1. PICK p : p = event
      OBVIOUS
    <3>2. p \in PacketIds /\ g = PacketDestroy(h, p) /\ f[p] > 0
      BY <1>1, <1>3, <1>4, <1>6, <2>2, <3>1 DEF Usable
    <3>3. f = OneMore(e, p)
      BY <1>2, <1>3, <1>5, <1>7, <3>1, <3>2, OutsideEvent
    <3>4. e = OneLess(f, p)
      <4>1. e \in Counts
        BY <1>3, <1>7, OutsideCounts
      <4>2. f[p] - 1 = e[p]
        BY <3>2, <3>3, <4>1 DEF OneMore, Counts
      <4> QED BY <3>2, <3>3, <4>1, <4>2 DEF OneMore, OneLess, Counts
    <3> QED BY <1>3, <3>2, <3>4, GivesUp
  <2> QED BY <2>1, <2>2
<1>9. Outside(event', held') = e /\ held' \in [PacketIds -> Nat]
  BY <1>3, <1>4, <1>7
<1>10. host' = g /\ event' \in PacketIds \cup {Notice, None}
  BY <1>4, <1>6
<1> QED BY <1>8, <1>9, <1>10, Established

\* The calls of the application that send, connect and close.
LEMMA CallsStep ==
    ASSUME IInv, Send \/ Broadcast \/ Connect \/ Join \/ Leave \/ Close \/ Restart
    PROVE  IInv'
<1>1. PICK h : h = host
  OBVIOUS
<1>2. PICK f : f = Outside(event, held)
  OBVIOUS
<1>3. /\ h \in HostType /\ f \in Counts /\ PacketsSound(h, f) /\ Rest(h)
      /\ \A p \in PacketIds : Usable(p) => f[p] > 0 /\ ~h.packets[p].deflated
  BY <1>1, <1>2, InvariantIs
<1>4. ASSUME NEW s \in Slots, Connected(h, s) PROVE ~Free(h, s)
  BY <1>4 DEF Connected, Free
<1>5. CASE Send
  <2>1. PICK s \in Slots, p \in PacketIds :
           /\ Usable(p) /\ Accepts(h, s, p) /\ FreePackets(h) # {} /\ Keep(Sent(h, s, p))
    BY <1>1, <1>5 DEF Send
  <2>2. PICK g : g = Sent(h, s, p)
    OBVIOUS
  <2>3. ~Free(h, s) /\ f[p] > 0 /\ ~h.packets[p].deflated
    BY <1>3, <1>4, <2>1 DEF Accepts
  <2>4. SentWell(h, g, f)
    BY <1>3, <2>1, <2>2, <2>3, SentSound
  <2>5. g \in HostType /\ PacketsSound(g, f) /\ Rest(g) /\ Steady(h, g, f)
    BY <2>4 DEF SentWell
  <2> QED BY <1>1, <1>2, <2>1, <2>2, <2>5, KeepsInvariant
<1>6. CASE Broadcast
  <2>1. PICK p \in PacketIds :
           /\ Usable(p) /\ Cardinality(FreePackets(h)) >= MaxClient /\ Keep(Broadcasted(h, p))
    BY <1>1, <1>6 DEF Broadcast
  <2>2. PICK g : g = Broadcasted(h, p)
    OBVIOUS
  <2>3. f[p] > 0 /\ ~h.packets[p].deflated
    BY <1>3, <2>1
  <2>4. g \in HostType /\ PacketsSound(g, f) /\ Rest(g) /\ Steady(h, g, f)
    BY <1>3, <2>1, <2>2, <2>3, BroadcastSound
  <2> QED BY <1>1, <1>2, <2>1, <2>2, <2>4, KeepsInvariant
<1>7. CASE Connect
  <2>1. PICK link \in Links :
           /\ FirstFree(h) \in Slots
           /\ Keep([h EXCEPT !.clients[FirstFree(h)] = [Reset EXCEPT
                !.state = "CONNECTED", !.level = link.level, !.mtu = link.mtu]])
    BY <1>1, <1>7 DEF Connect
  <2>2. PICK s : s = FirstFree(h)
    OBVIOUS
  <2>3. PICK c : c = [Reset EXCEPT !.state = "CONNECTED", !.level = link.level,
                                   !.mtu = link.mtu]
    OBVIOUS
  <2>4. PICK g : g = [h EXCEPT !.clients[s] = c]
    OBVIOUS
  <2>5. s \in Slots /\ Free(h, s) /\ Keep(g)
    BY <2>1, <2>2, <2>3, <2>4, FirstFreeIs
  <2>6. NewClient(c) /\ c.group = None
    <3>1. link.level \in Levels /\ link.mtu \in 1 .. Mtu /\ Mtu \in Nat
      BY PacketsAssumption
    <3>2. c = [state |-> "CONNECTED", group |-> None, level |-> link.level, lzf |-> None,
               mtu |-> link.mtu, outgoing |-> <<>>, sent |-> <<>>, incoming |-> <<>>]
      BY <2>3 DEF Reset
    <3>3. c \in Client
      BY <3>1, <3>2 DEF Client, States
    <3> QED BY <3>1, <3>2, <3>3 DEF NewClient, QueueNames
  <2>7. MayJoin(h, c.group) /\ h.joined \cup ({c.group} \cap LocalGroups) = h.joined
    <3>1. None \notin LocalGroups
      BY PacketsAssumption
    <3> QED BY <2>6, <3>1 DEF MayJoin
  <2>8. GroupJoined(h, h, c.group)
    BY <1>3, <2>7 DEF HostIs, GroupJoined
  <2>9. g \in HostType /\ PacketsSound(g, f) /\ Rest(g) /\ g.packets = h.packets
    <3>1. ClientIs(h, g, s, c)
      BY <1>3, <2>4, <2>5, <2>6, ClientSet DEF NewClient
    <3> QED BY <1>3, <2>5, <2>6, <2>7, <2>8, <3>1, ConnectSound
  <2>10. Steady(h, g, f)
    BY <2>9 DEF Steady
  <2> QED BY <1>1, <1>2, <2>5, <2>9, <2>10, KeepsInvariant
<1>8. CASE Join
  <2>1. PICK x \in Groups :
           /\ FirstFree(h) \in Slots /\ MayJoin(h, x)
           /\ Keep([SocketJoin(h, x) EXCEPT !.clients[FirstFree(h)] = [Reset EXCEPT
                !.state = "CONNECTED", !.group = x, !.level = GroupLevel, !.mtu = Mtu]])
    BY <1>1, <1>8 DEF Join
  <2>2. PICK s : s = FirstFree(h)
    OBVIOUS
  <2>3. PICK c : c = [Reset EXCEPT !.state = "CONNECTED", !.group = x, !.level = GroupLevel,
                                   !.mtu = Mtu]
    OBVIOUS
  <2>4. PICK i : i = SocketJoin(h, x)
    OBVIOUS
  <2>5. PICK g : g = [i EXCEPT !.clients[s] = c]
    OBVIOUS
  <2>6. s \in Slots /\ Free(h, s) /\ Keep(g)
    BY <2>1, <2>2, <2>3, <2>4, <2>5, FirstFreeIs
  <2>7. NewClient(c) /\ c.group = x
    <3>1. GroupLevel \in Levels /\ Mtu \in 1 .. Mtu
      BY PacketsAssumption
    <3>2. c = [state |-> "CONNECTED", group |-> x, level |-> GroupLevel, lzf |-> None,
               mtu |-> Mtu, outgoing |-> <<>>, sent |-> <<>>, incoming |-> <<>>]
      BY <2>3 DEF Reset
    <3>3. c \in Client
      BY <3>1, <3>2 DEF Client, States
    <3> QED BY <3>1, <3>2, <3>3 DEF NewClient, QueueNames
  <2>8. MayJoin(h, c.group)
    BY <2>1, <2>7
  <2>9. GroupJoined(h, i, c.group)
    <3>1. i = [clients |-> h.clients, packets |-> h.packets, instances |-> h.instances,
               joined |-> h.joined \cup ({x} \cap LocalGroups)]
      BY <1>3, <2>4 DEF SocketJoin, HostType
    <3>2. h.joined \cup ({x} \cap LocalGroups) \in SUBSET Groups
      BY <1>3, HostFields
    <3> QED BY <1>3, <2>7, <3>1, <3>2, HostFields DEF HostIs, HostType, GroupJoined
  <2>10. g \in HostType /\ PacketsSound(g, f) /\ Rest(g) /\ g.packets = h.packets
    <3>1. ClientIs(i, g, s, c)
      BY <2>5, <2>6, <2>7, <2>9, ClientSet DEF NewClient, GroupJoined
    <3> QED BY <1>3, <2>6, <2>7, <2>8, <2>9, <3>1, ConnectSound
  <2>11. Steady(h, g, f)
    BY <2>10 DEF Steady
  <2> QED BY <1>1, <1>2, <2>6, <2>10, <2>11, KeepsInvariant
<1>9. CASE Leave
  <2>1. PICK s \in Slots :
           Connected(h, s) /\ Keep([ClearQueues(h, s) EXCEPT !.clients[s].state = "LEAVING"])
    BY <1>1, <1>9 DEF Leave
  <2>2. PICK g : g = [ClearQueues(h, s) EXCEPT !.clients[s].state = "LEAVING"]
    OBVIOUS
  <2>3. g \in HostType /\ PacketsSound(g, f) /\ Rest(g) /\ Steady(h, g, f)
    BY <1>3, <1>4, <2>1, <2>2, LeaveSound
  <2> QED BY <1>1, <1>2, <2>1, <2>2, <2>3, KeepsInvariant
<1>10. CASE Close
  <2>1. PICK s \in Slots : Keep(ClientDestroy(h, s))
    BY <1>1, <1>10 DEF Close
  <2>2. PICK g : g = ClientDestroy(h, s)
    OBVIOUS
  <2>3. g \in HostType /\ PacketsSound(g, f) /\ Rest(g) /\ Steady(h, g, f)
    BY <1>3, <2>2, ClientDestroySound
  <2> QED BY <1>1, <1>2, <2>1, <2>2, <2>3, KeepsInvariant
<1>11. CASE Restart
  <2>1. PICK gone : gone = CHOOSE t : GoneIs(t, host)
    OBVIOUS
  <2>2. Keep(gone[MaxClient])
    BY <1>11, <2>1, Zenon DEF Restart, GoneIs
  <2>3. (\E t : GoneIs(t, host)) => GoneIs(gone, host)
    BY <2>1
  <2>4. (\E t : GoneIs(t, h)) => GoneIs(gone, h)
    BY <1>1, <2>3
  <2>5. PICK g : g = gone[MaxClient]
    OBVIOUS
  <2> HIDE <2>1
  <2>6. g \in HostType /\ PacketsSound(g, f) /\ Rest(g) /\ Steady(h, g, f)
    BY <1>3, <2>4, <2>5, GoneSound
  <2> QED BY <1>1, <1>2, <2>2, <2>5, <2>6, KeepsInvariant
<1> QED BY <1>5, <1>6, <1>7, <1>8, <1>9, <1>10, <1>11

-----------------------------------------------------------------------------
(* The steps of the library.                                               *)

\* A message leaves a queue, or enters one.
LEMMA MessagesStep ==
    ASSUME IInv,
           \/ SendReliable \/ SendUnreliable \/ TimedOut \/ Acknowledged
           \/ Receive \/ ReceiveFragment \/ DispatchFails
    PROVE  IInv'
<1>1. PICK h : h = host
  OBVIOUS
<1>2. PICK f : f = Outside(event, held)
  OBVIOUS
<1>3. h \in HostType /\ f \in Counts /\ PacketsSound(h, f) /\ Rest(h)
  BY <1>1, <1>2, InvariantIs
<1>4. PICK a : a = "outgoing"
  OBVIOUS
<1>5. PICK b : b = "sent"
  OBVIOUS
<1>6. a \in {"outgoing", "sent"} /\ b \in {"outgoing", "sent"}
  BY <1>4, <1>5
<1>7. CASE SendReliable
  <2>0. PICK s \in Slots : \E k \in DOMAIN h.clients[s].outgoing :
           Keep([Without(h, s, "outgoing", k)
                   EXCEPT !.clients[s].sent = Append(@, h.clients[s].outgoing[k])])
    BY <1>1, <1>7 DEF SendReliable
  <2>1. PICK k \in DOMAIN h.clients[s].outgoing :
           Keep([Without(h, s, "outgoing", k)
                   EXCEPT !.clients[s].sent = Append(@, h.clients[s].outgoing[k])])
    BY <2>0
  <2>2. PICK m : m = h.clients[s][a][k]
    OBVIOUS
  <2>3. PICK i : i = Without(h, s, a, k)
    OBVIOUS
  <2>4. PICK old : old = i.clients[s][b]
    OBVIOUS
  <2>5. PICK new : new = Append(old, m)
    OBVIOUS
  <2>6. PICK g : g = WithQueue(i, s, b, new)
    OBVIOUS
  <2>7. k \in DOMAIN h.clients[s][a] /\ Keep(g)
    <3>1. h.clients[s][a] = h.clients[s].outgoing /\ old = i.clients[s].sent
      BY <1>4, <1>5, <2>4
    <3>2. Keep([i EXCEPT !.clients[s].sent = Append(@, m)])
      BY <1>4, <2>1, <2>2, <2>3, <3>1
    <3>3. Keep([i EXCEPT !.clients[s].sent = new])
      BY <2>5, <3>1, <3>2
    <3>4. [i EXCEPT !.clients[s].sent = new] = [i EXCEPT !.clients[s]["sent"] = new]
      OBVIOUS
    <3> QED BY <1>5, <2>6, <3>1, <3>3, <3>4 DEF WithQueue
  <2>8. Extends(new, old, m)
    BY <2>5 DEF Extends
  <2>9. g \in HostType /\ PacketsSound(g, f) /\ Rest(g) /\ Steady(h, g, f)
    BY <1>3, <1>6, <2>2, <2>3, <2>4, <2>6, <2>7, <2>8, MovesSound
  <2> QED BY <1>1, <1>2, <2>7, <2>9, KeepsInvariant
<1>8. CASE TimedOut
  <2>0. PICK s \in Slots : \E k \in DOMAIN h.clients[s].sent :
           Keep([Without(h, s, "sent", k)
                   EXCEPT !.clients[s].outgoing = <<h.clients[s].sent[k]>> \o @])
    BY <1>1, <1>8 DEF TimedOut
  <2>1. PICK k \in DOMAIN h.clients[s].sent :
           Keep([Without(h, s, "sent", k)
                   EXCEPT !.clients[s].outgoing = <<h.clients[s].sent[k]>> \o @])
    BY <2>0
  <2>2. PICK m : m = h.clients[s][b][k]
    OBVIOUS
  <2>3. PICK i : i = Without(h, s, b, k)
    OBVIOUS
  <2>4. PICK old : old = i.clients[s][a]
    OBVIOUS
  <2>5. PICK new : new = <<m>> \o old
    OBVIOUS
  <2>6. PICK g : g = WithQueue(i, s, a, new)
    OBVIOUS
  <2>7. k \in DOMAIN h.clients[s][b] /\ Keep(g)
    <3>1. h.clients[s][b] = h.clients[s].sent /\ old = i.clients[s].outgoing
      BY <1>4, <1>5, <2>4
    <3>2. Keep([i EXCEPT !.clients[s].outgoing = <<m>> \o @])
      BY <1>5, <2>1, <2>2, <2>3, <3>1
    <3>3. Keep([i EXCEPT !.clients[s].outgoing = new])
      BY <2>5, <3>1, <3>2
    <3>4. [i EXCEPT !.clients[s].outgoing = new] = [i EXCEPT !.clients[s]["outgoing"] = new]
      OBVIOUS
    <3> QED BY <1>4, <2>6, <3>1, <3>3, <3>4 DEF WithQueue
  <2>8. Extends(new, old, m)
    BY <2>5 DEF Extends
  <2>9. g \in HostType /\ PacketsSound(g, f) /\ Rest(g) /\ Steady(h, g, f)
    BY <1>3, <1>6, <2>2, <2>3, <2>4, <2>6, <2>7, <2>8, MovesSound
  <2> QED BY <1>1, <1>2, <2>7, <2>9, KeepsInvariant
<1>9. CASE SendUnreliable
  <2>0. PICK s \in Slots : \E k \in DOMAIN h.clients[s].outgoing :
           Keep(PacketDestroy(Without(h, s, "outgoing", k), h.clients[s].outgoing[k].packet))
    BY <1>1, <1>9 DEF SendUnreliable
  <2>1. PICK k \in DOMAIN h.clients[s].outgoing :
           Keep(PacketDestroy(Without(h, s, "outgoing", k), h.clients[s].outgoing[k].packet))
    BY <2>0
  <2>2. PICK p : p = h.clients[s][a][k].packet
    OBVIOUS
  <2>3. PICK g : g = PacketDestroy(Without(h, s, a, k), p)
    OBVIOUS
  <2>4. k \in DOMAIN h.clients[s][a] /\ Keep(g)
    <3>1. h.clients[s][a] = h.clients[s].outgoing
      BY <1>4
    <3> QED BY <1>4, <2>1, <2>2, <2>3, <3>1
  <2>5. g \in HostType /\ PacketsSound(g, f) /\ Rest(g) /\ Steady(h, g, f)
    BY <1>3, <1>6, <2>2, <2>3, <2>4, LeavesSound
  <2> QED BY <1>1, <1>2, <2>4, <2>5, KeepsInvariant
<1>10. CASE Acknowledged
  <2>0. PICK s \in Slots : \E k \in DOMAIN h.clients[s].sent :
           Keep(PacketDestroy(Without(h, s, "sent", k), h.clients[s].sent[k].packet))
    BY <1>1, <1>10 DEF Acknowledged
  <2>1. PICK k \in DOMAIN h.clients[s].sent :
           Keep(PacketDestroy(Without(h, s, "sent", k), h.clients[s].sent[k].packet))
    BY <2>0
  <2>2. PICK p : p = h.clients[s][b][k].packet
    OBVIOUS
  <2>3. PICK g : g = PacketDestroy(Without(h, s, b, k), p)
    OBVIOUS
  <2>4. k \in DOMAIN h.clients[s][b] /\ Keep(g)
    <3>1. h.clients[s][b] = h.clients[s].sent
      BY <1>5
    <3> QED BY <1>5, <2>1, <2>2, <2>3, <3>1
  <2>5. g \in HostType /\ PacketsSound(g, f) /\ Rest(g) /\ Steady(h, g, f)
    BY <1>3, <1>6, <2>2, <2>3, <2>4, LeavesSound
  <2> QED BY <1>1, <1>2, <2>4, <2>5, KeepsInvariant
<1>11. CASE Receive
  <2>1. PICK s \in Slots, reliable \in BOOLEAN, compressed \in BOOLEAN, queued \in BOOLEAN,
             fragments \in {0, 2} :
           /\ Connected(host, s) /\ FreePackets(host) # {}
           /\ queued => RoomFor(1)
           /\ fragments > 0 => reliable
           /\ reliable => host.clients[s].group = None
           /\ Keep(Received(host, s,
                (IF reliable THEN {"RELIABLE"} ELSE {})
                  \cup (IF compressed THEN {"COMPRESSED"} ELSE {}),
                1, compressed, IF fragments = 0 THEN 0 ELSE fragments - 1, queued))
    BY <1>11, Zenon DEF Receive
  <2>2. PICK flags : flags = (IF reliable THEN {"RELIABLE"} ELSE {})
                               \cup (IF compressed THEN {"COMPRESSED"} ELSE {})
    OBVIOUS
  <2>3. PICK length : length = 1
    OBVIOUS
  <2>4. PICK n : n = IF fragments = 0 THEN 0 ELSE fragments - 1
    OBVIOUS
  <2>5. PICK g : g = Received(h, s, flags, length, compressed, n, queued)
    OBVIOUS
  <2>6. /\ flags \in SUBSET Flags /\ length \in Nat /\ n \in Nat
        /\ compressed => "COMPRESSED" \in flags
    BY <2>2, <2>3, <2>4 DEF Flags
  <2>7. Keep(g) /\ ~Free(h, s) /\ FreePackets(h) # {}
    BY <1>1, <2>1, <2>2, <2>3, <2>4, <2>5 DEF Connected, Free
  <2>8. g \in HostType /\ PacketsSound(g, f) /\ Rest(g) /\ Steady(h, g, f)
    BY <1>3, <2>5, <2>6, <2>7, ReceivedSound
  <2> QED BY <1>1, <1>2, <2>7, <2>8, KeepsInvariant
<1>12. CASE ReceiveFragment
  <2>0. PICK s \in Slots : \E k \in DOMAIN h.clients[s].incoming :
           /\ h.clients[s].incoming[k].fragmentsRemaining > 0
           /\ Keep(Copied(h, s, k))
    BY <1>1, <1>12 DEF ReceiveFragment, Copied
  <2>1. PICK k \in DOMAIN h.clients[s].incoming :
           /\ h.clients[s].incoming[k].fragmentsRemaining > 0
           /\ Keep(Copied(h, s, k))
    BY <2>0
  <2>2. PICK g : g = Copied(h, s, k)
    OBVIOUS
  <2>3. g \in HostType /\ PacketsSound(g, f) /\ Rest(g) /\ Steady(h, g, f)
    BY <1>3, <2>1, <2>2, FragmentSound
  <2> QED BY <1>1, <1>2, <2>1, <2>2, <2>3, KeepsInvariant
<1>13. CASE DispatchFails
  <2>0. PICK s \in Slots : \E k \in DOMAIN h.clients[s].incoming :
           Keep(PacketDestroy(WithLzf(Without(h, s, "incoming", k), s),
                              h.clients[s].incoming[k].packet))
    BY <1>1, <1>13 DEF DispatchFails, Taken
  <2>1. PICK k \in DOMAIN h.clients[s].incoming :
           Keep(PacketDestroy(WithLzf(Without(h, s, "incoming", k), s),
                              h.clients[s].incoming[k].packet))
    BY <2>0
  <2>2. PICK p : p = h.clients[s].incoming[k].packet
    OBVIOUS
  <2>3. PICK g : g = PacketDestroy(WithLzf(Without(h, s, "incoming", k), s), p)
    OBVIOUS
  <2>4. g \in HostType /\ PacketsSound(g, f) /\ Rest(g) /\ Steady(h, g, f)
    BY <1>3, <2>2, <2>3, FailsSound
  <2> QED BY <1>1, <1>2, <2>1, <2>2, <2>3, <2>4, KeepsInvariant
<1> QED BY <1>7, <1>8, <1>9, <1>10, <1>11, <1>12, <1>13

\* The application gets an event: of a message that came, or of a member of a group.
LEMMA EventsStep == ASSUME IInv, Dispatch \/ Notify PROVE IInv'
<1>1. PICK h : h = host
  OBVIOUS
<1>2. PICK f : f = Outside(event, held)
  OBVIOUS
<1>3. /\ h \in HostType /\ f \in Counts /\ PacketsSound(h, f) /\ Rest(h) /\ Plain(h, f)
      /\ held \in [PacketIds -> Nat]
  BY <1>1, <1>2, InvariantIs
<1>4. None \notin PacketIds /\ Notice \notin PacketIds
  BY PacketsAssumption
<1>5. CASE Dispatch
  <2>0. PICK s \in Slots : \E k \in DOMAIN h.clients[s].incoming :
           /\ event = None /\ FreePackets(h) # {}
           /\ host' = InflateFor(Without(h, s, "incoming", k), s,
                                 h.clients[s].incoming[k].packet).host
           /\ event' = InflateFor(Without(h, s, "incoming", k), s,
                                  h.clients[s].incoming[k].packet).packet
           /\ held' = held
    BY <1>1, <1>5 DEF Dispatch, Taken
  <2>1. PICK k \in DOMAIN h.clients[s].incoming :
           /\ event = None /\ FreePackets(h) # {}
           /\ host' = InflateFor(Without(h, s, "incoming", k), s,
                                 h.clients[s].incoming[k].packet).host
           /\ event' = InflateFor(Without(h, s, "incoming", k), s,
                                  h.clients[s].incoming[k].packet).packet
           /\ held' = held
    BY <2>0
  <2>2. PICK p : p = h.clients[s].incoming[k].packet
    OBVIOUS
  <2>3. PICK r : r = InflateFor(Without(h, s, "incoming", k), s, p)
    OBVIOUS
  <2>4. PICK d : d = r.packet
    OBVIOUS
  <2>5. PICK g : g = r.host
    OBVIOUS
  <2>6. PICK e : e = OneMore(f, d)
    OBVIOUS
  <2>7. host' = g /\ event' = d
    BY <2>1, <2>2, <2>3, <2>4, <2>5
  <2>8. /\ d \in PacketIds /\ g \in HostType
        /\ PacketsSound(g, e) /\ Rest(g) /\ Plain(g, e)
    <3>1. /\ r.packet \in PacketIds /\ r.host \in HostType
          /\ PacketsSound(r.host, OneMore(f, r.packet)) /\ Rest(r.host)
          /\ Plain(r.host, OneMore(f, r.packet))
      BY <1>3, <2>1, <2>2, <2>3, EventSound
    <3> QED BY <2>4, <2>5, <2>6, <3>1
  <2>9. Outside(event', held') = e
    <3>1. f = Outside(None, held)
      BY <1>2, <2>1
    <3>2. Outside(d, held) = OneMore(Outside(None, held), d)
      BY <1>3, <1>4, <2>8, OutsideEvent
    <3> QED BY <2>1, <2>6, <2>7, <3>1, <3>2
  <2>10. event' \in PacketIds \cup {Notice, None} /\ held' \in [PacketIds -> Nat]
    BY <1>3, <2>1, <2>7, <2>8
  <2> QED BY <2>7, <2>8, <2>9, <2>10, Established
<1>6. CASE Notify
  <2>1. event = None /\ event' = Notice /\ host' = host /\ held' = held
    BY <1>6 DEF Notify
  <2>2. Outside(event', held') = f
    <3>1. Outside(Notice, held) = Outside(None, held)
      BY <1>3, <1>4, OutsideEvent
    <3> QED BY <1>2, <2>1, <3>1
  <2>3. host' = h /\ event' \in PacketIds \cup {Notice, None} /\ held' \in [PacketIds -> Nat]
    BY <1>1, <1>3, <2>1
  <2> QED BY <1>3, <2>2, <2>3, Established
<1> QED BY <1>5, <1>6

-----------------------------------------------------------------------------
(* The invariant holds, and what it says.                                  *)

\* It holds of a host that has just been made, with nothing outside.
LEMMA InitInvariant == Init => IInv
<1> SUFFICES ASSUME Init PROVE IInv
  OBVIOUS
<1>1. PICK h : h = host
  OBVIOUS
<1>2. PICK f : f = Outside(event, held)
  OBVIOUS
<1>3. /\ h = [clients |-> [s \in Slots |-> Reset], packets |-> [p \in PacketIds |-> NoPacket],
              instances |-> [z \in LzfIds |-> NoInstance], joined |-> {}]
      /\ event = None /\ held = [p \in PacketIds |-> 0]
  BY <1>1 DEF Init
<1>4. None \notin Groups /\ None \notin Levels /\ None \notin Slots /\ None \notin PacketIds
      /\ Mtu \in Nat
  BY PacketsAssumption
<1>5. /\ \A s \in Slots : h.clients[s] = Reset
      /\ \A p \in PacketIds : h.packets[p] = NoPacket
      /\ \A z \in LzfIds : h.instances[z] = NoInstance
      /\ h.joined = {}
  BY <1>3
<1>6. Reset \in Client
  BY <1>4 DEF Reset, Client, States
<1>7. NoPacket \in Packet
  BY DEF NoPacket, Packet
<1>8. NoInstance \in Instance
  BY DEF NoInstance, Instance
<1>9. h \in HostType
  BY <1>3, <1>6, <1>7, <1>8 DEF HostType
<1>10. f \in Counts /\ \A p \in PacketIds : f[p] = 0
  <2>1. held \in [PacketIds -> Nat]
    BY <1>3
  <2>2. f \in Counts /\ \A p \in PacketIds : f[p] = held[p] + IF event = p THEN 1 ELSE 0
    BY <1>2, <2>1, OutsideCounts
  <2> QED BY <1>3, <1>4, <2>2
<1>11. \A s \in Slots : Free(h, s)
  BY <1>5 DEF Free, Reset
<1>12. \A s \in Slots, q \in QueueNames : h.clients[s][q] = <<>>
  <2>1. Reset.outgoing = <<>> /\ Reset.sent = <<>> /\ Reset.incoming = <<>>
    BY DEF Reset
  <2> QED BY <1>5, <2>1 DEF QueueNames
<1>13. Counted(h, f)
  <2>1. ASSUME NEW p \in PacketIds PROVE h.packets[p].refCount = f[p] + Cardinality(Messages(h, p))
    <3>1. Messages(h, p) = {}
      <4>1. ASSUME NEW m \in Messages(h, p) PROVE FALSE
        <5>1. PICK t \in Slots, r \in QueueNames :
                m \in {t} \X {r} \X HoldersIn(h.clients[t][r], p)
          BY <4>1, InMessages
        <5>2. HoldersIn(h.clients[t][r], p) = {}
          BY <1>12 DEF HoldersIn
        <5> QED BY <5>1, <5>2
      <4> QED BY <4>1
    <3>2. Cardinality(Messages(h, p)) = 0
      BY <3>1, FS_EmptySet
    <3> QED BY <1>5, <1>10, <3>2 DEF NoPacket
  <2> QED BY <2>1 DEF Counted
<1>14. PacketsSound(h, f)
  <2>1. Flagged(h)
    BY <1>5 DEF Flagged, NoPacket
  <2>2. Tells(h)
    <3>1. \A s \in Slots : h.clients[s].outgoing = <<>> /\ h.clients[s].sent = <<>>
      BY <1>5 DEF Reset
    <3> QED BY <3>1, SMTT(60) DEF Tells, TellsIn
  <2> QED BY <1>13, <2>1, <2>2 DEF PacketsSound
<1>15. \A s \in Slots : h.clients[s].group = None /\ h.clients[s].lzf = None
  BY <1>5 DEF Reset
<1>16. Rest(h)
  <2>1. Shape(h)
    BY <1>11, <1>12, <1>15 DEF Shape
  <2>2. InstancesSound(h)
    <3>1. ASSUME NEW z \in LzfIds PROVE Cardinality(Users(h, z)) = 0
      <4>1. z # None
        BY <1>4 DEF LzfIds
      <4>2. Users(h, z) = {}
        BY <1>15, <4>1 DEF Users
      <4> QED BY <4>2, FS_EmptySet
    <3>2. \A z \in LzfIds : h.instances[z].refCount = 0 /\ h.instances[z].level = None
      BY <1>5 DEF NoInstance
    <3> QED BY <1>15, <3>1, <3>2 DEF InstancesSound
  <2>3. MembersSound(h)
    <3>1. None \notin LocalGroups
      BY <1>4, PacketsAssumption
    <3> QED BY <1>5, <1>15, <3>1 DEF MembersSound
  <2> QED BY <2>1, <2>2, <2>3 DEF Rest
<1>17. Plain(h, f)
  BY <1>10 DEF Plain
<1>18. TypeOK
  BY <1>1, <1>3, <1>9 DEF TypeOK
<1> QED BY <1>1, <1>2, <1>14, <1>16, <1>17, <1>18 DEF IInv

\* Every call of the application and every step of the library keeps it.
THEOREM Step == IInv /\ [Next]_vars => IInv'
<1> SUFFICES ASSUME IInv, [Next]_vars PROVE IInv'
  OBVIOUS
<1>1. CASE NewPacket
  BY <1>1, NewPacketStep
<1>2. CASE NewReference
  BY <1>2, NewReferenceStep
<1>3. CASE DestroyPacket
  BY <1>3, DestroyPacketStep
<1>4. CASE Send \/ Broadcast \/ Connect \/ Join \/ Leave \/ Close \/ Restart
  BY <1>4, CallsStep
<1>5. CASE \/ SendReliable \/ SendUnreliable \/ TimedOut \/ Acknowledged
           \/ Receive \/ ReceiveFragment \/ DispatchFails
  BY <1>5, MessagesStep
<1>6. CASE Dispatch \/ Notify
  BY <1>6, EventsStep
<1>7. CASE DestroyEvent
  BY <1>7, DestroyEventStep
<1>8. CASE UNCHANGED vars
  <2>1. host' = host /\ event' = event /\ held' = held
    BY <1>8 DEF vars
  <2>2. TypeOK'
    BY <2>1 DEF IInv, TypeOK
  <2>3. PacketsSound(host', Outside(event', held')) /\ Rest(host')
          /\ Plain(host', Outside(event', held'))
    BY <2>1 DEF IInv
  <2> QED BY <2>2, <2>3 DEF IInv
<1> QED BY <1>1, <1>2, <1>3, <1>4, <1>5, <1>6, <1>7, <1>8 DEF Next

\* A packet's count is the number of those who hold it.
LEMMA CountsFollow == IInv => CountsAreHolders
<1> SUFFICES ASSUME IInv PROVE CountsAreHolders
  OBVIOUS
<1>1. PICK h : h = host
  OBVIOUS
<1>2. PICK f : f = Outside(event, held)
  OBVIOUS
<1>3. /\ h \in HostType /\ PacketsSound(h, f) /\ held \in [PacketIds -> Nat]
      /\ \A p \in PacketIds : f[p] = held[p] + IF event = p THEN 1 ELSE 0
  BY <1>1, <1>2, InvariantIs
<1>4. ASSUME NEW p \in PacketIds
      PROVE  host.packets[p].refCount = held[p] + Cardinality(Messages(host, p))
                                          + IF event = p THEN 1 ELSE 0
  <2>1. h.packets[p].refCount = f[p] + Cardinality(Messages(h, p))
    BY <1>3 DEF PacketsSound, Counted
  <2>2. Cardinality(Messages(h, p)) \in Nat
    BY <1>3, MessagesCount
  <2>3. PICK n : n = Cardinality(Messages(h, p))
    OBVIOUS
  <2>4. h.packets[p].refCount = held[p] + n + IF event = p THEN 1 ELSE 0
    BY <1>3, <2>1, <2>2, <2>3
  <2> QED BY <1>1, <2>3, <2>4
<1> QED BY <1>4 DEF CountsAreHolders

\* Instances are counted, and of a level of their own.
LEMMA InstancesFollow == IInv => InstancesAreShared
<1> SUFFICES ASSUME IInv PROVE InstancesAreShared
  OBVIOUS
<1>1. PICK h : h = host
  OBVIOUS
<1>2. PICK f : f = Outside(event, held)
  OBVIOUS
<1>3. h \in HostType /\ Rest(h)
  BY <1>1, <1>2, InvariantIs
<1>4. InstancesSound(h) /\ Shape(h)
  BY <1>3 DEF Rest
<1>5. ASSUME NEW s \in Slots, NEW z \in LzfIds, h.clients[s].lzf = z
      PROVE  h.clients[s].level = h.instances[z].level /\ h.instances[z].level \in Levels
  <2>1. z # None
    BY PacketsAssumption DEF LzfIds
  <2>2. h.clients[s].level = h.instances[z].level
    BY <1>4, <1>5, <2>1 DEF InstancesSound
  <2>3. ~Free(h, s)
    BY <1>4, <1>5, <2>1 DEF Shape
  <2> QED BY <1>4, <2>2, <2>3 DEF Shape
<1>6. ASSUME NEW z \in LzfIds, NEW y \in LzfIds \ {z}, Users(h, z) # {},
             h.instances[y].level = h.instances[z].level
      PROVE  FALSE
  <2>1. PICK s \in Slots : h.clients[s].lzf = z
    BY <1>6 DEF Users
  <2>2. h.clients[s].level = h.instances[z].level /\ h.instances[z].level \in Levels
    BY <1>5, <2>1
  <2>3. None \notin Levels /\ None \notin LzfIds
    BY PacketsAssumption DEF LzfIds
  <2>4. Cardinality(Users(h, y)) # 0
    BY <1>4, <1>6, <2>2, <2>3 DEF InstancesSound
  <2>5. Users(h, y) # {}
    BY <2>4, FS_EmptySet
  <2>6. PICK t \in Slots : h.clients[t].lzf = y
    BY <2>5 DEF Users
  <2>7. h.clients[t].level = h.clients[s].level
    BY <1>5, <1>6, <2>2, <2>6
  <2>8. h.clients[s].lzf = h.clients[t].lzf
    BY <1>4, <2>1, <2>3, <2>6, <2>7 DEF InstancesSound
  <2> QED BY <1>6, <2>1, <2>6, <2>8
<1>7. ASSUME NEW z \in LzfIds
      PROVE  LET users == {s \in Slots : h.clients[s].lzf = z}
             IN /\ h.instances[z].refCount = Cardinality(users)
                /\ \A s \in users : h.clients[s].level = h.instances[z].level
                /\ \A y \in LzfIds \ {z} : users # {} =>
                     h.instances[y].level # h.instances[z].level
  <2>1. {s \in Slots : h.clients[s].lzf = z} = Users(h, z)
    BY DEF Users
  <2>2. h.instances[z].refCount = Cardinality(Users(h, z))
    BY <1>4 DEF InstancesSound
  <2>3. \A s \in Users(h, z) : h.clients[s].level = h.instances[z].level
    BY <1>5 DEF Users
  <2>4. \A y \in LzfIds \ {z} : Users(h, z) # {} => h.instances[y].level # h.instances[z].level
    BY <1>6
  <2> QED BY <2>1, <2>2, <2>3, <2>4
<1> QED BY <1>1, <1>7 DEF InstancesAreShared

\* The messages that leave say whether their data is deflated.
LEMMA HeadersFollow == IInv => HeaderTells
<1> SUFFICES ASSUME IInv PROVE HeaderTells
  OBVIOUS
<1>1. host \in HostType /\ Tells(host)
  BY DEF IInv, TypeOK, PacketsSound
<1>2. ASSUME NEW s \in Slots,
             NEW m \in ToSet(host.clients[s].outgoing) \cup ToSet(host.clients[s].sent)
      PROVE  m.compressed = host.packets[m.packet].deflated
  <2>1. TellsIn(host, host.clients[s].outgoing) /\ TellsIn(host, host.clients[s].sent)
    BY <1>1 DEF Tells
  <2>2. \/ \E k \in DOMAIN host.clients[s].outgoing : m = host.clients[s].outgoing[k]
        \/ \E k \in DOMAIN host.clients[s].sent : m = host.clients[s].sent[k]
    BY DEF ToSet
  <2> QED BY <2>1, <2>2 DEF TellsIn
<1> QED BY <1>2 DEF HeaderTells

\* Each group of the port the socket is a member of has one client, the others none.
LEMMA MembersFollow == IInv => MembersAreClients
<1> SUFFICES ASSUME IInv PROVE MembersAreClients
  OBVIOUS
<1>1. MembersSound(host)
  BY DEF IInv, Rest
<1>2. ASSUME NEW g \in LocalGroups
      PROVE  Cardinality({s \in Slots : host.clients[s].group = g})
               = IF g \in host.joined THEN 1 ELSE 0
  <2>1. PICK S : S = {s \in Slots : host.clients[s].group = g}
    OBVIOUS
  <2>2. CASE g \in host.joined
    <3>1. PICK s \in Slots : host.clients[s].group = g
      BY <1>1, <2>2 DEF MembersSound
    <3>2. \A t \in Slots : host.clients[t].group = g => t = s
      BY <1>1, <3>1 DEF MembersSound
    <3>3. S = {s}
      BY <2>1, <3>1, <3>2
    <3>4. Cardinality(S) = 1
      BY <3>3, FS_Singleton
    <3> QED BY <2>1, <2>2, <3>4
  <2>3. CASE g \notin host.joined
    <3>1. S = {}
      BY <1>1, <2>1, <2>3 DEF MembersSound
    <3>2. Cardinality(S) = 0
      BY <3>1, FS_EmptySet
    <3> QED BY <2>1, <2>3, <3>2
  <2> QED BY <2>2, <2>3
<1> QED BY <1>2 DEF MembersAreClients

\* The invariant holds in every behaviour.
THEOREM InvariantHolds == Spec => []IInv
<1>1. Init => IInv
  BY InitInvariant
<1>2. IInv /\ [Next]_vars => IInv'
  BY Step
<1> QED BY <1>1, <1>2, PTL DEF Spec

\* The host keeps its types.
THEOREM TypesHold == Spec => []TypeOK
<1>1. IInv => TypeOK
  BY DEF IInv
<1> QED BY <1>1, InvariantHolds, PTL

\* No packet is freed while someone holds it, and none is kept that nobody holds.
THEOREM CountsHold == Spec => []CountsAreHolders
BY CountsFollow, InvariantHolds, PTL

\* LZF instances are counted by their clients, and each is the only one of its level.
THEOREM InstancesHold == Spec => []InstancesAreShared
BY InstancesFollow, InvariantHolds, PTL

\* A message's header says that its data is deflated exactly if it is.
THEOREM HeadersHold == Spec => []HeaderTells
BY HeadersFollow, InvariantHolds, PTL

\* The socket is a member of the groups of its port that have a client, and each has one.
THEOREM MembersHold == Spec => []MembersAreClients
BY MembersFollow, InvariantHolds, PTL
=============================================================================
