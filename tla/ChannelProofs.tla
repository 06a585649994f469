----------------------------- MODULE ChannelProofs -----------------------------
(***************************************************************************)
(* Proofs about a channel of module Channel, for every modulus of the      *)
(* sequence numbers, every number of fragments and packets, and messages   *)
(* lost, repeated and overtaken in any way.                                *)
(***************************************************************************)
EXTENDS Channel, TLAPS, NaturalsInduction, WellFoundedInduction, FiniteSetTheorems,
        SequenceTheorems

-----------------------------------------------------------------------------
(* Numbers that wrap.                                                      *)

\* The number that is x after n.
Num(n, x) == (n + x) % Modulus

\* A remainder is a sequence number, and of a sequence number it is the number itself.
LEMMA Modulo ==
    \A x \in Int : x % Modulus \in Numbers /\ (x \in Numbers => x % Modulus = x)
BY NumbersAssumption, SMT DEF Numbers

\* Quotient and remainder are determined by the sum they make.
LEMMA ModuloUnique ==
    ASSUME NEW b \in Nat \ {0}, NEW q \in Int, NEW r \in 0..(b - 1), NEW k \in Int,
           NEW m \in 0..(b - 1), q * b + r = k * b + m
    PROVE  q = k /\ r = m
<1>1. (k - q) * b = r - m
  BY SMT
<1>2. ~(k - q >= 1) /\ ~(k - q <= -1)
  <2>1. ASSUME k - q >= 1 PROVE FALSE
    <3>1. (k - q) * b >= b
      BY <2>1, SMT
    <3> QED BY <1>1, <3>1, SMT
  <2>2. ASSUME k - q <= -1 PROVE FALSE
    <3>1. (k - q) * b <= -b
      BY <2>2, SMT
    <3> QED BY <1>1, <3>1, SMT
  <2> QED BY <2>1, <2>2
<1>3. k = q
  BY <1>2, SMT
<1> QED BY <1>1, <1>3, SMT

\* To add k to a number that may have wrapped is to add it to what it stands for.
LEMMA NumPlus ==
    ASSUME NEW n \in Nat, NEW x \in Nat, NEW k \in Nat
    PROVE  (Num(n, x) + k) % Modulus = Num(n, x + k)
<1> DEFINE m == (n + x) % Modulus
           q == (n + x) \div Modulus
           s == (m + k) % Modulus
           t == (m + k) \div Modulus
           v == (n + (x + k)) % Modulus
           w == (n + (x + k)) \div Modulus
<1>0. Modulus \in Nat \ {0}
  BY NumbersAssumption, SMT
<1>1. m \in 0..(Modulus - 1) /\ q \in Int /\ n + x = q * Modulus + m
  BY <1>0, SMT
<1>2. s \in 0..(Modulus - 1) /\ t \in Int /\ m + k = t * Modulus + s
  <2> HIDE DEF m
  <2> QED BY <1>0, <1>1, SMT
<1>3. v \in 0..(Modulus - 1) /\ w \in Int /\ n + (x + k) = w * Modulus + v
  BY <1>0, SMT
<1> HIDE DEF m, q, s, t, v, w
<1>4. n + (x + k) = (q + t) * Modulus + s
  BY <1>0, <1>1, <1>2, SMT
<1>5. s = v
  <2>1. PICK u \in Int : u = q + t
    BY <1>1, <1>2
  <2>2. u * Modulus + s = w * Modulus + v
    BY <1>3, <1>4, <2>1
  <2>3. u = w /\ s = v
    BY ONLY <1>0, <1>2, <1>3, u \in Int, <2>2, ModuloUnique, SMT
  <2> QED BY <2>3
<1> QED BY <1>5 DEF s, v, m, Num

\* Two numbers that stand for places less than a lap apart tell them apart.
LEMMA SameNumber ==
    ASSUME NEW n \in Nat, NEW x \in Nat, NEW y \in Nat,
           x - y < Modulus, y - x < Modulus, Num(n, x) = Num(n, y)
    PROVE  x = y
<1> DEFINE m == (n + x) % Modulus
           q == (n + x) \div Modulus
           k == (n + y) \div Modulus
           l == (n + y) % Modulus
<1>0. Modulus \in Nat \ {0}
  BY NumbersAssumption, SMT
<1>1. m \in 0..(Modulus - 1) /\ q \in Int /\ n + x = q * Modulus + m
  BY <1>0, SMT
<1>2. k \in Int /\ n + y = k * Modulus + l
  BY <1>0, SMT
<1>3. n + y = k * Modulus + m
  BY <1>2 DEF Num
<1> HIDE DEF m, q, k
<1>4. (q - k) * Modulus = x - y
  BY <1>0, <1>1, <1>2, <1>3, SMT
<1>5. ~(q - k >= 1)
  <2>1. ASSUME q - k >= 1 PROVE FALSE
    <3>1. (q - k) * Modulus >= Modulus
      BY <1>0, <1>1, <1>2, <2>1, SMT
    <3> QED BY <1>0, <1>4, <3>1, SMT
  <2> QED BY <2>1
<1>6. ~(q - k <= -1)
  <2>1. ASSUME q - k <= -1 PROVE FALSE
    <3>1. (q - k) * Modulus <= -Modulus
      BY <1>0, <1>1, <1>2, <2>1, SMT
    <3> QED BY <1>0, <1>4, <3>1, SMT
  <2> QED BY <2>1
<1>7. q = k
  BY <1>1, <1>2, <1>5, <1>6, SMT
<1> QED BY <1>0, <1>1, <1>3, <1>7, SMT

-----------------------------------------------------------------------------
(* The place of a message in a queue.                                      *)

\* A set of natural numbers that is not empty has a least one.
LEMMA LeastPlace ==
    ASSUME NEW T \in SUBSET Nat, T # {}
    PROVE  \E x \in T : \A y \in T : x <= y
<1>1. IsWellFoundedOn(OpToRel(<, Nat), Nat)
  BY NatLessThanWellFounded
<1>2. \E x \in T : \A y \in T : ~ (<<y, x>> \in OpToRel(<, Nat))
  BY <1>1, WFMin
<1>3. PICK x \in T : \A y \in T : ~(y < x)
  BY <1>2 DEF OpToRel
<1>4. \A y \in T : x <= y
  BY <1>3
<1> QED BY <1>4

\* A set of positions in a queue that is not empty has a last one.
LEMMA LastPlace ==
    ASSUME NEW N \in Nat, NEW S \in SUBSET (1..N), S # {}
    PROVE  \E x \in S : \A y \in S : y <= x
<1>0. PICK T : T = {N - x : x \in S}
  OBVIOUS
<1>1. T \in SUBSET Nat /\ T # {}
  <2>1. \A x \in S : x \in 1..N /\ N - x \in Nat
    OBVIOUS
  <2> QED BY <1>0, <2>1
<1>2. PICK y \in T : \A z \in T : y <= z
  BY <1>1, LeastPlace
<1>3. PICK x \in S : y = N - x
  BY <1>0
<1>4. \A z \in S : z <= x
  <2>1. ASSUME NEW z \in S PROVE z <= x
    <3>1. N - z \in T
      BY <1>0
    <3>2. N - x <= N - z
      BY <1>2, <1>3, <3>1
    <3> QED BY <3>2
  <2> QED BY <2>1
<1> QED BY <1>3, <1>4

\* The message at position i is not after the number n.
Stops(n, numbers, among, i) == numbers[i] <= Shrunk(n, numbers, among, i)

\* The search stops at the last position that stops it, or at the head.
LEMMA PlaceIs ==
    ASSUME NEW n, NEW numbers, NEW L \in Nat, NEW among \in SUBSET (1..L)
    PROVE  \/ /\ Place(n, numbers, among) = 0
              /\ \A i \in among : ~Stops(n, numbers, among, i)
           \/ /\ Place(n, numbers, among) \in among
              /\ Stops(n, numbers, among, Place(n, numbers, among))
              /\ \A i \in among : i > Place(n, numbers, among) => ~Stops(n, numbers, among, i)
<1> DEFINE stops == {i \in among : Stops(n, numbers, among, i)}
<1>1. CASE stops = {}
  BY <1>1 DEF Place, Stops
<1>2. CASE stops # {}
  <2>1. Place(n, numbers, among) = CHOOSE i \in stops : \A j \in stops : j <= i
    BY <1>2 DEF Place, Stops
  <2>2. \E i \in stops : \A j \in stops : j <= i
    <3>1. stops \in SUBSET (1..L)
      OBVIOUS
    <3> HIDE DEF stops
    <3> QED BY <1>2, <3>1, LastPlace
  <2>3. LET p == Place(n, numbers, among) IN p \in stops /\ \A j \in stops : j <= p
    <3> HIDE DEF stops
    <3> QED BY <2>1, <2>2
  <2>4. ASSUME NEW i \in among, i > Place(n, numbers, among)
        PROVE  ~Stops(n, numbers, among, i)
    <3>1. Place(n, numbers, among) \in 1..L /\ i \in 1..L
      BY <2>3
    <3>2. i \notin stops
      <4> HIDE DEF stops
      <4> QED BY <2>3, <2>4, <3>1
    <3> QED BY <3>2
  <2> QED BY <2>3, <2>4
<1> QED BY <1>1, <1>2

\* So the place is a position of the queue, or 0.
LEMMA PlaceRange ==
    ASSUME NEW n, NEW numbers, NEW L \in Nat, NEW among \in SUBSET (1..L)
    PROVE  Place(n, numbers, among) \in 0..L
<1> DEFINE p == Place(n, numbers, among)
<1>1. p = 0 \/ p \in among
  BY PlaceIs
<1> HIDE DEF p
<1>2. p \in 0..L
  <2>1. CASE p = 0
    BY <2>1
  <2>2. CASE p \in among
    <3>1. \A x \in among : x \in 1..L
      OBVIOUS
    <3>2. p \in 1..L
      BY <2>2, <3>1
    <3> QED BY <3>2
  <2> QED BY <1>1, <2>1, <2>2
<1> QED BY <1>2 DEF p

\* t is s with e after position p: the others are in their order.
WithInserted(t, s, p, e) ==
    /\ Len(t) = Len(s) + 1
    /\ \A i \in 1..(Len(s) + 1) :
         t[i] = IF i <= p THEN s[i] ELSE IF i = p + 1 THEN e ELSE s[i - 1]

\* A message that is inserted after position p leaves the others in their order.
LEMMA Inserted ==
    ASSUME NEW S, NEW s \in Seq(S), NEW e \in S, NEW p \in 0..Len(s)
    PROVE  InsertAt(s, p + 1, e) \in Seq(S) /\ WithInserted(InsertAt(s, p + 1, e), s, p, e)
<1> DEFINE a == SubSeq(s, 1, p)
           b == SubSeq(s, p + 1, Len(s))
<1>1. InsertAt(s, p + 1, e) = a \o <<e>> \o b
  <2>1. (p + 1) - 1 = p
    OBVIOUS
  <2> QED BY <2>1 DEF InsertAt
<1>2. a \in Seq(S) /\ Len(a) = p /\ \A i \in 1..p : a[i] = s[i]
  BY SubSeqProperties
<1>3. b \in Seq(S) /\ Len(b) = Len(s) - p /\ \A i \in 1..(Len(s) - p) : b[i] = s[p + i]
  BY SubSeqProperties
<1>4. <<e>> \in Seq(S) /\ Len(<<e>>) = 1 /\ <<e>>[1] = e
  OBVIOUS
<1> HIDE DEF a, b
<1> DEFINE c == a \o <<e>>
<1>5. c \in Seq(S) /\ Len(c) = p + 1 /\ \A i \in 1..(p + 1) : c[i] = IF i <= p THEN s[i] ELSE e
  BY <1>2, <1>4, ConcatProperties
<1> HIDE DEF c
<1> DEFINE d == c \o b
<1>6. d \in Seq(S) /\ Len(d) = Len(s) + 1
      /\ \A i \in 1..(Len(s) + 1) : d[i] = IF i <= p + 1 THEN c[i] ELSE b[i - (p + 1)]
  BY <1>3, <1>5, ConcatProperties
<1>7. InsertAt(s, p + 1, e) = d
  BY <1>1 DEF c, d
<1> HIDE DEF d
<1>8. ASSUME NEW i \in 1..(Len(s) + 1)
      PROVE  d[i] = IF i <= p THEN s[i] ELSE IF i = p + 1 THEN e ELSE s[i - 1]
  <2>1. CASE i <= p + 1
    BY <1>5, <1>6, <2>1
  <2>2. CASE i > p + 1
    <3>1. i - (p + 1) \in 1..(Len(s) - p) /\ p + (i - (p + 1)) = i - 1
      BY <2>2
    <3>2. b[i - (p + 1)] = s[i - 1]
      BY <1>3, <3>1
    <3>3. d[i] = b[i - (p + 1)]
      BY <1>6, <2>2
    <3>4. ~(i <= p) /\ i # p + 1
      BY <2>2
    <3>5. d[i] = s[i - 1]
      BY <3>2, <3>3
    <3> QED BY <3>4, <3>5
  <2> QED BY <2>1, <2>2
<1>9. d \in Seq(S) /\ WithInserted(d, s, p, e)
  BY <1>6, <1>8 DEF WithInserted
<1> QED BY <1>7, <1>9

-----------------------------------------------------------------------------
(* Types.                                                                  *)

\* A queued message, whose counter of missing fragments is right.
Entry(e) ==
    /\ e \in Incoming
    /\ e.type = "DATA_FRAGMENT" => e.remaining = Fragments - Cardinality(e.bits)

\* The message of a packet that is whole is a queued message.
LEMMA IncameEntry ==
    ASSUME NEW m \in Message, NEW n \in Numbers
    PROVE  /\ Incame(m, n) \in Incoming /\ Incame(m, n).type = m.type
           /\ m.type # "DATA_FRAGMENT" => Entry(Incame(m, n))
<1> DEFINE e == Incame(m, n)
<1>1. m.number \in 0..(Fragments - 1) /\ m.id \in Ids /\ m.useq \in Numbers
      /\ m.type \in {"RELIABLE_DATA", "DATA_FRAGMENT", "UNRELIABLE_DATA", "UNSEQUENCED_DATA"}
  BY DEF Message
<1>2. {<<m.id, m.number>>} \in SUBSET Parts
  BY <1>1 DEF Parts
<1>3. e \in Incoming
  BY <1>1, <1>2 DEF Incame, Incoming
<1>4. e.type = m.type
  BY DEF Incame
<1> QED BY <1>3, <1>4 DEF Entry

\* A fragment that is copied is missing no more.
LEMMA CopiedEntry ==
    ASSUME NEW e, Entry(e), NEW m \in Message
    PROVE  Entry(Copied(e, m)) /\ Copied(e, m).type = e.type
<1>1. m.number \in 0..(Fragments - 1) /\ m.id \in Ids
  BY DEF Message
<1>2. CASE m.number \in e.bits
  BY <1>2 DEF Copied
<1>3. CASE m.number \notin e.bits
  <2> DEFINE c == [e EXCEPT !.remaining = @ - 1, !.bits = @ \union {m.number},
                            !.parts = @ \union {<<m.id, m.number>>}]
  <2>1. Copied(e, m) = c
    BY <1>3 DEF Copied
  <2>2. <<m.id, m.number>> \in Parts
    BY <1>1 DEF Parts
  <2>3. e \in Incoming
    BY DEF Entry
  <2>4. c \in Incoming
    <3>1. e.remaining - 1 \in Int
          /\ e.bits \union {m.number} \in SUBSET (0..(Fragments - 1))
          /\ e.parts \union {<<m.id, m.number>>} \in SUBSET Parts
      BY <1>1, <2>2, <2>3 DEF Incoming
    <3> QED BY <2>3, <3>1 DEF Incoming
  <2>5. c.type = e.type /\ c.remaining = e.remaining - 1 /\ c.bits = e.bits \union {m.number}
    BY <2>3 DEF Incoming
  <2>6. IsFiniteSet(e.bits)
    <3>1. Fragments \in Nat
      BY SendingAssumption
    <3>2. IsFiniteSet(0..(Fragments - 1))
      BY <3>1, FS_Interval
    <3>3. e.bits \subseteq 0..(Fragments - 1)
      BY <2>3 DEF Incoming
    <3> QED BY <3>2, <3>3, FS_Subset
  <2>7. Cardinality(e.bits) \in Nat /\ Cardinality(c.bits) = Cardinality(e.bits) + 1
    BY <1>3, <2>5, <2>6, FS_AddElement, FS_CardinalityType
  <2>8. ASSUME e.type = "DATA_FRAGMENT"
        PROVE  c.remaining = Fragments - Cardinality(c.bits)
    <3>1. e.remaining = Fragments - Cardinality(e.bits)
      BY <2>8 DEF Entry
    <3>2. Fragments \in Nat
      BY SendingAssumption
    <3> HIDE DEF c
    <3> QED BY <2>5, <2>7, <3>1, <3>2
  <2> HIDE DEF c
  <2> QED BY <2>1, <2>4, <2>5, <2>8 DEF Entry
<1> QED BY <1>2, <1>3

\* The first fragment of a packet makes a queued message.
LEMMA FirstEntry ==
    ASSUME NEW m \in Message, NEW n \in Numbers
    PROVE  Entry([Incame(m, n) EXCEPT !.remaining = Fragments, !.parts = {}])
<1> DEFINE e == [Incame(m, n) EXCEPT !.remaining = Fragments, !.parts = {}]
           a == Incame(m, n)
<1>1. a \in Incoming
  BY IncameEntry
<1>2. Fragments \in Nat /\ Cardinality({}) = 0
  BY SendingAssumption, FS_EmptySet
<1>3. a.bits = {}
  BY DEF Incame
<1> HIDE DEF a
<1>4. [a EXCEPT !.remaining = Fragments, !.parts = {}] \in Incoming
  <2>1. Fragments \in Int /\ {} \in SUBSET Parts
    BY <1>2
  <2> QED BY <1>1, <2>1 DEF Incoming
<1>5. [a EXCEPT !.remaining = Fragments, !.parts = {}].remaining = Fragments
      /\ [a EXCEPT !.remaining = Fragments, !.parts = {}].bits = {}
  BY <1>1, <1>3 DEF Incoming
<1>6. e = [a EXCEPT !.remaining = Fragments, !.parts = {}]
  BY DEF a
<1> HIDE DEF e
<1>7. e.remaining = Fragments - Cardinality(e.bits)
  BY <1>2, <1>5, <1>6
<1>8. Entry(e)
  BY <1>4, <1>6, <1>7 DEF Entry
<1> QED BY <1>8 DEF e

\* The queues are made of queued messages.
Queue(q) == q \in Seq(Incoming) /\ \A i \in DOMAIN q : Entry(q[i])

\* A queue stays one when a message is inserted, at any place.
LEMMA QueueGrows ==
    ASSUME NEW q, Queue(q), NEW e, Entry(e), NEW p \in 0..Len(q)
    PROVE  Queue(InsertAt(q, p + 1, e))
<1> DEFINE t == InsertAt(q, p + 1, e)
<1>1. q \in Seq(Incoming) /\ e \in Incoming
  BY DEF Queue, Entry
<1>2. t \in Seq(Incoming) /\ Len(t) = Len(q) + 1
      /\ \A i \in 1..(Len(q) + 1) :
           t[i] = IF i <= p THEN q[i] ELSE IF i = p + 1 THEN e ELSE q[i - 1]
  <2>1. t \in Seq(Incoming) /\ WithInserted(t, q, p, e)
    BY <1>1, Inserted, Zenon
  <2> HIDE DEF t
  <2> QED BY <2>1 DEF WithInserted
<1> HIDE DEF t
<1>3. ASSUME NEW i \in DOMAIN t PROVE Entry(t[i])
  <2>1. i \in 1..(Len(q) + 1) /\ Len(q) \in Nat /\ DOMAIN q = 1..Len(q)
    BY <1>1, <1>2
  <2>2. CASE i <= p
    <3>1. i \in DOMAIN q
      BY <2>1, <2>2
    <3> QED BY <1>2, <2>1, <2>2, <3>1 DEF Queue
  <2>3. CASE i = p + 1
    <3>1. ~(i <= p)
      BY <2>3
    <3> QED BY <1>2, <2>1, <2>3, <3>1
  <2>4. CASE i > p + 1
    <3>1. i - 1 \in DOMAIN q /\ ~(i <= p) /\ i # p + 1
      BY <2>1, <2>4
    <3> QED BY <1>2, <2>1, <3>1 DEF Queue
  <2> QED BY <2>1, <2>2, <2>3, <2>4
<1>4. Queue(t)
  BY <1>2, <1>3 DEF Queue
<1> QED BY <1>4 DEF t

\* And when its first message is taken.
LEMMA QueueShrinks ==
    ASSUME NEW q, Queue(q), q # <<>>
    PROVE  /\ Queue(Tail(q)) /\ Entry(Head(q)) /\ Head(q) = q[1]
           /\ Len(Tail(q)) = Len(q) - 1
           /\ \A i \in DOMAIN Tail(q) : i + 1 \in DOMAIN q /\ Tail(q)[i] = q[i + 1]
<1>1. q \in Seq(Incoming) /\ Len(q) \in Nat /\ DOMAIN q = 1..Len(q) /\ Len(q) >= 1
  BY EmptySeq, LenProperties DEF Queue
<1>2. Head(q) = q[1] /\ Tail(q) \in Seq(Incoming) /\ Len(Tail(q)) = Len(q) - 1
      /\ \A i \in 1..Len(Tail(q)) : Tail(q)[i] = q[i + 1]
  BY <1>1, HeadTailProperties
<1>3. DOMAIN Tail(q) = 1..(Len(q) - 1)
  BY <1>2, LenProperties
<1>4. ASSUME NEW i \in DOMAIN Tail(q) PROVE i + 1 \in DOMAIN q /\ Tail(q)[i] = q[i + 1]
  <2>1. i \in 1..(Len(q) - 1)
    BY <1>3
  <2>2. i + 1 \in 1..Len(q)
    BY <1>1, <2>1
  <2> QED BY <1>1, <1>2, <2>1, <2>2
<1>5. 1 \in DOMAIN q
  BY <1>1
<1> QED BY <1>2, <1>4, <1>5 DEF Queue

\* An unsequenced message is inserted at the head.
LEMMA FrontInserted ==
    ASSUME NEW q \in Seq(Incoming), NEW e \in Incoming
    PROVE  <<e>> \o q = InsertAt(q, 0 + 1, e)
<1>1. SubSeq(q, 1, Len(q)) = q
  BY SubSeqFull
<1>2. SubSeq(q, 1, 0) = <<>>
  BY SubSeqEmpty
<1>3. <<e>> \in Seq(Incoming) /\ <<>> \o <<e>> = <<e>>
  BY ConcatEmptySeq
<1>4. InsertAt(q, 1, e) = SubSeq(q, 1, 0) \o <<e>> \o SubSeq(q, 1, Len(q))
  BY DEF InsertAt
<1> QED BY <1>1, <1>2, <1>3, <1>4

\* The bit of a group is in the window.
LEMMA IndexRange ==
    ASSUME NEW g \in Nat
    PROVE  Index(g) \in 0..(WindowWords * Bits - 1)
<1> DEFINE k == g % WindowWords
<1>1. k \in Nat /\ k <= WindowWords - 1 /\ WindowWords \in Nat /\ Bits \in Nat /\ Bits >= 1
  BY WindowAssumption, SMT
<1>2. Index(g) = k * Bits
  BY DEF Index
<1> HIDE DEF k
<1>3. k * Bits >= 0 /\ k * Bits <= (WindowWords - 1) * Bits
  BY <1>1, SMT
<1>4. (WindowWords - 1) * Bits = WindowWords * Bits - Bits
  BY <1>1, SMT
<1>5. k * Bits \in Int /\ WindowWords * Bits \in Int
  BY <1>1, SMT
<1> QED BY <1>1, <1>2, <1>3, <1>4, <1>5, SMT

\* Every variable has its type, and a queue holds queued messages.
Typed ==
    /\ outRel \in Numbers /\ outUnrel \in Numbers /\ outGroup \in Numbers
    /\ inRel \in Numbers /\ inUnrel \in Numbers /\ inGroup \in Numbers
    /\ window \in SUBSET (0..(WindowWords * Bits - 1))
    /\ Queue(relQ) /\ Queue(unrelQ)
    /\ net \in SUBSET Message
    /\ result \in {-1, 0, 1}
    /\ sent \in Seq(Kinds) /\ Len(sent) <= MaxSent
    /\ got \in Seq([id : Ids, parts : SUBSET Parts])

\* This is what the type invariant says.
LEMMA TypedIsTypeOK == Typed => ChannelTypeOK
BY DEF Typed, ChannelTypeOK, Queue, Entry

\* It holds at first.
LEMMA TypedAtFirst == ChannelInit => Typed
<1> SUFFICES ASSUME ChannelInit PROVE Typed
  OBVIOUS
<1>1. Starts \in SUBSET Numbers /\ 0 \in Numbers /\ MaxSent \in Nat
  BY NumbersAssumption, SendingAssumption DEF Numbers
<1>2. \A S : <<>> \in Seq(S) /\ Len(<<>>) = 0
  BY EmptySeq
<1>3. Queue(<<>>)
  BY <1>2 DEF Queue
<1> QED BY <1>1, <1>2, <1>3 DEF ChannelInit, Typed

\* What a sent message has in it.
LEMMA BlankFits ==
    ASSUME Typed, Len(sent) < MaxSent
    PROVE  /\ Blank \in Message /\ Blank.type = "UNSEQUENCED_DATA"
           /\ Blank.id = Len(sent) + 1 /\ Blank.number = 0
<1>1. Len(sent) \in Nat /\ MaxSent \in Nat /\ Fragments \in Nat /\ Fragments > 1
  BY LenProperties, SendingAssumption DEF Typed
<1>2. Len(sent) + 1 \in Ids /\ 0 \in 0..(Fragments - 1) /\ 0 \in Numbers
  BY <1>1, NumbersAssumption DEF Ids, Numbers
<1>3. Blank \in Message
  BY <1>2 DEF Blank, Message
<1> QED BY <1>3 DEF Blank

\* The message of a reliable packet.
LEMMA SentReliable ==
    ASSUME Typed, Len(sent) < MaxSent, NEW a \in Numbers
    PROVE  LET m == [Blank EXCEPT !.type = "RELIABLE_DATA", !.seq = a]
           IN  /\ m \in Message /\ m.type = "RELIABLE_DATA" /\ m.id = Len(sent) + 1
               /\ m.number = 0 /\ m.seq = a
<1> DEFINE b == Blank
<1>1. b \in Message /\ b.id = Len(sent) + 1 /\ b.number = 0
  BY BlankFits
<1> HIDE DEF b
<1>2. LET m == [b EXCEPT !.type = "RELIABLE_DATA", !.seq = a]
      IN  /\ m \in Message /\ m.type = "RELIABLE_DATA" /\ m.id = Len(sent) + 1
          /\ m.number = 0 /\ m.seq = a
  BY <1>1 DEF Message
<1> QED BY <1>2 DEF b

\* A fragment of a packet.
LEMMA SentFragment ==
    ASSUME Typed, Len(sent) < MaxSent, NEW a \in Numbers, NEW c \in Numbers,
           NEW k \in 0..(Fragments - 1)
    PROVE  LET m == [Blank EXCEPT !.type = "DATA_FRAGMENT", !.start = a, !.seq = c, !.number = k]
           IN  /\ m \in Message /\ m.type = "DATA_FRAGMENT" /\ m.id = Len(sent) + 1
               /\ m.number = k /\ m.start = a
<1> DEFINE b == Blank
<1>1. b \in Message /\ b.id = Len(sent) + 1
  BY BlankFits
<1> HIDE DEF b
<1>2. LET m == [b EXCEPT !.type = "DATA_FRAGMENT", !.start = a, !.seq = c, !.number = k]
      IN  /\ m \in Message /\ m.type = "DATA_FRAGMENT" /\ m.id = Len(sent) + 1
          /\ m.number = k /\ m.start = a
  BY <1>1 DEF Message
<1> QED BY <1>2 DEF b

\* The message of an unreliable packet.
LEMMA SentUnreliable ==
    ASSUME Typed, Len(sent) < MaxSent, NEW a \in Numbers, NEW c \in Numbers
    PROVE  LET m == [Blank EXCEPT !.type = "UNRELIABLE_DATA", !.seq = a, !.useq = c]
           IN  /\ m \in Message /\ m.type = "UNRELIABLE_DATA" /\ m.id = Len(sent) + 1
               /\ m.number = 0 /\ m.seq = a /\ m.useq = c
<1> DEFINE b == Blank
<1>1. b \in Message /\ b.id = Len(sent) + 1 /\ b.number = 0
  BY BlankFits
<1> HIDE DEF b
<1>2. LET m == [b EXCEPT !.type = "UNRELIABLE_DATA", !.seq = a, !.useq = c]
      IN  /\ m \in Message /\ m.type = "UNRELIABLE_DATA" /\ m.id = Len(sent) + 1
          /\ m.number = 0 /\ m.seq = a /\ m.useq = c
  BY <1>1 DEF Message
<1> QED BY <1>2 DEF b

\* The message of an unsequenced packet.
LEMMA SentUnsequenced ==
    ASSUME Typed, Len(sent) < MaxSent, NEW a \in Numbers
    PROVE  LET m == [Blank EXCEPT !.group = a]
           IN  /\ m \in Message /\ m.type = "UNSEQUENCED_DATA" /\ m.id = Len(sent) + 1
               /\ m.number = 0
<1> DEFINE b == Blank
<1>1. b \in Message /\ b.type = "UNSEQUENCED_DATA" /\ b.id = Len(sent) + 1 /\ b.number = 0
  BY BlankFits
<1> HIDE DEF b
<1>2. LET m == [b EXCEPT !.group = a]
      IN  /\ m \in Message /\ m.type = "UNSEQUENCED_DATA" /\ m.id = Len(sent) + 1
          /\ m.number = 0
  BY <1>1 DEF Message
<1> QED BY <1>2 DEF b

\* Sending keeps the types.
LEMMA SendTyped == Typed /\ Send => Typed'
<1> SUFFICES ASSUME Typed, Send PROVE Typed'
  OBVIOUS
<1>1. Len(sent) < MaxSent
  BY DEF Send, SendReliable, SendFragmented, SendUnreliable, SendUnsequenced, Sends
<1>2. PICK kind \in Kinds : Sends(kind)
  BY DEF Send, SendReliable, SendFragmented, SendUnreliable, SendUnsequenced, Sends
<1>3. sent' \in Seq(Kinds) /\ Len(sent') <= MaxSent
  <2>1. sent \in Seq(Kinds) /\ Len(sent) \in Nat
    BY LenProperties DEF Typed
  <2>2. sent' = Append(sent, kind)
    BY <1>2 DEF Sends
  <2>3. sent' \in Seq(Kinds) /\ Len(sent') = Len(sent) + 1
    BY <2>1, <2>2, AppendProperties
  <2> QED BY <1>1, <2>1, <2>3, SendingAssumption
<1>4. \A n, k \in Int : NextNumber(n) \in Numbers /\ (n + k) % Modulus \in Numbers
  <2>1. \A n, k \in Int : n + 1 \in Int /\ n + k \in Int
    OBVIOUS
  <2> QED BY <2>1, Modulo DEF NextNumber
<1>5. outRel \in Int /\ outUnrel \in Int /\ outGroup \in Int /\ Fragments \in Int
  BY NumbersAssumption, SendingAssumption DEF Typed, Numbers
<1>6. NextNumber(outRel) \in Numbers /\ NextNumber(outUnrel) \in Numbers
      /\ NextNumber(outGroup) \in Numbers /\ (outRel + Fragments) % Modulus \in Numbers
  BY <1>4, <1>5
<1>7. outRel' \in Numbers /\ outUnrel' \in Numbers /\ outGroup' \in Numbers
  BY <1>6 DEF Send, SendReliable, SendFragmented, SendUnreliable, SendUnsequenced, Typed
<1>8. net' \in SUBSET Message
  <2>0. net \in SUBSET Message
    BY DEF Typed
  <2>1. CASE SendReliable
    BY <1>1, <1>7, <2>0, <2>1, SentReliable DEF SendReliable
  <2>2. CASE SendFragmented
    <3>1. ASSUME NEW k \in 0..(Fragments - 1)
          PROVE  [Blank EXCEPT !.type = "DATA_FRAGMENT", !.start = NextNumber(outRel),
                               !.seq = (outRel + 1 + k) % Modulus, !.number = k] \in Message
      <4>1. k \in Int /\ outRel + 1 \in Int
        BY <1>5
      <4>2. (outRel + 1 + k) % Modulus \in Numbers
        BY <1>4, <4>1
      <4> QED BY <1>1, <1>6, <4>2, SentFragment
    <3> QED BY <2>0, <2>2, <3>1 DEF SendFragmented
  <2>3. CASE SendUnreliable
    <3>1. outRel \in Numbers
      BY DEF Typed
    <3>2. [Blank EXCEPT !.type = "UNRELIABLE_DATA", !.seq = outRel, !.useq = outUnrel']
            \in Message
      BY <1>1, <1>7, <3>1, SentUnreliable
    <3> QED BY <2>0, <2>3, <3>2 DEF SendUnreliable
  <2>4. CASE SendUnsequenced
    BY <1>1, <1>7, <2>0, <2>4, SentUnsequenced DEF SendUnsequenced
  <2> QED BY <2>1, <2>2, <2>3, <2>4 DEF Send
<1>9. UNCHANGED <<inRel, inUnrel, inGroup, window, relQ, unrelQ, result, got>>
  BY <1>2 DEF Sends
<1> QED BY <1>3, <1>7, <1>8, <1>9 DEF Typed

\* Where the messages of the queues are searched.
LEMMA SearchedPlaces ==
    ASSUME Typed
    PROVE  /\ Len(relQ) \in Nat /\ DOMAIN relQ = 1..Len(relQ)
           /\ Len(unrelQ) \in Nat /\ DOMAIN unrelQ = 1..Len(unrelQ)
           /\ \A n : Place(n, Rels, DOMAIN relQ) \in 0..Len(relQ)
           /\ \A n : Place(n, Unrels, Unreliables) \in 0..Len(unrelQ)
<1>1. relQ \in Seq(Incoming) /\ unrelQ \in Seq(Incoming)
  BY DEF Typed, Queue
<1>2. Len(relQ) \in Nat /\ DOMAIN relQ = 1..Len(relQ)
      /\ Len(unrelQ) \in Nat /\ DOMAIN unrelQ = 1..Len(unrelQ)
  BY <1>1, LenProperties
<1>3. DOMAIN relQ \in SUBSET (1..Len(relQ)) /\ Unreliables \in SUBSET (1..Len(unrelQ))
  BY <1>2 DEF Unreliables
<1> QED BY <1>2, <1>3, PlaceRange

\* What becomes of a message that is not refused: it is inserted in its queue.
LEMMA QueuedTyped ==
    ASSUME Typed, NEW e, Entry(e)
    PROVE  /\ QueueReliable(e) => Queue(relQ')
           /\ QueueUnreliable(e) => Queue(unrelQ')
<1>1. Queue(relQ) /\ Queue(unrelQ)
  BY DEF Typed
<1> QED BY <1>1, SearchedPlaces, QueueGrows DEF QueueReliable, QueueUnreliable

\* The fragment m belongs to a packet in the queue, which is at the position mate.
MatesOf(m) == {i \in DOMAIN relQ : relQ[i].type = "DATA_FRAGMENT" /\ relQ[i].rel = m.start}
MateOf(m) == CHOOSE i \in MatesOf(m) : \A j \in MatesOf(m) : j <= i

\* Its first fragment makes the packet.
FirstOf(m) == [Incame(m, m.start) EXCEPT !.remaining = Fragments, !.parts = {}]

\* A packet in the queue is found.
LEMMA MateFound ==
    ASSUME Typed, NEW m, MatesOf(m) # {}
    PROVE  MateOf(m) \in MatesOf(m)
<1>1. MatesOf(m) \in SUBSET (1..Len(relQ)) /\ Len(relQ) \in Nat
  BY SearchedPlaces DEF MatesOf
<1>2. \E i \in MatesOf(m) : \A j \in MatesOf(m) : j <= i
  BY <1>1, LastPlace
<1> QED BY <1>2 DEF MateOf

\* What the arrival of a fragment does.
LEMMA FragmentIs ==
    ASSUME NEW m, OnFragment(m)
    PROVE  /\ Arrives(m, "DATA_FRAGMENT")
           /\ UNCHANGED <<inGroup, window, unrelQ>>
           /\ result' \in {-1, 1}
           /\ \/ UNCHANGED relQ
              \/ MatesOf(m) # {} /\ relQ' = [relQ EXCEPT ![MateOf(m)] = Copied(@, m)]
              \/ /\ MatesOf(m) = {} /\ ~RefusedReliable(m.start)
                 /\ QueueReliable(Copied(FirstOf(m), m))
BY DEF OnFragment, MatesOf, MateOf, FirstOf

\* A change of one queued message keeps the queue.
LEMMA QueueChanges ==
    ASSUME NEW q, Queue(q), NEW k \in DOMAIN q, NEW e, Entry(e)
    PROVE  /\ Queue([q EXCEPT ![k] = e])
           /\ DOMAIN [q EXCEPT ![k] = e] = DOMAIN q
           /\ \A i \in DOMAIN q : [q EXCEPT ![k] = e][i] = IF i = k THEN e ELSE q[i]
<1> DEFINE t == [q EXCEPT ![k] = e]
<1>1. q \in Seq(Incoming) /\ e \in Incoming /\ DOMAIN q = 1..Len(q)
  BY LenProperties DEF Queue, Entry
<1>2. t \in Seq(Incoming)
  BY <1>1, ExceptSeq
<1>3. DOMAIN t = DOMAIN q /\ \A i \in DOMAIN q : t[i] = IF i = k THEN e ELSE q[i]
  OBVIOUS
<1>4. \A i \in DOMAIN q : Entry(t[i])
  BY <1>3 DEF Queue
<1> HIDE DEF t
<1>5. Queue(t)
  BY <1>2, <1>3, <1>4 DEF Queue
<1> QED BY <1>3, <1>5 DEF t

\* Arrivals keep the types.
LEMMA HandleTyped ==
    ASSUME Typed, NEW m \in net, Handle(m)
    PROVE  Typed'
<1>0. m \in Message /\ net \in SUBSET Message
  BY DEF Typed
<1>1. m.seq \in Numbers /\ m.group \in Numbers /\ m.start \in Numbers
  BY <1>0 DEF Message
<1>2. UNCHANGED sender /\ UNCHANGED <<inRel, inUnrel, got>>
  BY DEF Handle, OnReliable, OnUnreliable, OnUnsequenced, OnFragment, Arrives
<1>3. result' \in {-1, 0, 1}
  BY FragmentIs DEF Handle, OnReliable, OnUnreliable, OnUnsequenced
<1>4. Queue(relQ) /\ Queue(unrelQ) /\ inGroup \in Numbers
      /\ window \in SUBSET (0..(WindowWords * Bits - 1))
  BY DEF Typed
<1>5. Entry(Incame(m, m.seq)) \/ m.type = "DATA_FRAGMENT"
  BY <1>0, <1>1, IncameEntry
<1>6. Queue(relQ') /\ Queue(unrelQ') /\ inGroup' \in Numbers
      /\ window' \in SUBSET (0..(WindowWords * Bits - 1))
  <2>1. CASE OnReliable(m)
    <3>1. Entry(Incame(m, m.seq))
      BY <1>5, <2>1 DEF OnReliable, Arrives
    <3> QED BY <1>4, <2>1, <3>1, QueuedTyped DEF OnReliable
  <2>2. CASE OnUnreliable(m)
    <3>1. Entry(Incame(m, m.seq))
      BY <1>5, <2>2 DEF OnUnreliable, Arrives
    <3> QED BY <1>4, <2>2, <3>1, QueuedTyped DEF OnUnreliable
  <2>3. CASE OnUnsequenced(m)
    <3>1. Entry(Incame(m, m.seq))
      BY <1>5, <2>3 DEF OnUnsequenced, Arrives
    <3>2. Queue(<<Incame(m, m.seq)>> \o unrelQ)
      <4>1. 0 \in 0..Len(unrelQ)
        BY SearchedPlaces
      <4>2. Queue(InsertAt(unrelQ, 0 + 1, Incame(m, m.seq)))
        BY <1>4, <3>1, <4>1, QueueGrows
      <4> QED BY <1>4, <3>1, <4>2, FrontInserted DEF Queue, Entry
    <3>3. Index(m.group) \in 0..(WindowWords * Bits - 1) /\ m.group \in Nat
      BY <1>1, IndexRange, NumbersAssumption DEF Numbers
    <3>4. m.group - Index(m.group) \in Int
      BY <3>3
    <3>5. (m.group - Index(m.group)) % Modulus \in Numbers
      BY <3>4, Modulo
    <3>6. relQ' = relQ /\ unrelQ' \in {unrelQ, <<Incame(m, m.seq)>> \o unrelQ}
      BY <2>3 DEF OnUnsequenced
    <3>7. inGroup' \in {inGroup, (m.group - Index(m.group)) % Modulus}
      BY <2>3 DEF OnUnsequenced
    <3>8. window' \in {window, {Index(m.group)}, window \union {Index(m.group)}}
      BY <2>3 DEF OnUnsequenced
    <3> QED BY <1>4, <3>2, <3>3, <3>5, <3>6, <3>7, <3>8
  <2>4. CASE OnFragment(m)
    <3>1. Entry(Copied(FirstOf(m), m))
      BY <1>0, <1>1, FirstEntry, CopiedEntry DEF FirstOf
    <3>2. ASSUME MatesOf(m) # {}, relQ' = [relQ EXCEPT ![MateOf(m)] = Copied(@, m)]
          PROVE  Queue(relQ')
      <4>1. MateOf(m) \in DOMAIN relQ
        BY <3>2, MateFound DEF MatesOf
      <4>2. Entry(Copied(relQ[MateOf(m)], m))
        BY <1>0, <1>4, <4>1, CopiedEntry DEF Queue
      <4> QED BY <1>4, <3>2, <4>1, <4>2, QueueChanges
    <3> QED BY <1>4, <2>4, <3>1, <3>2, FragmentIs, QueuedTyped
  <2> QED BY <2>1, <2>2, <2>3, <2>4 DEF Handle
<1> QED BY <1>2, <1>3, <1>6 DEF Typed, sender

\* What is received.
LEMMA ReceiveTyped == Typed /\ Receive => Typed'
<1> SUFFICES ASSUME Typed, Receive PROVE Typed'
  OBVIOUS
<1>1. Queue(relQ) /\ Queue(unrelQ) /\ got \in Seq([id : Ids, parts : SUBSET Parts])
  BY DEF Typed
<1>2. ASSUME NEW e, Entry(e)
      PROVE  /\ e.rel \in Numbers /\ e.unrel \in Numbers
             /\ Append(got, [id |-> e.id, parts |-> e.parts])
                  \in Seq([id : Ids, parts : SUBSET Parts])
  <2>1. e \in Incoming
    BY <1>2 DEF Entry
  <2>2. e.rel \in Numbers /\ e.unrel \in Numbers /\ e.id \in Ids /\ e.parts \in SUBSET Parts
    BY <2>1 DEF Incoming
  <2>3. [id |-> e.id, parts |-> e.parts] \in [id : Ids, parts : SUBSET Parts]
    BY <2>2
  <2> QED BY <1>1, <2>2, <2>3, AppendProperties
<1>3. CASE ReceiveUnreliable
  <2>1. unrelQ # <<>>
    BY <1>3 DEF ReceiveUnreliable, UnreliableReady
  <2>2. Queue(Tail(unrelQ)) /\ Entry(Head(unrelQ))
    BY <1>1, <2>1, QueueShrinks
  <2> QED BY <1>2, <1>3, <2>2 DEF ReceiveUnreliable, Typed, sender
<1>4. CASE ReceiveReliable
  <2>1. relQ # <<>>
    BY <1>4 DEF ReceiveReliable, ReliableReady
  <2>2. Queue(Tail(relQ)) /\ Entry(Head(relQ))
    BY <1>1, <2>1, QueueShrinks
  <2>3. Head(relQ).rel \in Numbers
    BY <1>2, <2>2
  <2>4. Head(relQ).rel + Fragments - 1 \in Int
    BY <2>3, SendingAssumption, NumbersAssumption DEF Numbers
  <2>5. (Head(relQ).rel + Fragments - 1) % Modulus \in Numbers
    BY <2>4, Modulo
  <2>6. inRel' \in Numbers
    BY <1>4, <2>3, <2>5 DEF ReceiveReliable
  <2> QED BY <1>2, <1>4, <2>2, <2>6 DEF ReceiveReliable, Typed, sender
<1> QED BY <1>3, <1>4 DEF Receive

\* Every variable has its type, always.
LEMMA TypedStep == Typed /\ [ChannelNext]_channelVars => Typed'
<1>1. ASSUME Typed, UNCHANGED channelVars PROVE Typed'
  BY <1>1 DEF Typed, channelVars
<1> QED BY <1>1, SendTyped, HandleTyped, ReceiveTyped DEF ChannelNext

\* Every variable has its type, and the counter of the fragments that are missing is right:
\* fragmentsRemaining, which is unsigned, is never decremented below zero.
THEOREM ChannelTypeCorrect == ChannelSpec => []ChannelTypeOK
<1>1. ChannelSpec => []Typed
  BY TypedAtFirst, TypedStep, PTL DEF ChannelSpec
<1> QED BY <1>1, TypedIsTypeOK, PTL

-----------------------------------------------------------------------------
(* The numbers of the packets.                                             *)

\* How many numbers a packet takes of the reliable, and of the unreliable ones.
Width(kind) == IF kind = "reliable" THEN 1 ELSE IF kind = "fragmented" THEN Fragments ELSE 0
One(kind) == IF kind = "unreliable" THEN 1 ELSE 0

\* From the number n on, packet i ends U[i] reliable and V[i] unreliable numbers later.
Numbered(n, U, V) ==
    /\ n \in Numbers /\ U \in [Nat -> Nat] /\ V \in [Nat -> Nat]
    /\ U[0] = 0 /\ V[0] = 0
    /\ \A i \in 1..Len(sent) : U[i] = U[i - 1] + Width(sent[i]) /\ V[i] = V[i - 1] + One(sent[i])
    /\ \A i, j \in 0..Len(sent) : i <= j =>
         /\ U[i] <= U[j] /\ U[j] - U[i] <= (j - i) * Fragments
         /\ V[i] <= V[j] /\ V[j] - V[i] <= j - i
    /\ U[Len(sent)] = NumbersUsed /\ V[Len(sent)] = Count("unreliable")
    /\ outRel = Num(n, U[Len(sent)]) /\ outUnrel = Num(n, V[Len(sent)])

\* The first number of packet i.
First(U, i) == U[i - 1] + 1

\* The message m bears the numbers of its packet.
Bears(n, U, V, m) ==
    /\ m.id \in 1..Len(sent)
    /\ m.type = "RELIABLE_DATA" =>
         sent[m.id] = "reliable" /\ m.seq = Num(n, First(U, m.id)) /\ m.number = 0
    /\ m.type = "DATA_FRAGMENT" => sent[m.id] = "fragmented" /\ m.start = Num(n, First(U, m.id))
    /\ m.type = "UNRELIABLE_DATA" =>
         /\ sent[m.id] = "unreliable" /\ m.number = 0
         /\ m.seq = Num(n, U[m.id]) /\ m.useq = Num(n, V[m.id])
    /\ m.type = "UNSEQUENCED_DATA" => sent[m.id] = "unsequenced" /\ m.number = 0

Numbering(n, U, V) == Typed /\ Numbered(n, U, V) /\ \A m \in net : Bears(n, U, V, m)

\* Widths are small natural numbers.
LEMMA WidthRange ==
    ASSUME NEW kind
    PROVE  /\ Width(kind) \in Nat /\ Width(kind) <= Fragments /\ One(kind) \in {0, 1}
           /\ kind \in Ordered => Width(kind) >= 1
BY SendingAssumption DEF Width, One, Ordered

\* One more packet of a kind is one more to count.
LEMMA CountGrows ==
    ASSUME Typed, NEW kind \in Kinds, sent' = Append(sent, kind), NEW k
    PROVE  Count(k) \in Nat /\ Count(k)' = Count(k) + (IF kind = k THEN 1 ELSE 0)
<1> DEFINE A == {i \in DOMAIN sent : sent[i] = k}
           L == Len(sent)
<1>1. sent \in Seq(Kinds) /\ L \in Nat /\ DOMAIN sent = 1..L
  BY LenProperties DEF Typed
<1>2. DOMAIN sent' = 1..(L + 1) /\ (\A i \in 1..L : sent'[i] = sent[i]) /\ sent'[L + 1] = kind
  BY <1>1, AppendProperties, LenProperties
<1>3. IsFiniteSet(A) /\ L + 1 \notin A
  <2>1. IsFiniteSet(1..L)
    BY <1>1, FS_Interval
  <2>2. A \subseteq 1..L
    BY <1>1
  <2>3. L + 1 \notin 1..L
    BY <1>1
  <2> QED BY <2>1, <2>2, <2>3, FS_Subset
<1>4. {i \in DOMAIN sent' : sent'[i] = k} = IF kind = k THEN A \union {L + 1} ELSE A
  <2>1. 1..(L + 1) = (1..L) \union {L + 1}
    BY <1>1
  <2>2. \A i : i \in 1..L => i # L + 1
    BY <1>1
  <2> QED BY <1>1, <1>2, <2>1, <2>2
<1>5. Cardinality(A) \in Nat /\ Cardinality(A \union {L + 1}) = Cardinality(A) + 1
  BY <1>3, FS_AddElement, FS_CardinalityType
<1>6. Count(k) = Cardinality(A) /\ Count(k)' = Cardinality({i \in DOMAIN sent' : sent'[i] = k})
  BY DEF Count
<1>7. CASE kind = k
  <2> HIDE DEF A
  <2> QED BY <1>4, <1>5, <1>6, <1>7
<1>8. CASE kind # k
  <2>1. {i \in DOMAIN sent' : sent'[i] = k} = A
    BY <1>4, <1>8
  <2>2. Count(k)' = Cardinality(A)
    BY <1>6, <2>1
  <2>3. (IF kind = k THEN 1 ELSE 0) = 0
    BY <1>8
  <2> HIDE DEF A
  <2>4. Count(k) = Cardinality(A)
    BY <1>6
  <2>5. Count(k) \in Nat /\ Count(k)' = Count(k)
    BY <1>5, <2>2, <2>4
  <2>6. \A x \in Nat : x + 0 = x
    OBVIOUS
  <2> QED BY <2>3, <2>5, <2>6
<1> QED BY <1>7, <1>8

\* A packet that is sent takes the numbers after those of the packets before it.
LEMMA NumberedGrows ==
    ASSUME Typed, NEW n, NEW U, NEW V, Numbered(n, U, V),
           NEW kind \in Kinds, sent' = Append(sent, kind),
           outRel' = Num(n, U[Len(sent)] + Width(kind)),
           outUnrel' = Num(n, V[Len(sent)] + One(kind))
    PROVE  \E X, Y : /\ Numbered(n, X, Y)'
                     /\ \A i \in 0..Len(sent) : X[i] = U[i] /\ Y[i] = V[i]
<1> DEFINE L == Len(sent)
<1>a. PICK X : X = [U EXCEPT ![L + 1] = U[L] + Width(kind)]
  OBVIOUS
<1>b. PICK Y : Y = [V EXCEPT ![L + 1] = V[L] + One(kind)]
  OBVIOUS
<1>1. sent \in Seq(Kinds) /\ L \in Nat /\ DOMAIN sent = 1..L
  BY LenProperties DEF Typed
<1>2. Len(sent') = L + 1 /\ (\A i \in 1..L : sent'[i] = sent[i]) /\ sent'[L + 1] = kind
  BY <1>1, AppendProperties
<1>3. n \in Numbers /\ U \in [Nat -> Nat] /\ V \in [Nat -> Nat] /\ U[0] = 0 /\ V[0] = 0
  BY DEF Numbered
<1>4. Width(kind) \in Nat /\ Width(kind) <= Fragments /\ One(kind) \in {0, 1} /\ Fragments \in Nat
  BY WidthRange, SendingAssumption
<1>5. U[L] \in Nat /\ V[L] \in Nat
  BY <1>1, <1>3
<1>6. X \in [Nat -> Nat] /\ Y \in [Nat -> Nat]
  <2>1. U[L] + Width(kind) \in Nat /\ V[L] + One(kind) \in Nat /\ L + 1 \in Nat
    BY <1>1, <1>4, <1>5
  <2> QED BY <1>3, <1>a, <1>b, <2>1
<1>7. \A i \in 0..L : X[i] = U[i] /\ Y[i] = V[i]
  <2>1. \A i \in 0..L : i # L + 1 /\ i \in Nat
    BY <1>1
  <2> QED BY <1>3, <1>a, <1>b, <2>1
<1>8. X[L + 1] = U[L] + Width(kind) /\ Y[L + 1] = V[L] + One(kind)
  <2>1. L + 1 \in Nat
    BY <1>1
  <2> QED BY <1>3, <1>a, <1>b, <2>1
<1> HIDE DEF L
<1>9. X[0] = 0 /\ Y[0] = 0
  <2>1. 0 \in 0..L
    BY <1>1
  <2> QED BY <1>3, <1>7, <2>1
<1>10. ASSUME NEW i \in 1..(L + 1)
       PROVE  X[i] = X[i - 1] + Width(sent'[i]) /\ Y[i] = Y[i - 1] + One(sent'[i])
  <2>1. CASE i \in 1..L
    <3>1. i - 1 \in 0..L /\ i \in 0..L
      BY <1>1, <2>1
    <3>2. U[i] = U[i - 1] + Width(sent[i]) /\ V[i] = V[i - 1] + One(sent[i])
      BY <2>1 DEF Numbered, L
    <3> QED BY <1>2, <1>7, <2>1, <3>1, <3>2
  <2>2. CASE i = L + 1
    <3>1. i - 1 = L /\ L \in 0..L
      BY <1>1, <2>2
    <3> QED BY <1>2, <1>7, <1>8, <2>2, <3>1
  <2> QED BY <1>1, <2>1, <2>2
<1>11. ASSUME NEW i \in 0..(L + 1), NEW j \in 0..(L + 1), i <= j
       PROVE  /\ X[i] <= X[j] /\ X[j] - X[i] <= (j - i) * Fragments
              /\ Y[i] <= Y[j] /\ Y[j] - Y[i] <= j - i
  <2>0. \A a, b \in 0..L : a <= b =>
          /\ U[a] <= U[b] /\ U[b] - U[a] <= (b - a) * Fragments
          /\ V[a] <= V[b] /\ V[b] - V[a] <= b - a
    BY DEF Numbered, L
  <2>1. CASE j \in 0..L
    <3>1. i \in 0..L
      BY <1>1, <1>11, <2>1
    <3> QED BY <1>7, <1>11, <2>0, <2>1, <3>1
  <2>2. CASE j = L + 1 /\ i \in 0..L
    <3>1. L \in 0..L /\ i <= L
      BY <1>1, <2>2
    <3>2. U[i] <= U[L] /\ U[L] - U[i] <= (L - i) * Fragments
          /\ V[i] <= V[L] /\ V[L] - V[i] <= L - i
      BY <2>0, <2>2, <3>1
    <3>3. X[i] = U[i] /\ Y[i] = V[i] /\ X[j] = U[L] + Width(kind) /\ Y[j] = V[L] + One(kind)
      BY <1>7, <1>8, <2>2
    <3>4. U[i] \in Nat /\ V[i] \in Nat
      <4>1. i \in Nat
        BY <1>1, <2>2
      <4> QED BY <1>3, <4>1
    <3>5. (L + 1 - i) * Fragments = (L - i) * Fragments + Fragments
          /\ (L - i) * Fragments \in Int
      BY <1>1, <1>4, <2>2, SMT
    <3>6. X[i] <= X[j] /\ X[j] - X[i] <= (j - i) * Fragments
      <4>1. j - i = L + 1 - i
        <5>1. j = L + 1
          BY <2>2
        <5> QED BY <1>1, <5>1
      <4>2. X[j] - X[i] <= (L - i) * Fragments + Fragments
        BY <1>4, <1>5, <3>2, <3>3, <3>4, <3>5
      <4>3. X[i] <= X[j]
        BY <1>4, <1>5, <3>2, <3>3, <3>4
      <4>4. X[j] - X[i] <= (L + 1 - i) * Fragments
        BY <3>5, <4>2
      <4> QED BY <4>1, <4>3, <4>4
    <3>7. Y[i] <= Y[j] /\ Y[j] - Y[i] <= j - i
      <4>1. j = L + 1 /\ One(kind) \in {0, 1} /\ i \in Int
        BY <1>1, <1>4, <2>2
      <4> QED BY <1>1, <1>5, <3>2, <3>3, <3>4, <4>1
    <3> QED BY <3>6, <3>7
  <2>3. CASE j = L + 1 /\ i = L + 1
    <3>1. X[i] \in Nat /\ Y[i] \in Nat /\ (j - i) * Fragments = 0 /\ j - i = 0
      <4>1. j - i = 0 /\ i \in Nat /\ 0 * Fragments = 0
        BY <1>1, <1>4, <2>3
      <4> QED BY <1>6, <4>1
    <3> QED BY <2>3, <3>1
  <2> QED BY <1>1, <2>1, <2>2, <2>3
<1>12. X[L + 1] = NumbersUsed' /\ Y[L + 1] = Count("unreliable")'
  <2>1. U[L] = NumbersUsed /\ V[L] = Count("unreliable")
    BY DEF Numbered, L
  <2>2. \A k : Count(k) \in Nat /\ Count(k)' = Count(k) + (IF kind = k THEN 1 ELSE 0)
    BY CountGrows
  <2>3. V[L] + One(kind) = Count("unreliable")'
    BY <2>1, <2>2 DEF One
  <2> DEFINE a == Count("reliable")
             b == Count("fragmented")
             c == Count("reliable")'
             d == Count("fragmented")'
  <2>4. NumbersUsed = a + Fragments * b /\ NumbersUsed' = c + Fragments * d
    BY DEF NumbersUsed
  <2>5. /\ a \in Nat /\ c = a + (IF kind = "reliable" THEN 1 ELSE 0)
        /\ b \in Nat /\ d = b + (IF kind = "fragmented" THEN 1 ELSE 0)
    BY <2>2
  <2> HIDE DEF a, b, c, d
  <2>6. Fragments * b \in Nat /\ Fragments * (b + 1) = Fragments * b + Fragments
    BY <1>4, <2>5, SMT
  <2>7. NumbersUsed' = NumbersUsed + Width(kind)
    BY <1>4, <2>4, <2>5, <2>6 DEF Width
  <2> QED BY <1>8, <2>1, <2>3, <2>7
<1>13. outRel' = Num(n, X[L + 1]) /\ outUnrel' = Num(n, Y[L + 1])
  BY <1>8 DEF L
<1>14. Numbered(n, X, Y)'
  BY <1>2, <1>3, <1>6, <1>9, <1>10, <1>11, <1>12, <1>13 DEF Numbered
<1> QED BY <1>7, <1>14 DEF L

\* The numbers at first.
LEMMA NumberingAtFirst ==
    ASSUME ChannelInit
    PROVE  LET Z == [i \in Nat |-> 0]
           IN  outRel \in Numbers /\ Numbering(outRel, Z, Z) /\ inRel = Num(outRel, 0)
               /\ inUnrel = Num(outRel, 0)
<1> DEFINE Z == [i \in Nat |-> 0]
<1>1. Typed /\ outRel \in Numbers
  BY TypedAtFirst DEF Typed
<1>2. outRel = outUnrel /\ inRel = outRel /\ inUnrel = outRel /\ sent = <<>> /\ net = {}
  BY DEF ChannelInit
<1>3. Num(outRel, 0) = outRel
  <2>1. outRel \in Int /\ outRel + 0 = outRel
    BY <1>1, NumbersAssumption DEF Numbers
  <2> QED BY <1>1, <2>1, Modulo DEF Num
<1>4. Len(sent) = 0 /\ DOMAIN sent = {}
  BY <1>2, EmptySeq
<1>5. \A k : Count(k) = 0
  BY <1>4, FS_EmptySet DEF Count
<1>6. NumbersUsed = 0
  BY <1>5, SendingAssumption DEF NumbersUsed
<1>7. Z \in [Nat -> Nat] /\ \A i \in Nat : Z[i] = 0
  OBVIOUS
<1> HIDE DEF Z
<1>8. (\A i \in 1..Len(sent) : FALSE) /\ (\A i \in 0..Len(sent) : i = 0)
  BY <1>4
<1>9. \A i, j \in 0..Len(sent) : i <= j =>
        /\ Z[i] <= Z[j] /\ Z[j] - Z[i] <= (j - i) * Fragments
        /\ Z[i] <= Z[j] /\ Z[j] - Z[i] <= j - i
  <2>1. Z[0] = 0 /\ (0 - 0) * Fragments = 0
    BY <1>7, SendingAssumption
  <2> QED BY <1>8, <2>1
<1>10. Numbered(outRel, Z, Z)
  BY <1>1, <1>2, <1>3, <1>4, <1>5, <1>6, <1>7, <1>8, <1>9 DEF Numbered
<1>11. Numbering(outRel, Z, Z)
  BY <1>1, <1>2, <1>10 DEF Numbering
<1> QED BY <1>1, <1>2, <1>3, <1>11 DEF Z

\* Messages bear the numbers of their packets when others are sent.
LEMMA BearsStays ==
    ASSUME NEW n, NEW U, NEW V, NEW X, NEW Y, NEW m, Len(sent) \in Nat, Len(sent') \in Nat,
           Bears(n, U, V, m), Len(sent) <= Len(sent'),
           \A i \in 1..Len(sent) : sent'[i] = sent[i],
           \A i \in 0..Len(sent) : X[i] = U[i] /\ Y[i] = V[i]
    PROVE  Bears(n, X, Y, m)'
<1>1. m.id \in 1..Len(sent) /\ m.id \in 1..Len(sent')
  BY DEF Bears
<1>2. m.id - 1 \in 0..Len(sent) /\ m.id \in 0..Len(sent)
  BY <1>1
<1>3. sent'[m.id] = sent[m.id] /\ X[m.id] = U[m.id] /\ Y[m.id] = V[m.id]
      /\ First(X, m.id) = First(U, m.id)
  BY <1>1, <1>2 DEF First
<1> QED BY <1>1, <1>3 DEF Bears

\* A packet that is sent bears the numbers it takes.
LEMMA NumberingSend ==
    ASSUME NEW n, NEW U, NEW V, Numbering(n, U, V), Send
    PROVE  \E X, Y : /\ Numbering(n, X, Y)'
                     /\ \A i \in 0..Len(sent) : X[i] = U[i] /\ Y[i] = V[i]
<1> DEFINE L == Len(sent)
<1>1. Typed /\ Numbered(n, U, V) /\ Typed' /\ L < MaxSent
  BY SendTyped
     DEF Numbering, Send, SendReliable, SendFragmented, SendUnreliable, SendUnsequenced, Sends
<1>2. sent \in Seq(Kinds) /\ L \in Nat
  BY <1>1, LenProperties DEF Typed
<1>3. /\ n \in Nat /\ U[L] \in Nat /\ V[L] \in Nat
      /\ outRel = Num(n, U[L]) /\ outUnrel = Num(n, V[L])
  BY <1>1, <1>2, NumbersAssumption DEF Numbered, Numbers
<1>4. U[L] + 0 = U[L] /\ V[L] + 0 = V[L]
  BY <1>3
<1>5. PICK kind : /\ kind \in Kinds /\ Sends(kind)
                  /\ outRel' = Num(n, U[L] + Width(kind)) /\ outUnrel' = Num(n, V[L] + One(kind))
                  /\ net' = net \union
                       (IF kind = "reliable"
                        THEN {[Blank EXCEPT !.type = "RELIABLE_DATA", !.seq = outRel']}
                        ELSE IF kind = "fragmented"
                        THEN {[Blank EXCEPT !.type = "DATA_FRAGMENT", !.start = NextNumber(outRel),
                                            !.seq = (outRel + 1 + k) % Modulus, !.number = k]
                                : k \in 0..(Fragments - 1)}
                        ELSE IF kind = "unreliable"
                        THEN {[Blank EXCEPT !.type = "UNRELIABLE_DATA", !.seq = outRel,
                                            !.useq = outUnrel']}
                        ELSE {[Blank EXCEPT !.group = outGroup']})
                  /\ kind \in {"reliable", "fragmented", "unreliable", "unsequenced"}
  <2>0. Fragments \in Nat
    BY SendingAssumption
  <2>1. CASE SendReliable
    <3>1. Sends("reliable") /\ outRel' = (Num(n, U[L]) + 1) % Modulus /\ outUnrel' = outUnrel
      BY <1>3, <2>1 DEF SendReliable, NextNumber
    <3>2. outRel' = Num(n, U[L] + 1)
      BY <1>3, <3>1, NumPlus
    <3> QED BY <1>3, <1>4, <2>1, <3>1, <3>2 DEF SendReliable, Sends, Width, One
  <2>2. CASE SendFragmented
    <3>1. Sends("fragmented") /\ outRel' = (Num(n, U[L]) + Fragments) % Modulus /\ outUnrel' = outUnrel
      BY <1>3, <2>2 DEF SendFragmented
    <3>2. outRel' = Num(n, U[L] + Fragments)
      BY <1>3, <2>0, <3>1, NumPlus
    <3> QED BY <1>3, <1>4, <2>2, <3>1, <3>2 DEF SendFragmented, Sends, Width, One
  <2>3. CASE SendUnreliable
    <3>1. Sends("unreliable") /\ outRel' = outRel /\ outUnrel' = (Num(n, V[L]) + 1) % Modulus
      BY <1>3, <2>3 DEF SendUnreliable, NextNumber
    <3>2. outUnrel' = Num(n, V[L] + 1)
      BY <1>3, <3>1, NumPlus
    <3> QED BY <1>3, <1>4, <2>3, <3>1, <3>2 DEF SendUnreliable, Sends, Width, One
  <2>4. CASE SendUnsequenced
    <3>1. Sends("unsequenced") /\ outRel' = outRel /\ outUnrel' = outUnrel
      BY <2>4 DEF SendUnsequenced
    <3> QED BY <1>3, <1>4, <2>4, <3>1 DEF SendUnsequenced, Sends, Width, One
  <2> QED BY <2>1, <2>2, <2>3, <2>4 DEF Send
<1>6. sent' = Append(sent, kind) /\ kind \in Kinds
  BY <1>5 DEF Sends
<1>7. Len(sent') = L + 1 /\ (\A i \in 1..L : sent'[i] = sent[i]) /\ sent'[L + 1] = kind
  BY <1>2, <1>6, AppendProperties
<1>8. PICK X, Y : Numbered(n, X, Y)' /\ \A i \in 0..L : X[i] = U[i] /\ Y[i] = V[i]
  <2>1. outRel' = Num(n, U[L] + Width(kind)) /\ outUnrel' = Num(n, V[L] + One(kind))
    BY <1>5
  <2> QED BY <1>1, <1>6, <2>1, NumberedGrows
<1>9. ASSUME NEW m \in net' PROVE Bears(n, X, Y, m)'
  <2>1. CASE m \in net
    <3>1. Bears(n, U, V, m)
      BY <2>1 DEF Numbering
    <3> QED BY <1>2, <1>7, <1>8, <3>1, BearsStays
  <2>2. ASSUME m.id = L + 1 PROVE m.id \in 1..Len(sent') /\ m.id - 1 = L /\ sent'[m.id] = kind
                                   /\ X[m.id - 1] = U[L] /\ First(X, m.id) = U[L] + 1
    <3>1. m.id \in 1..Len(sent') /\ m.id - 1 = L /\ L \in 0..L
      BY <1>2, <1>7, <2>2
    <3> QED BY <1>7, <1>8, <2>2, <3>1 DEF First
  <2>3. CASE kind = "reliable" /\ m \notin net
    <3>1. m = [Blank EXCEPT !.type = "RELIABLE_DATA", !.seq = outRel'] /\ outRel' \in Numbers
      BY <1>1, <1>5, <2>3 DEF Typed
    <3>2. m.type = "RELIABLE_DATA" /\ m.id = L + 1 /\ m.number = 0 /\ m.seq = outRel'
      BY <1>1, <3>1, SentReliable
    <3>3. outRel' = Num(n, U[L] + 1)
      BY <1>5, <2>3 DEF Width
    <3> QED BY <2>2, <2>3, <3>2, <3>3 DEF Bears
  <2>4. CASE kind = "fragmented" /\ m \notin net
    <3>1. PICK k \in 0..(Fragments - 1) :
            m = [Blank EXCEPT !.type = "DATA_FRAGMENT", !.start = NextNumber(outRel),
                              !.seq = (outRel + 1 + k) % Modulus, !.number = k]
      BY <1>5, <2>4
    <3>2. NextNumber(outRel) \in Numbers /\ (outRel + 1 + k) % Modulus \in Numbers
      <4>1. outRel + 1 \in Int /\ outRel + 1 + k \in Int
        BY <1>1, NumbersAssumption DEF Typed, Numbers
      <4> QED BY <4>1, Modulo DEF NextNumber
    <3>3. m.type = "DATA_FRAGMENT" /\ m.id = L + 1 /\ m.start = NextNumber(outRel)
      <4>1. PICK a \in Numbers, c \in Numbers :
              a = NextNumber(outRel) /\ c = (outRel + 1 + k) % Modulus
        BY <3>2
      <4>2. m = [Blank EXCEPT !.type = "DATA_FRAGMENT", !.start = a, !.seq = c, !.number = k]
        BY <3>1, <4>1
      <4>3. LET x == [Blank EXCEPT !.type = "DATA_FRAGMENT", !.start = a, !.seq = c, !.number = k]
            IN  /\ x \in Message /\ x.type = "DATA_FRAGMENT" /\ x.id = Len(sent) + 1
                /\ x.number = k /\ x.start = a
        <5>1. Typed /\ Len(sent) < MaxSent
          BY <1>1
        <5> QED BY <5>1, SentFragment
      <4>4. m.type = "DATA_FRAGMENT" /\ m.id = L + 1 /\ m.start = a
        BY <4>2, <4>3
      <4> QED BY <4>1, <4>4
    <3>4. NextNumber(outRel) = Num(n, U[L] + 1)
      BY <1>3, NumPlus DEF NextNumber
    <3> QED BY <2>2, <2>4, <3>3, <3>4 DEF Bears
  <2>5. CASE kind = "unreliable" /\ m \notin net
    <3>1. m = [Blank EXCEPT !.type = "UNRELIABLE_DATA", !.seq = outRel, !.useq = outUnrel']
          /\ outRel \in Numbers /\ outUnrel' \in Numbers
      BY <1>1, <1>5, <2>5 DEF Typed
    <3>2. /\ m.type = "UNRELIABLE_DATA" /\ m.id = L + 1 /\ m.number = 0
          /\ m.seq = outRel /\ m.useq = outUnrel'
      <4>1. PICK a \in Numbers, c \in Numbers : a = outRel /\ c = outUnrel'
        BY <3>1
      <4>2. m = [Blank EXCEPT !.type = "UNRELIABLE_DATA", !.seq = a, !.useq = c]
        BY <3>1, <4>1
      <4>3. LET x == [Blank EXCEPT !.type = "UNRELIABLE_DATA", !.seq = a, !.useq = c]
            IN  /\ x \in Message /\ x.type = "UNRELIABLE_DATA" /\ x.id = Len(sent) + 1
                /\ x.number = 0 /\ x.seq = a /\ x.useq = c
        <5>1. Typed /\ Len(sent) < MaxSent
          BY <1>1
        <5> QED BY <5>1, SentUnreliable
      <4> QED BY <4>1, <4>2, <4>3
    <3>3. X[m.id] = U[L] /\ Y[m.id] = V[L] + 1
      <4>1. m.id \in 1..Len(sent') /\ Width(sent'[m.id]) = 0 /\ One(sent'[m.id]) = 1
            /\ m.id - 1 = L /\ X[L] = U[L] /\ Y[L] = V[L]
        <5>1. L \in 0..L
          BY <1>2
        <5> QED BY <1>8, <2>2, <2>5, <3>2, <5>1 DEF Width, One
      <4>2. X[m.id] = X[m.id - 1] + Width(sent'[m.id]) /\ Y[m.id] = Y[m.id - 1] + One(sent'[m.id])
        BY <1>8, <4>1 DEF Numbered
      <4> QED BY <1>4, <4>1, <4>2
    <3>4. outUnrel' = Num(n, V[L] + 1)
      BY <1>5, <2>5 DEF One
    <3> QED BY <1>3, <2>2, <2>5, <3>2, <3>3, <3>4 DEF Bears
  <2>6. CASE kind = "unsequenced" /\ m \notin net
    <3>1. m = [Blank EXCEPT !.group = outGroup'] /\ outGroup' \in Numbers
      BY <1>1, <1>5, <2>6 DEF Typed
    <3>2. m.type = "UNSEQUENCED_DATA" /\ m.id = L + 1 /\ m.number = 0
      BY <1>1, <3>1, SentUnsequenced
    <3> QED BY <2>2, <2>6, <3>2 DEF Bears
  <2> QED BY <1>5, <2>1, <2>3, <2>4, <2>5, <2>6
<1>10. Numbering(n, X, Y)'
  BY <1>1, <1>8, <1>9 DEF Numbering
<1> QED BY <1>8, <1>10

\* Neither an arrival nor a receipt changes the numbers.
LEMMA NumberingStays ==
    ASSUME NEW n, NEW U, NEW V, Numbering(n, U, V), Typed', UNCHANGED sender
    PROVE  Numbering(n, U, V)'
<1>1. outRel' = outRel /\ outUnrel' = outUnrel /\ net' = net /\ sent' = sent
  BY DEF sender
<1>2. NumbersUsed' = NumbersUsed /\ Count("unreliable")' = Count("unreliable")
  BY <1>1 DEF NumbersUsed, Count
<1>3. Numbered(n, U, V)'
  BY <1>1, <1>2 DEF Numbered, Numbering
<1> QED BY <1>1, <1>3 DEF Numbering, Bears

-----------------------------------------------------------------------------
(* One lap of the numbers.                                                 *)

\* The packets sent so far took no number twice.
Lap == NumbersUsed < Modulus

\* The numbers of the packets grow; those of a reliable one are its own.
LEMMA NumbersGrow ==
    ASSUME NEW n, NEW U, NEW V, Numbering(n, U, V)
    PROVE  /\ Len(sent) \in Nat /\ n \in Nat /\ sent \in Seq(Kinds)
           /\ \A i \in 0..Len(sent) : U[i] \in Nat /\ V[i] \in Nat /\ U[i] <= NumbersUsed
           /\ \A i, j \in 0..Len(sent) : i <= j => U[i] <= U[j] /\ V[i] <= V[j]
           /\ \A j \in 1..Len(sent) : U[j] = U[j - 1] + Width(sent[j]) /\ First(U, j) \in Nat
           /\ \A j \in 1..Len(sent) : sent[j] \in Ordered => First(U, j) <= U[j]
           /\ \A i \in 0..Len(sent), j \in 1..Len(sent) :
                i < j /\ sent[j] \in Ordered => U[i] < U[j]
<1>1. Typed /\ Numbered(n, U, V)
  BY DEF Numbering
<1>2. Len(sent) \in Nat /\ sent \in Seq(Kinds)
  BY <1>1, LenProperties DEF Typed
<1>3. n \in Nat
  BY <1>1, NumbersAssumption DEF Numbered, Numbers
<1>4. ASSUME NEW i \in 0..Len(sent)
      PROVE  U[i] \in Nat /\ V[i] \in Nat /\ U[i] <= NumbersUsed
  <2>1. i \in Nat /\ i <= Len(sent) /\ Len(sent) \in 0..Len(sent)
    BY <1>2
  <2>2. U[i] \in Nat /\ V[i] \in Nat
    BY <1>1, <2>1 DEF Numbered
  <2>3. U[i] <= U[Len(sent)] /\ U[Len(sent)] = NumbersUsed
    BY <1>1, <2>1 DEF Numbered
  <2> QED BY <2>2, <2>3
<1>5. \A i, j \in 0..Len(sent) : i <= j => U[i] <= U[j] /\ V[i] <= V[j]
  BY <1>1 DEF Numbered
<1>6. ASSUME NEW j \in 1..Len(sent)
      PROVE  /\ U[j] = U[j - 1] + Width(sent[j]) /\ First(U, j) \in Nat
             /\ j - 1 \in 0..Len(sent)
             /\ sent[j] \in Ordered => First(U, j) <= U[j] /\ U[j - 1] < U[j]
  <2>1. j - 1 \in 0..Len(sent)
    BY <1>2
  <2>2. U[j] = U[j - 1] + Width(sent[j])
    BY <1>1 DEF Numbered
  <2>3. U[j - 1] \in Nat
    BY <1>4, <2>1
  <2>4. Width(sent[j]) \in Nat /\ (sent[j] \in Ordered => Width(sent[j]) >= 1)
    BY WidthRange
  <2> QED BY <2>1, <2>2, <2>3, <2>4 DEF First
<1>7. ASSUME NEW i \in 0..Len(sent), NEW j \in 1..Len(sent), i < j, sent[j] \in Ordered
      PROVE  U[i] < U[j]
  <2>1. i <= j - 1 /\ j - 1 \in 0..Len(sent)
    BY <1>2, <1>7
  <2>2. U[i] <= U[j - 1]
    BY <1>5, <2>1
  <2>3. U[j - 1] < U[j]
    BY <1>6, <1>7
  <2>4. U[i] \in Nat /\ U[j - 1] \in Nat /\ j \in 0..Len(sent)
    BY <1>2, <1>4, <2>1
  <2>5. U[j] \in Nat
    BY <1>4, <2>4
  <2> QED BY <2>2, <2>3, <2>4, <2>5
<1> QED BY <1>2, <1>3, <1>4, <1>5, <1>6, <1>7

\* In a lap the first number of a reliable packet tells which one it is.
LEMMA FirstUnique ==
    ASSUME NEW n, NEW U, NEW V, Numbering(n, U, V), Lap,
           NEW i \in 1..Len(sent), NEW j \in 1..Len(sent),
           sent[i] \in Ordered, sent[j] \in Ordered, Num(n, First(U, i)) = Num(n, First(U, j))
    PROVE  i = j
<1>1. /\ Len(sent) \in Nat /\ n \in Nat
      /\ First(U, i) \in Nat /\ First(U, i) <= U[i] /\ First(U, j) \in Nat /\ First(U, j) <= U[j]
  BY NumbersGrow
<1>2. i \in 0..Len(sent) /\ j \in 0..Len(sent) /\ i - 1 \in 0..Len(sent) /\ j - 1 \in 0..Len(sent)
  BY <1>1
<1>3. /\ U[i] \in Nat /\ U[i] <= NumbersUsed /\ U[j] \in Nat /\ U[j] <= NumbersUsed
      /\ U[i - 1] \in Nat /\ U[j - 1] \in Nat
  BY <1>2, NumbersGrow
<1>4. NumbersUsed \in Int /\ NumbersUsed < Modulus /\ Modulus \in Nat
  <2>1. U[Len(sent)] = NumbersUsed /\ Len(sent) \in 0..Len(sent)
    BY <1>1 DEF Numbering, Numbered
  <2>2. U[Len(sent)] \in Nat
    BY <2>1, NumbersGrow
  <2> QED BY <2>1, <2>2, NumbersAssumption DEF Lap
<1>5. First(U, i) - First(U, j) < Modulus /\ First(U, j) - First(U, i) < Modulus
  <2>1. First(U, i) <= NumbersUsed /\ First(U, j) <= NumbersUsed
    BY <1>1, <1>3, <1>4
  <2>2. \A a, b \in Nat, c, d \in Int : a <= c /\ b <= c /\ c < d => a - b < d /\ b - a < d
    OBVIOUS
  <2> QED BY <1>1, <1>4, <2>1, <2>2
<1>6. First(U, i) = First(U, j)
  BY <1>1, <1>5, SameNumber
<1>7. U[i - 1] = U[j - 1]
  BY <1>3, <1>6 DEF First
<1>8. ~(i < j)
  <2>1. ASSUME i < j PROVE FALSE
    <3>1. i <= j - 1
      BY <1>1, <2>1
    <3>2. U[i] <= U[j - 1]
      BY <1>2, <3>1, NumbersGrow
    <3>3. i - 1 < i /\ i \in Int
      BY <1>1
    <3>4. U[i - 1] < U[i]
      BY <1>2, <3>3, NumbersGrow
    <3> QED BY <1>3, <1>7, <3>2, <3>4
  <2> QED BY <2>1
<1>9. ~(j < i)
  <2>1. ASSUME j < i PROVE FALSE
    <3>1. j <= i - 1
      BY <1>1, <2>1
    <3>2. U[j] <= U[i - 1]
      BY <1>2, <3>1, NumbersGrow
    <3>3. j - 1 < j /\ j \in Int
      BY <1>1
    <3>4. U[j - 1] < U[j]
      BY <1>2, <3>3, NumbersGrow
    <3> QED BY <1>3, <1>7, <3>2, <3>4
  <2> QED BY <2>1
<1> QED BY <1>1, <1>8, <1>9

\* The message e of the queue of reliable packets is what came of its packet.
Sits(n, U, e) ==
    /\ e.id \in 1..Len(sent) /\ e.rel = Num(n, First(U, e.id))
    /\ \/ e.type = "RELIABLE_DATA" /\ sent[e.id] = "reliable" /\ e.parts = {<<e.id, 0>>}
       \/ e.type = "DATA_FRAGMENT" /\ sent[e.id] = "fragmented" /\ e.parts = {e.id} \X e.bits

\* So is the message e of the other queue.
Waits(n, U, V, e) ==
    /\ e.id \in 1..Len(sent) /\ e.parts = {<<e.id, 0>>}
    /\ \/ /\ e.type = "UNRELIABLE_DATA" /\ sent[e.id] = "unreliable"
          /\ e.rel = Num(n, U[e.id]) /\ e.unrel = Num(n, V[e.id])
       \/ e.type = "UNSEQUENCED_DATA" /\ sent[e.id] = "unsequenced"

\* What was received is in the place where it was sent, and the reliable packets that were
\* are those up to r.
GotInPlace(n, U, r) ==
    /\ r \in 0..Len(sent) /\ inRel = Num(n, U[r])
    /\ \A j \in DOMAIN got : got[j].id \in 1..Len(sent)
    /\ PacketsAreWhole /\ ReliableInOrder
    /\ \A i \in 1..Len(sent) : sent[i] \in Ordered => (Received(i) <=> i <= r)
    /\ \A j \in DOMAIN got : sent[got[j].id] = "unreliable" => U[got[j].id] <= U[r]
    /\ \A i, j \in DOMAIN got :
         sent[got[i].id] = "unreliable" /\ sent[got[j].id] \in Ordered
         => (i < j <=> got[i].id < got[j].id)

InPlace(n, U, V, r) ==
    /\ \A i \in DOMAIN relQ : Sits(n, U, relQ[i])
    /\ \A i \in DOMAIN unrelQ : Waits(n, U, V, unrelQ[i])
    /\ GotInPlace(n, U, r)

\* A message that is inserted is in the queue with the others.
LEMMA InsertedAmong ==
    ASSUME NEW q, Queue(q), NEW e, Entry(e), NEW p \in 0..Len(q),
           NEW k \in DOMAIN InsertAt(q, p + 1, e)
    PROVE  LET t == InsertAt(q, p + 1, e)
           IN  \/ k = p + 1 /\ t[k] = e
               \/ k <= p /\ k \in DOMAIN q /\ t[k] = q[k]
               \/ k > p + 1 /\ k - 1 \in DOMAIN q /\ t[k] = q[k - 1]
<1> DEFINE t == InsertAt(q, p + 1, e)
<1>1. q \in Seq(Incoming) /\ e \in Incoming
  BY DEF Queue, Entry
<1>2. t \in Seq(Incoming) /\ Len(t) = Len(q) + 1
      /\ \A i \in 1..(Len(q) + 1) :
           t[i] = IF i <= p THEN q[i] ELSE IF i = p + 1 THEN e ELSE q[i - 1]
  <2>1. t \in Seq(Incoming) /\ WithInserted(t, q, p, e)
    BY <1>1, Inserted, Zenon
  <2> HIDE DEF t
  <2> QED BY <2>1 DEF WithInserted
<1>3. k \in 1..(Len(q) + 1) /\ Len(q) \in Nat /\ DOMAIN q = 1..Len(q)
  BY <1>1, <1>2, LenProperties
<1> HIDE DEF t
<1>4. CASE k <= p
  <2>1. k \in DOMAIN q
    BY <1>3, <1>4
  <2> QED BY <1>2, <1>3, <1>4, <2>1 DEF t
<1>5. CASE k = p + 1
  <2>1. ~(k <= p)
    BY <1>5
  <2> QED BY <1>2, <1>3, <1>5, <2>1 DEF t
<1>6. CASE k > p + 1
  <2>1. k - 1 \in DOMAIN q /\ ~(k <= p) /\ k # p + 1
    BY <1>3, <1>6
  <2> QED BY <1>2, <1>3, <1>6, <2>1 DEF t
<1> QED BY <1>3, <1>4, <1>5, <1>6

\* The places stay when another packet is sent.
LEMMA InPlaceSend ==
    ASSUME NEW n, NEW U, NEW V, NEW r, NEW X, NEW Y, Numbering(n, U, V), Numbering(n, X, Y)', Send,
           \A i \in 0..Len(sent) : X[i] = U[i] /\ Y[i] = V[i]
    PROVE  /\ NumbersUsed' >= NumbersUsed
           /\ InPlace(n, U, V, r) => InPlace(n, X, Y, r)'
<1> DEFINE L == Len(sent)
<1>1. PICK kind \in Kinds : Sends(kind)
  BY DEF Send, SendReliable, SendFragmented, SendUnreliable, SendUnsequenced, Sends
<1>2. sent' = Append(sent, kind)
      /\ UNCHANGED <<inRel, inUnrel, inGroup, window, relQ, unrelQ, result, got>>
  BY <1>1 DEF Sends
<1>3. L \in Nat /\ sent \in Seq(Kinds)
  BY NumbersGrow
<1>4. Len(sent') = L + 1 /\ (\A i \in 1..L : sent'[i] = sent[i])
  BY <1>2, <1>3, AppendProperties
<1>5. \A i \in 1..L : i \in 1..Len(sent') /\ i \in 0..L /\ i - 1 \in 0..L
  BY <1>3, <1>4
<1>6. NumbersUsed' >= NumbersUsed
  <2>1. X[L] <= NumbersUsed'
    <3>1. L \in 0..Len(sent')
      BY <1>3, <1>4
    <3>2. Numbered(n, X, Y)' /\ Len(sent') \in 0..Len(sent') /\ L <= Len(sent')
      BY <1>3, <1>4 DEF Numbering
    <3> QED BY <3>1, <3>2 DEF Numbered
  <2>2. U[L] = NumbersUsed /\ U[L] \in Nat /\ L \in 0..L
    BY <1>3, NumbersGrow DEF Numbering, Numbered
  <2>3. NumbersUsed' \in Nat
    BY <1>3, <1>4 DEF Numbering, Numbered
  <2> QED BY <2>1, <2>2, <2>3
<1>7. ASSUME InPlace(n, U, V, r) PROVE InPlace(n, X, Y, r)'
  <2>1. \A i \in DOMAIN relQ : Sits(n, U, relQ[i])
    BY <1>7 DEF InPlace
  <2>2. \A i \in DOMAIN unrelQ : Waits(n, U, V, unrelQ[i])
    BY <1>7 DEF InPlace
  <2>3. GotInPlace(n, U, r)
    BY <1>7 DEF InPlace
  <2>4. ASSUME NEW e, Sits(n, U, e) PROVE Sits(n, X, e)'
    <3>1. e.id \in 1..L
      BY <2>4 DEF Sits
    <3>2. e.id \in 1..Len(sent') /\ sent'[e.id] = sent[e.id] /\ X[e.id - 1] = U[e.id - 1]
      BY <1>4, <1>5, <3>1
    <3> QED BY <2>4, <3>2 DEF Sits, First
  <2>5. ASSUME NEW e, Waits(n, U, V, e) PROVE Waits(n, X, Y, e)'
    <3>1. e.id \in 1..L
      BY <2>5 DEF Waits
    <3>2. e.id \in 1..Len(sent') /\ sent'[e.id] = sent[e.id] /\ X[e.id] = U[e.id] /\ Y[e.id] = V[e.id]
      BY <1>4, <1>5, <3>1
    <3> QED BY <2>5, <3>2 DEF Waits
  <2>6. r \in 0..L /\ r \in 0..Len(sent') /\ X[r] = U[r]
    BY <1>3, <1>4, <2>3 DEF GotInPlace
  <2>7. \A j \in DOMAIN got : /\ got[j].id \in 1..L /\ got[j].id \in 1..Len(sent')
                              /\ sent'[got[j].id] = sent[got[j].id] /\ X[got[j].id] = U[got[j].id]
    BY <1>4, <1>5, <2>3 DEF GotInPlace
  <2>8. \A i : Received(i)' <=> Received(i)
    BY <1>2 DEF Received
  <2>9. PacketsAreWhole'
    <3>1. PacketsAreWhole
      BY <2>3 DEF GotInPlace
    <3> QED BY <1>2, <2>7, <3>1 DEF PacketsAreWhole
  <2>10. ReliableInOrder'
    <3>1. ReliableInOrder
      BY <2>3 DEF GotInPlace
    <3>2. SUFFICES ASSUME NEW j \in DOMAIN got, sent'[got[j].id] \in Ordered
                   PROVE  /\ \A i \in 1..(j - 1) : sent'[got[i].id] \in Ordered => got[i].id < got[j].id
                          /\ \A i \in 1..(got[j].id - 1) : sent'[i] \in Ordered => Received(i)
      BY <1>2, <2>8 DEF ReliableInOrder
    <3>3. sent[got[j].id] \in Ordered
      BY <2>7, <3>2
    <3>4. ASSUME NEW i \in 1..(j - 1), sent'[got[i].id] \in Ordered PROVE got[i].id < got[j].id
      <4>1. i \in DOMAIN got
        <5>1. DOMAIN got = 1..Len(got) /\ Len(got) \in Nat
          BY LenProperties DEF Numbering, Typed
        <5> QED BY <5>1
      <4> QED BY <2>7, <3>1, <3>3, <3>4, <4>1 DEF ReliableInOrder
    <3>5. ASSUME NEW i \in 1..(got[j].id - 1), sent'[i] \in Ordered PROVE Received(i)
      <4>1. i \in 1..L
        BY <1>3, <2>7
      <4> QED BY <1>4, <3>1, <3>3, <3>5, <4>1 DEF ReliableInOrder
    <3> QED BY <3>4, <3>5
  <2>11. ASSUME NEW i \in 1..Len(sent'), sent'[i] \in Ordered PROVE Received(i) <=> i <= r
    <3>1. CASE i \in 1..L
      BY <1>4, <2>3, <2>11, <3>1 DEF GotInPlace
    <3>2. CASE i = L + 1
      <4>1. ~(i <= r) /\ i \notin 1..L
        BY <1>3, <2>6, <3>2
      <4> QED BY <2>7, <4>1 DEF Received
    <3> QED BY <1>3, <1>4, <3>1, <3>2
  <2>12. \A j \in DOMAIN got : sent'[got[j].id] = "unreliable" => X[got[j].id] <= X[r]
    BY <2>3, <2>6, <2>7 DEF GotInPlace
  <2>13. \A i, j \in DOMAIN got :
           sent'[got[i].id] = "unreliable" /\ sent'[got[j].id] \in Ordered
           => (i < j <=> got[i].id < got[j].id)
    BY <2>3, <2>7 DEF GotInPlace
  <2>14. inRel' = Num(n, X[r])
    BY <1>2, <2>3, <2>6 DEF GotInPlace
  <2>15. GotInPlace(n, X, r)'
    BY <1>2, <2>6, <2>7, <2>8, <2>9, <2>10, <2>11, <2>12, <2>13, <2>14 DEF GotInPlace
  <2> QED BY <1>2, <2>1, <2>2, <2>4, <2>5, <2>15 DEF InPlace
<1> QED BY <1>6, <1>7

\* What a copied fragment changes of the packet it belongs to.
LEMMA CopiedFields ==
    ASSUME NEW e \in Incoming, NEW m \in Message
    PROVE  LET c == Copied(e, m)
           IN  /\ c.type = e.type /\ c.id = e.id /\ c.rel = e.rel
               /\ c.bits = e.bits \union {m.number}
               /\ c = e \/ c.parts = e.parts \union {<<m.id, m.number>>}
<1>1. CASE m.number \in e.bits
  BY <1>1 DEF Copied
<1>2. CASE m.number \notin e.bits
  <2> DEFINE c == [e EXCEPT !.remaining = @ - 1, !.bits = @ \union {m.number},
                            !.parts = @ \union {<<m.id, m.number>>}]
  <2>1. Copied(e, m) = c
    BY <1>2 DEF Copied
  <2>2. /\ c.type = e.type /\ c.id = e.id /\ c.rel = e.rel
        /\ c.bits = e.bits \union {m.number}
        /\ c.parts = e.parts \union {<<m.id, m.number>>}
    BY DEF Incoming
  <2> HIDE DEF c
  <2> QED BY <2>1, <2>2
<1> QED BY <1>1, <1>2

\* A message of the same packet makes it no less what it is.
LEMMA CopiedSits ==
    ASSUME NEW n, NEW U, NEW e \in Incoming, Sits(n, U, e), e.type = "DATA_FRAGMENT",
           NEW m \in Message, m.id = e.id
    PROVE  Sits(n, U, Copied(e, m))
<1> DEFINE c == Copied(e, m)
<1>1. /\ c.type = e.type /\ c.id = e.id /\ c.rel = e.rel
      /\ c.bits = e.bits \union {m.number}
      /\ c = e \/ c.parts = e.parts \union {<<m.id, m.number>>}
  BY CopiedFields
<1>2. e.parts = {e.id} \X e.bits
  BY DEF Sits
<1> HIDE DEF c
<1>3. CASE c = e
  BY <1>3 DEF c
<1>4. CASE c.parts = e.parts \union {<<m.id, m.number>>}
  <2>1. c.parts = {c.id} \X c.bits
    BY <1>1, <1>2, <1>4
  <2>2. Sits(n, U, c)
    BY <1>1, <2>1 DEF Sits
  <2> QED BY <2>2 DEF c
<1> QED BY <1>1, <1>3, <1>4

\* The messages that come into a queue are what came of their packets.
LEMMA IncameSits ==
    ASSUME NEW n, NEW U, NEW V, NEW m \in Message, Bears(n, U, V, m)
    PROVE  /\ m.type = "RELIABLE_DATA" => Sits(n, U, Incame(m, m.seq))
           /\ m.type = "DATA_FRAGMENT" => Sits(n, U, Copied(FirstOf(m), m))
           /\ m.type \in {"UNRELIABLE_DATA", "UNSEQUENCED_DATA"} => Waits(n, U, V, Incame(m, m.seq))
<1>1. m.start \in Numbers /\ m.seq \in Numbers
  BY DEF Message
<1>2. /\ Incame(m, m.seq).id = m.id /\ Incame(m, m.seq).rel = m.seq
      /\ Incame(m, m.seq).type = m.type /\ Incame(m, m.seq).unrel = m.useq
      /\ Incame(m, m.seq).parts = {<<m.id, m.number>>}
  BY DEF Incame
<1>3. m.type = "RELIABLE_DATA" => Sits(n, U, Incame(m, m.seq))
  BY <1>2 DEF Sits, Bears
<1>4. m.type \in {"UNRELIABLE_DATA", "UNSEQUENCED_DATA"} => Waits(n, U, V, Incame(m, m.seq))
  BY <1>2 DEF Waits, Bears
<1>5. ASSUME m.type = "DATA_FRAGMENT" PROVE Sits(n, U, Copied(FirstOf(m), m))
  <2> DEFINE a == Incame(m, m.start)
             f == FirstOf(m)
  <2>1. a \in Incoming /\ a.type = m.type
    BY <1>1, IncameEntry
  <2>2. a.id = m.id /\ a.rel = m.start /\ a.bits = {}
    BY DEF Incame
  <2>3. f = [a EXCEPT !.remaining = Fragments, !.parts = {}]
    BY DEF FirstOf
  <2>4. f \in Incoming
    BY <1>1, FirstEntry DEF Entry, FirstOf
  <2> HIDE DEF a, f
  <2>5. f.id = m.id /\ f.rel = m.start /\ f.bits = {} /\ f.parts = {} /\ f.type = m.type
    BY <2>1, <2>2, <2>3 DEF Incoming
  <2>6. {} = {f.id} \X {}
    OBVIOUS
  <2>7. Sits(n, U, f)
    BY <1>5, <2>5, <2>6 DEF Sits, Bears
  <2>8. Sits(n, U, Copied(f, m))
    BY <1>5, <2>4, <2>5, <2>7, CopiedSits
  <2> QED BY <2>8 DEF f
<1> QED BY <1>3, <1>4, <1>5

\* The places stay when a message arrives.
LEMMA InPlaceHandle ==
    ASSUME NEW n, NEW U, NEW V, NEW r, Numbering(n, U, V), Lap, InPlace(n, U, V, r),
           NEW m \in net, Handle(m)
    PROVE  InPlace(n, U, V, r)'
<1>0. Typed /\ m \in Message /\ Bears(n, U, V, m)
  BY DEF Numbering, Typed
<1>1. UNCHANGED sender /\ UNCHANGED <<inRel, inUnrel, got>>
  BY DEF Handle, OnReliable, OnUnreliable, OnUnsequenced, OnFragment, Arrives
<1>2. sent' = sent /\ got' = got /\ inRel' = inRel
  BY <1>1 DEF sender
<1>3. GotInPlace(n, U, r)'
  BY <1>2 DEF InPlace, GotInPlace, PacketsAreWhole, ReliableInOrder, Received
<1>4. /\ \A i \in DOMAIN relQ : Sits(n, U, relQ[i])
      /\ \A i \in DOMAIN unrelQ : Waits(n, U, V, unrelQ[i])
  BY DEF InPlace
<1>5. Queue(relQ) /\ Queue(unrelQ) /\ m.seq \in Numbers /\ m.start \in Numbers
  BY <1>0 DEF Typed, Message
<1>6. ASSUME NEW e, Entry(e), Sits(n, U, e), QueueReliable(e)
      PROVE  \A i \in DOMAIN relQ' : Sits(n, U, relQ'[i])
  <2>1. PICK p \in 0..Len(relQ) : relQ' = InsertAt(relQ, p + 1, e)
    BY <1>0, <1>6, SearchedPlaces DEF QueueReliable
  <2> QED BY <1>4, <1>5, <1>6, <2>1, InsertedAmong
<1>7. ASSUME NEW e, Entry(e), Waits(n, U, V, e), NEW p \in 0..Len(unrelQ),
             unrelQ' = InsertAt(unrelQ, p + 1, e)
      PROVE  \A i \in DOMAIN unrelQ' : Waits(n, U, V, unrelQ'[i])
  <2>1. SUFFICES ASSUME NEW i \in DOMAIN InsertAt(unrelQ, p + 1, e)
                 PROVE  Waits(n, U, V, InsertAt(unrelQ, p + 1, e)[i])
    BY <1>7
  <2> QED BY <1>4, <1>5, <1>7, InsertedAmong
<1>8. /\ \A i \in DOMAIN relQ' : Sits(n, U, relQ'[i])
      /\ \A i \in DOMAIN unrelQ' : Waits(n, U, V, unrelQ'[i])
  <2>1. CASE OnReliable(m)
    <3>1. m.type = "RELIABLE_DATA" /\ unrelQ' = unrelQ
          /\ (relQ' = relQ \/ QueueReliable(Incame(m, m.seq)))
      BY <2>1 DEF OnReliable, Arrives
    <3>2. Entry(Incame(m, m.seq)) /\ Sits(n, U, Incame(m, m.seq))
      BY <1>0, <1>5, <3>1, IncameEntry, IncameSits
    <3> QED BY <1>4, <1>6, <3>1, <3>2
  <2>2. CASE OnUnreliable(m)
    <3>1. m.type = "UNRELIABLE_DATA" /\ relQ' = relQ
          /\ (unrelQ' = unrelQ \/ QueueUnreliable(Incame(m, m.seq)))
      BY <2>2 DEF OnUnreliable, Arrives
    <3>2. Entry(Incame(m, m.seq)) /\ Waits(n, U, V, Incame(m, m.seq))
      BY <1>0, <1>5, <3>1, IncameEntry, IncameSits
    <3>3. ASSUME QueueUnreliable(Incame(m, m.seq))
          PROVE  \E p \in 0..Len(unrelQ) : unrelQ' = InsertAt(unrelQ, p + 1, Incame(m, m.seq))
      BY <1>0, <3>3, SearchedPlaces DEF QueueUnreliable
    <3> QED BY <1>4, <1>7, <3>1, <3>2, <3>3
  <2>3. CASE OnUnsequenced(m)
    <3>1. m.type = "UNSEQUENCED_DATA" /\ relQ' = relQ
          /\ (unrelQ' = unrelQ \/ unrelQ' = <<Incame(m, m.seq)>> \o unrelQ)
      BY <2>3 DEF OnUnsequenced, Arrives
    <3>2. Entry(Incame(m, m.seq)) /\ Waits(n, U, V, Incame(m, m.seq))
      BY <1>0, <1>5, <3>1, IncameEntry, IncameSits
    <3>3. <<Incame(m, m.seq)>> \o unrelQ = InsertAt(unrelQ, 0 + 1, Incame(m, m.seq))
      BY <1>5, <3>2, FrontInserted DEF Queue, Entry
    <3>4. 0 \in 0..Len(unrelQ)
      BY <1>0, SearchedPlaces
    <3> QED BY <1>4, <1>7, <3>1, <3>2, <3>3, <3>4
  <2>4. CASE OnFragment(m)
    <3>1. m.type = "DATA_FRAGMENT" /\ unrelQ' = unrelQ
      BY <2>4, FragmentIs DEF Arrives
    <3>2. Entry(Copied(FirstOf(m), m)) /\ Sits(n, U, Copied(FirstOf(m), m))
      BY <1>0, <1>5, <3>1, FirstEntry, CopiedEntry, IncameSits DEF FirstOf
    <3>3. ASSUME MatesOf(m) # {}, relQ' = [relQ EXCEPT ![MateOf(m)] = Copied(@, m)]
          PROVE  \A i \in DOMAIN relQ' : Sits(n, U, relQ'[i])
      <4>1. PICK k \in DOMAIN relQ :
              k = MateOf(m) /\ relQ[k].type = "DATA_FRAGMENT" /\ relQ[k].rel = m.start
        BY <1>0, <3>3, MateFound DEF MatesOf
      <4>2. Sits(n, U, relQ[k]) /\ Entry(relQ[k]) /\ relQ[k] \in Incoming
        BY <1>4, <1>5 DEF Queue, Entry
      <4>3. relQ[k].id = m.id
        <5>1. relQ[k].id \in 1..Len(sent) /\ sent[relQ[k].id] = "fragmented"
              /\ relQ[k].rel = Num(n, First(U, relQ[k].id))
          BY <4>1, <4>2 DEF Sits
        <5>2. m.id \in 1..Len(sent) /\ sent[m.id] = "fragmented" /\ m.start = Num(n, First(U, m.id))
          BY <1>0, <3>1 DEF Bears
        <5>3. "fragmented" \in Ordered
          BY DEF Ordered
        <5> QED BY <4>1, <5>1, <5>2, <5>3, FirstUnique
      <4>4. Sits(n, U, Copied(relQ[k], m)) /\ Entry(Copied(relQ[k], m))
        BY <1>0, <4>1, <4>2, <4>3, CopiedSits, CopiedEntry
      <4>5. relQ' = [relQ EXCEPT ![k] = Copied(relQ[k], m)]
        BY <3>3, <4>1
      <4> QED BY <1>4, <1>5, <4>4, <4>5, QueueChanges
    <3> QED BY <1>4, <1>6, <2>4, <3>1, <3>2, <3>3, FragmentIs
  <2> QED BY <2>1, <2>2, <2>3, <2>4 DEF Handle
<1> QED BY <1>2, <1>3, <1>8 DEF InPlace, Sits, Waits

\* What is received goes behind what was received before.
LEMMA GotGrows ==
    ASSUME Typed, NEW g, got' = Append(got, g)
    PROVE  /\ Len(got) \in Nat /\ DOMAIN got = 1..Len(got) /\ DOMAIN got' = 1..(Len(got) + 1)
           /\ \A i \in DOMAIN got : i \in DOMAIN got' /\ got'[i] = got[i] /\ i < Len(got) + 1
           /\ got'[Len(got) + 1] = g
           /\ \A i : Received(i)' <=> Received(i) \/ i = g.id
<1>1. got \in Seq([id : Ids, parts : SUBSET Parts])
  BY DEF Typed
<1>2. Len(got) \in Nat /\ DOMAIN got = 1..Len(got)
  BY <1>1, LenProperties
<1>3. DOMAIN got' = 1..(Len(got) + 1) /\ (\A i \in 1..Len(got) : got'[i] = got[i])
      /\ got'[Len(got) + 1] = g
  BY <1>1, <1>2
<1>4. \A i \in DOMAIN got : i \in DOMAIN got' /\ got'[i] = got[i] /\ i < Len(got) + 1
  BY <1>2, <1>3
<1>5. \A k \in DOMAIN got' : k \in DOMAIN got \/ k = Len(got) + 1
  BY <1>2, <1>3
<1>6. Len(got) + 1 \in DOMAIN got'
  BY <1>2, <1>3
<1>7. ASSUME NEW i PROVE Received(i)' <=> Received(i) \/ i = g.id
  BY <1>3, <1>4, <1>5, <1>6 DEF Received
<1> QED BY <1>2, <1>3, <1>4, <1>7

\* In a lap, a place among the numbers is told by the number.
LEMMA SamePlace ==
    ASSUME NEW n, NEW U, NEW V, Numbering(n, U, V), Lap,
           NEW x \in Nat, NEW y \in Nat, x <= NumbersUsed + 1, y <= NumbersUsed + 1,
           x > 0 \/ y <= NumbersUsed, y > 0 \/ x <= NumbersUsed, Num(n, x) = Num(n, y)
    PROVE  x = y
<1>1. n \in Nat /\ NumbersUsed \in Nat /\ Modulus \in Nat
  <2>1. U[Len(sent)] = NumbersUsed /\ Len(sent) \in 0..Len(sent)
    BY NumbersGrow DEF Numbering, Numbered
  <2>2. U[Len(sent)] \in Nat
    BY <2>1, NumbersGrow
  <2> QED BY <2>1, <2>2, NumbersAssumption, NumbersGrow
<1>2. x - y < Modulus /\ y - x < Modulus
  BY <1>1 DEF Lap
<1> QED BY <1>1, <1>2, SameNumber

\* The place of the reliable packets stays when an unreliable one is received.
LEMMA InPlaceUnreliable ==
    ASSUME NEW n, NEW U, NEW V, NEW r, Numbering(n, U, V), Lap, InPlace(n, U, V, r),
           ReceiveUnreliable
    PROVE  InPlace(n, U, V, r)'
<1> DEFINE e == Head(unrelQ)
           g == [id |-> e.id, parts |-> e.parts]
<1>1. Typed /\ GotInPlace(n, U, r) /\ Queue(unrelQ)
      /\ \A i \in DOMAIN relQ : Sits(n, U, relQ[i])
  BY DEF Numbering, InPlace, Typed
<1>a. \A i \in DOMAIN unrelQ : Waits(n, U, V, unrelQ[i])
  BY DEF InPlace
<1>2. /\ unrelQ # <<>> /\ (e.type = "UNRELIABLE_DATA" => e.rel = inRel)
      /\ unrelQ' = Tail(unrelQ) /\ got' = Append(got, g)
      /\ sent' = sent /\ inRel' = inRel /\ relQ' = relQ
  BY DEF ReceiveUnreliable, UnreliableReady, sender
<1>3. /\ e = unrelQ[1] /\ 1 \in DOMAIN unrelQ
      /\ \A i \in DOMAIN unrelQ' : i + 1 \in DOMAIN unrelQ /\ unrelQ'[i] = unrelQ[i + 1]
  <2>1. DOMAIN unrelQ = 1..Len(unrelQ) /\ Len(unrelQ) \in Nat /\ Len(unrelQ) # 0
    BY <1>1, <1>2, LenProperties, EmptySeq DEF Queue
  <2> QED BY <1>1, <1>2, <2>1, QueueShrinks
<1> HIDE DEF e
<1>4. Waits(n, U, V, e)
  <2>1. Waits(n, U, V, unrelQ[1])
    BY <1>a, <1>3
  <2> QED BY <1>3, <2>1
<1>5. ASSUME NEW i \in DOMAIN unrelQ' PROVE Waits(n, U, V, unrelQ'[i])
  <2>1. i + 1 \in DOMAIN unrelQ /\ unrelQ'[i] = unrelQ[i + 1]
    BY <1>3
  <2>2. Waits(n, U, V, unrelQ[i + 1])
    BY <1>a, <2>1
  <2> QED BY <2>1, <2>2
<1>6. g.id = e.id /\ g.parts = e.parts /\ e.id \in 1..Len(sent) /\ e.parts = {<<e.id, 0>>}
      /\ sent[e.id] \in {"unreliable", "unsequenced"} /\ sent[e.id] \notin Ordered
  BY <1>4 DEF Waits, Ordered
<1> HIDE DEF g
<1> DEFINE L == Len(got)
<1>7. /\ L \in Nat /\ DOMAIN got = 1..L /\ DOMAIN got' = 1..(L + 1)
      /\ \A i \in DOMAIN got : i \in DOMAIN got' /\ got'[i] = got[i] /\ i < L + 1
      /\ got'[L + 1] = g
      /\ \A i : Received(i)' <=> Received(i) \/ i = e.id
  BY <1>1, <1>2, <1>6, GotGrows
<1>8. \A k \in DOMAIN got' : k \in DOMAIN got \/ k = L + 1
  BY <1>7
<1>9. \A j \in DOMAIN got' : got'[j].id \in 1..Len(sent)
  BY <1>1, <1>6, <1>7, <1>8 DEF GotInPlace
<1>10. PacketsAreWhole'
  <2>1. PacketsAreWhole
    BY <1>1 DEF GotInPlace
  <2>2. {<<e.id, 0>>} = {e.id} \X {0}
    OBVIOUS
  <2>3. sent[e.id] # "fragmented"
    BY <1>6
  <2>4. g.parts = {g.id} \X (IF sent[g.id] = "fragmented" THEN 0..(Fragments - 1) ELSE {0})
    BY <1>6, <2>2, <2>3
  <2> QED BY <1>2, <1>7, <1>8, <2>1, <2>4 DEF PacketsAreWhole
<1>11. ReliableInOrder'
  <2>1. ReliableInOrder
    BY <1>1 DEF GotInPlace
  <2>2. SUFFICES ASSUME NEW j \in DOMAIN got', sent[got'[j].id] \in Ordered
                 PROVE  /\ \A i \in 1..(j - 1) : sent[got'[i].id] \in Ordered => got'[i].id < got'[j].id
                        /\ \A i \in 1..(got'[j].id - 1) : sent[i] \in Ordered => Received(i)'
    BY <1>2 DEF ReliableInOrder
  <2>3. j \in DOMAIN got /\ got'[j] = got[j]
    BY <1>6, <1>7, <1>8, <2>2
  <2>4. \A i \in 1..(j - 1) : i \in DOMAIN got /\ got'[i] = got[i]
    BY <1>7, <2>3
  <2> QED BY <1>7, <2>1, <2>2, <2>3, <2>4 DEF ReliableInOrder
<1>12. \A i \in 1..Len(sent) : sent[i] \in Ordered => (Received(i)' <=> i <= r)
  BY <1>1, <1>6, <1>7 DEF GotInPlace
<1>13. r \in 0..Len(sent) /\ inRel = Num(n, U[r])
  BY <1>1 DEF GotInPlace
<1>14. ASSUME sent[e.id] = "unreliable" PROVE U[e.id] = U[r]
  <2>1. e.rel = Num(n, U[e.id]) /\ e.rel = Num(n, U[r])
    BY <1>2, <1>4, <1>13, <1>14 DEF Waits
  <2>2. e.id \in 0..Len(sent)
    BY <1>6
  <2>3. /\ U[e.id] \in Nat /\ U[r] \in Nat /\ U[e.id] <= NumbersUsed /\ U[r] <= NumbersUsed
        /\ Len(sent) \in Nat /\ U[Len(sent)] = NumbersUsed
    BY <1>13, <2>2, NumbersGrow DEF Numbering, Numbered
  <2>4. NumbersUsed \in Nat
    <3>1. Len(sent) \in 0..Len(sent)
      BY <2>3
    <3>2. U[Len(sent)] \in Nat
      BY <3>1, NumbersGrow
    <3> QED BY <2>3, <3>2
  <2>5. U[e.id] <= NumbersUsed + 1 /\ U[r] <= NumbersUsed + 1
    BY <2>3, <2>4
  <2> QED BY <2>1, <2>3, <2>5, SamePlace
<1>15. ASSUME NEW j \in DOMAIN got', sent[got'[j].id] = "unreliable" PROVE U[got'[j].id] <= U[r]
  <2>1. CASE j \in DOMAIN got
    BY <1>1, <1>7, <1>15, <2>1 DEF GotInPlace
  <2>2. CASE j = L + 1
    <3>1. U[got'[j].id] = U[r]
      BY <1>6, <1>7, <1>14, <1>15, <2>2
    <3>2. U[r] \in Nat
      BY <1>13, NumbersGrow
    <3> QED BY <3>1, <3>2
  <2> QED BY <1>8, <2>1, <2>2
<1>16. ASSUME NEW i \in DOMAIN got', NEW j \in DOMAIN got',
              sent[got'[i].id] = "unreliable", sent[got'[j].id] \in Ordered
       PROVE  i < j <=> got'[i].id < got'[j].id
  <2>1. j \in DOMAIN got /\ got'[j] = got[j]
    BY <1>6, <1>7, <1>8, <1>16
  <2>2. CASE i \in DOMAIN got
    BY <1>1, <1>7, <1>16, <2>1, <2>2 DEF GotInPlace
  <2>3. CASE i = L + 1
    <3>1. got'[i].id = e.id /\ U[e.id] = U[r] /\ ~(i < j)
      BY <1>6, <1>7, <1>14, <1>16, <2>1, <2>3
    <3>2. Received(got[j].id) /\ got[j].id \in 1..Len(sent)
      BY <1>1, <2>1 DEF Received, GotInPlace
    <3>3. got[j].id <= r /\ sent[got[j].id] \in Ordered
      BY <1>1, <1>16, <2>1, <3>2 DEF GotInPlace
    <3>4. ASSUME e.id < got[j].id PROVE FALSE
      <4>1. e.id \in 0..Len(sent) /\ got[j].id \in 0..Len(sent)
        BY <1>6, <3>2
      <4>2. U[e.id] < U[got[j].id] /\ U[got[j].id] <= U[r]
        BY <1>13, <3>2, <3>3, <3>4, <4>1, NumbersGrow
      <4>3. U[e.id] \in Nat /\ U[got[j].id] \in Nat /\ U[r] \in Nat
        BY <1>13, <4>1, NumbersGrow
      <4> QED BY <3>1, <4>2, <4>3
    <3> QED BY <2>1, <3>1, <3>4
  <2> QED BY <1>8, <2>2, <2>3
<1>17. GotInPlace(n, U, r)'
  BY <1>2, <1>9, <1>10, <1>11, <1>12, <1>13, <1>15, <1>16 DEF GotInPlace
<1> QED BY <1>1, <1>2, <1>5, <1>17 DEF InPlace, Sits, Waits

\* A fragmented packet that misses no fragment has them all.
LEMMA WholeHasAll ==
    ASSUME NEW e, Entry(e), e.type = "DATA_FRAGMENT", e.remaining = 0
    PROVE  e.bits = 0..(Fragments - 1)
<1>1. Fragments \in Nat /\ 0 <= Fragments - 1 + 1
  BY SendingAssumption
<1>2. e.bits \in SUBSET (0..(Fragments - 1)) /\ 0 = Fragments - Cardinality(e.bits)
  BY DEF Entry, Incoming
<1>3. IsFiniteSet(0..(Fragments - 1)) /\ Cardinality(0..(Fragments - 1)) = Fragments
  <2>1. 0 \in Int /\ Fragments - 1 \in Int /\ Fragments - 1 >= 0
        /\ (Fragments - 1) - 0 + 1 = Fragments
    BY SendingAssumption
  <2> QED BY <2>1, FS_Interval
<1>4. IsFiniteSet(e.bits)
  BY <1>2, <1>3, FS_Subset
<1>5. Cardinality(e.bits) \in Nat
  BY <1>4, FS_CardinalityType
<1>6. Cardinality(e.bits) = Fragments
  BY <1>1, <1>2, <1>5
<1> QED BY <1>2, <1>3, <1>6, FS_Subset

\* The next number is that of the next reliable packet: none was sent between the one that
\* was received last and the one at the head of the queue.
LEMMA NextPacket ==
    ASSUME NEW n, NEW U, NEW V, Numbering(n, U, V), Lap, NEW r \in 0..Len(sent),
           NEW i \in 1..Len(sent), sent[i] \in Ordered,
           Num(n, First(U, i)) = NextNumber(Num(n, U[r]))
    PROVE  /\ r < i /\ U[r] = U[i - 1] /\ U[r] < U[i]
           /\ \A j \in 1..Len(sent) : sent[j] \in Ordered => (j <= i <=> j <= r \/ j = i)
<1>1. Len(sent) \in Nat /\ n \in Nat /\ First(U, i) \in Nat /\ First(U, i) <= U[i]
  BY NumbersGrow
<1>2. i \in 0..Len(sent) /\ i - 1 \in 0..Len(sent) /\ i - 1 < i
  BY <1>1
<1>3. U[r] \in Nat /\ U[i - 1] \in Nat /\ U[i] \in Nat /\ U[r] <= NumbersUsed /\ U[i] <= NumbersUsed
  BY <1>2, NumbersGrow
<1>4. NumbersUsed \in Nat
  <2>1. U[Len(sent)] = NumbersUsed /\ Len(sent) \in 0..Len(sent)
    BY <1>1 DEF Numbering, Numbered
  <2> QED BY <2>1, NumbersGrow
<1>5. NextNumber(Num(n, U[r])) = Num(n, U[r] + 1)
  <2>1. n \in Nat /\ U[r] \in Nat /\ 1 \in Nat
    BY <1>1, <1>3
  <2>2. (Num(n, U[r]) + 1) % Modulus = Num(n, U[r] + 1)
    BY <2>1, NumPlus
  <2> QED BY <2>2 DEF NextNumber
<1>6. U[r] + 1 \in Nat /\ First(U, i) <= NumbersUsed + 1 /\ U[r] + 1 <= NumbersUsed + 1
      /\ U[r] + 1 > 0 /\ First(U, i) > 0
  <2>1. First(U, i) = U[i - 1] + 1
    BY DEF First
  <2>2. PICK a \in Nat : a = U[r] /\ a <= NumbersUsed
    BY <1>3
  <2>3. PICK b \in Nat : b = U[i - 1] /\ b <= NumbersUsed
    <3>1. U[i - 1] <= NumbersUsed
      BY <1>2, NumbersGrow
    <3> QED BY <1>3, <3>1
  <2>4. PICK c \in Nat : c = NumbersUsed
    BY <1>4
  <2>5. /\ a + 1 \in Nat /\ b + 1 <= c + 1 /\ a + 1 <= c + 1
        /\ a + 1 > 0 /\ b + 1 > 0
    BY <2>2, <2>3, <2>4
  <2> QED BY <2>1, <2>2, <2>3, <2>4, <2>5
<1>7. First(U, i) = U[r] + 1
  BY <1>1, <1>5, <1>6, SamePlace
<1>8. U[r] = U[i - 1]
  BY <1>3, <1>7 DEF First
<1>9. U[i - 1] < U[i]
  BY <1>2, NumbersGrow
<1>10. r < i
  <2>1. ASSUME i <= r PROVE FALSE
    <3>1. U[i] <= U[r]
      BY <1>2, <2>1, NumbersGrow
    <3> QED BY <1>3, <1>8, <1>9, <3>1
  <2> QED BY <1>1, <2>1
<1>11. ASSUME NEW j \in 1..Len(sent), sent[j] \in Ordered, r < j, j < i PROVE FALSE
  <2>1. j \in 0..Len(sent) /\ j <= i - 1
    BY <1>1, <1>11
  <2>2. U[r] < U[j] /\ U[j] <= U[i - 1]
    BY <1>2, <1>11, <2>1, NumbersGrow
  <2>3. U[j] \in Nat
    BY <2>1, NumbersGrow
  <2> QED BY <1>3, <1>8, <2>2, <2>3
<1>12. ASSUME NEW j \in 1..Len(sent), sent[j] \in Ordered PROVE j <= i <=> j <= r \/ j = i
  <2>1. ~(r < j /\ j < i)
    BY <1>11, <1>12
  <2> QED BY <1>1, <1>10, <2>1
<1>13. U[r] < U[i]
  BY <1>8, <1>9
<1> QED BY <1>8, <1>10, <1>12, <1>13

\* The place of the reliable packets moves on to the one that is received.
LEMMA InPlaceReliable ==
    ASSUME NEW n, NEW U, NEW V, NEW r, Numbering(n, U, V), Lap, InPlace(n, U, V, r),
           ReceiveReliable
    PROVE  \E s \in 1..Len(sent) :
             /\ InPlace(n, U, V, s)' /\ r < s /\ sent[s] \in Ordered
             /\ relQ # <<>> /\ s = relQ[1].id
<1> DEFINE e == Head(relQ)
           g == [id |-> e.id, parts |-> e.parts]
<1>1. /\ Typed /\ GotInPlace(n, U, r) /\ Queue(relQ)
      /\ \A i \in DOMAIN relQ : Sits(n, U, relQ[i])
      /\ \A i \in DOMAIN unrelQ : Waits(n, U, V, unrelQ[i])
  BY DEF Numbering, InPlace, Typed
<1>2. /\ relQ # <<>> /\ e.remaining = 0 /\ e.rel = NextNumber(inRel)
      /\ relQ' = Tail(relQ) /\ got' = Append(got, g)
      /\ inRel' = IF e.type = "DATA_FRAGMENT" THEN (e.rel + Fragments - 1) % Modulus ELSE e.rel
      /\ sent' = sent /\ unrelQ' = unrelQ
  BY DEF ReceiveReliable, ReliableReady, sender
<1>3. /\ e = relQ[1] /\ 1 \in DOMAIN relQ
      /\ \A i \in DOMAIN relQ' : i + 1 \in DOMAIN relQ /\ relQ'[i] = relQ[i + 1]
  <2>1. DOMAIN relQ = 1..Len(relQ) /\ Len(relQ) \in Nat /\ Len(relQ) # 0
    BY <1>1, <1>2, LenProperties, EmptySeq DEF Queue
  <2> QED BY <1>1, <1>2, <2>1, QueueShrinks
<1> HIDE DEF e
<1>4. Sits(n, U, e) /\ Entry(e)
  <2>1. Sits(n, U, relQ[1]) /\ Entry(relQ[1])
    BY <1>1, <1>3 DEF Queue
  <2> QED BY <1>3, <2>1
<1>5. ASSUME NEW i \in DOMAIN relQ' PROVE Sits(n, U, relQ'[i])
  <2>1. i + 1 \in DOMAIN relQ /\ relQ'[i] = relQ[i + 1]
    BY <1>3
  <2>2. Sits(n, U, relQ[i + 1])
    BY <1>1, <2>1
  <2> QED BY <2>1, <2>2
<1>6. g.id = e.id /\ g.parts = e.parts /\ e.id \in 1..Len(sent)
      /\ sent[e.id] \in {"reliable", "fragmented"} /\ sent[e.id] \in Ordered
      /\ e.rel = Num(n, First(U, e.id))
  BY <1>4 DEF Sits, Ordered
<1> HIDE DEF g
<1>7. r \in 0..Len(sent) /\ inRel = Num(n, U[r])
  BY <1>1 DEF GotInPlace
<1>8. /\ r < e.id /\ U[r] = U[e.id - 1] /\ U[r] < U[e.id]
      /\ \A j \in 1..Len(sent) : sent[j] \in Ordered => (j <= e.id <=> j <= r \/ j = e.id)
  <2>1. Num(n, First(U, e.id)) = NextNumber(Num(n, U[r]))
    BY <1>2, <1>6, <1>7
  <2>2. e.id \in 1..Len(sent) /\ sent[e.id] \in Ordered
    BY <1>6
  <2> QED BY <1>7, <2>1, <2>2, NextPacket
<1> DEFINE L == Len(got)
<1>9. /\ L \in Nat /\ DOMAIN got = 1..L /\ DOMAIN got' = 1..(L + 1)
      /\ \A i \in DOMAIN got : i \in DOMAIN got' /\ got'[i] = got[i] /\ i < L + 1
      /\ got'[L + 1] = g
      /\ \A i : Received(i)' <=> Received(i) \/ i = e.id
  BY <1>1, <1>2, <1>6, GotGrows
<1>10. \A k \in DOMAIN got' : k \in DOMAIN got \/ k = L + 1
  BY <1>9
<1>11. \A j \in DOMAIN got' : got'[j].id \in 1..Len(sent)
  BY <1>1, <1>6, <1>9, <1>10 DEF GotInPlace
<1>12. PacketsAreWhole'
  <2>1. PacketsAreWhole
    BY <1>1 DEF GotInPlace
  <2>2. CASE e.type = "DATA_FRAGMENT"
    <3>1. e.bits = 0..(Fragments - 1)
      BY <1>2, <1>4, <2>2, WholeHasAll
    <3>2. sent[e.id] = "fragmented" /\ e.parts = {e.id} \X e.bits
      BY <1>4, <2>2 DEF Sits
    <3>3. g.parts = {g.id} \X (IF sent[g.id] = "fragmented" THEN 0..(Fragments - 1) ELSE {0})
      BY <1>6, <3>1, <3>2
    <3> QED BY <1>2, <1>9, <1>10, <2>1, <3>3 DEF PacketsAreWhole
  <2>3. CASE e.type = "RELIABLE_DATA"
    <3>1. {<<e.id, 0>>} = {e.id} \X {0}
      OBVIOUS
    <3>2. sent[e.id] # "fragmented" /\ e.parts = {<<e.id, 0>>}
      BY <1>4, <2>3 DEF Sits
    <3>3. g.parts = {g.id} \X (IF sent[g.id] = "fragmented" THEN 0..(Fragments - 1) ELSE {0})
      BY <1>6, <3>1, <3>2
    <3> QED BY <1>2, <1>9, <1>10, <2>1, <3>3 DEF PacketsAreWhole
  <2> QED BY <1>4, <2>2, <2>3 DEF Sits
<1>13. \A i \in 1..Len(sent) : sent[i] \in Ordered => (Received(i)' <=> i <= e.id)
  BY <1>1, <1>8, <1>9 DEF GotInPlace
<1>14. ASSUME NEW i \in DOMAIN got, sent[got[i].id] \in Ordered PROVE got[i].id <= r
  <2>1. Received(got[i].id) /\ got[i].id \in 1..Len(sent)
    BY <1>1 DEF Received, GotInPlace
  <2> QED BY <1>1, <1>14, <2>1 DEF GotInPlace
<1>15. ReliableInOrder'
  <2>1. ReliableInOrder
    BY <1>1 DEF GotInPlace
  <2>2. SUFFICES ASSUME NEW j \in DOMAIN got', sent[got'[j].id] \in Ordered
                 PROVE  /\ \A i \in 1..(j - 1) : sent[got'[i].id] \in Ordered => got'[i].id < got'[j].id
                        /\ \A i \in 1..(got'[j].id - 1) : sent[i] \in Ordered => Received(i)'
    BY <1>2 DEF ReliableInOrder
  <2>3. CASE j \in DOMAIN got
    <3>1. \A i \in 1..(j - 1) : i \in DOMAIN got /\ got'[i] = got[i]
      BY <1>9, <2>3
    <3> QED BY <1>9, <2>1, <2>2, <2>3, <3>1 DEF ReliableInOrder
  <2>4. CASE j = L + 1
    <3>1. got'[j].id = e.id
      BY <1>6, <1>9, <2>4
    <3>2. ASSUME NEW i \in 1..(j - 1), sent[got'[i].id] \in Ordered PROVE got'[i].id < e.id
      <4>1. i \in DOMAIN got /\ got'[i] = got[i]
        BY <1>9, <2>4
      <4>2. got[i].id <= r /\ got[i].id \in 1..Len(sent)
        BY <1>1, <1>14, <3>2, <4>1 DEF GotInPlace
      <4>3. r \in Nat /\ e.id \in Nat /\ got[i].id \in Nat
        BY <1>6, <1>7, <4>2
      <4> QED BY <1>8, <4>1, <4>2, <4>3
    <3>3. ASSUME NEW i \in 1..(e.id - 1), sent[i] \in Ordered PROVE Received(i)'
      <4>1. i \in 1..Len(sent) /\ i <= e.id
        <5>1. Len(sent) \in Nat
          BY NumbersGrow
        <5> QED BY <1>6, <5>1
      <4> QED BY <1>13, <3>3, <4>1
    <3> QED BY <3>1, <3>2, <3>3
  <2> QED BY <1>10, <2>3, <2>4
<1>16. r \in 0..Len(sent) /\ e.id \in 0..Len(sent) /\ U[r] \in Nat /\ U[e.id] \in Nat
       /\ Len(sent) \in Nat /\ n \in Nat
  <2>1. r \in 0..Len(sent) /\ e.id \in 0..Len(sent)
    BY <1>6, <1>7
  <2> QED BY <2>1, NumbersGrow
<1>17. inRel' = Num(n, U[e.id])
  <2>1. First(U, e.id) = U[r] + 1 /\ U[e.id] = U[r] + Width(sent[e.id])
    <3>1. U[e.id] = U[e.id - 1] + Width(sent[e.id])
      BY <1>6, NumbersGrow
    <3> QED BY <1>8, <3>1 DEF First
  <2>2. CASE e.type = "DATA_FRAGMENT"
    <3>1. Width(sent[e.id]) = Fragments
      BY <1>4, <2>2 DEF Sits, Width
    <3>2. inRel' = (e.rel + Fragments - 1) % Modulus
      BY <1>2, <2>2
    <3>3. e.rel = Num(n, U[r] + 1) /\ e.rel \in Int
      BY <1>4, <1>6, <2>1, NumbersAssumption DEF Entry, Incoming, Numbers
    <3>4. Fragments - 1 \in Nat /\ U[r] + 1 \in Nat /\ e.rel + Fragments - 1 = e.rel + (Fragments - 1)
          /\ (U[r] + 1) + (Fragments - 1) = U[r] + Fragments
      <4>1. Fragments \in Nat /\ Fragments > 1 /\ U[r] \in Nat
        BY <1>16, SendingAssumption
      <4>2. e.rel \in Int
        BY <3>3
      <4>3. e.rel + Fragments - 1 = e.rel + (Fragments - 1)
        BY <4>1, <4>2
      <4> QED BY <4>1, <4>3
    <3>5. (Num(n, U[r] + 1) + (Fragments - 1)) % Modulus = Num(n, (U[r] + 1) + (Fragments - 1))
      BY <1>16, <3>4, NumPlus
    <3> QED BY <2>1, <3>1, <3>2, <3>3, <3>4, <3>5
  <2>3. CASE e.type = "RELIABLE_DATA"
    <3>1. Width(sent[e.id]) = 1
      BY <1>4, <2>3 DEF Sits, Width
    <3> QED BY <1>2, <1>6, <2>1, <2>3, <3>1
  <2> QED BY <1>4, <2>2, <2>3 DEF Sits
<1>18. ASSUME NEW j \in DOMAIN got', sent[got'[j].id] = "unreliable" PROVE U[got'[j].id] <= U[e.id]
  <2>1. j \in DOMAIN got /\ got'[j] = got[j]
    BY <1>6, <1>9, <1>10, <1>18
  <2>2. U[got[j].id] <= U[r] /\ got[j].id \in 0..Len(sent)
    BY <1>1, <1>18, <2>1 DEF GotInPlace
  <2>3. U[got[j].id] \in Nat
    BY <2>2, NumbersGrow
  <2> QED BY <1>8, <1>16, <2>1, <2>2, <2>3
<1>19. ASSUME NEW i \in DOMAIN got', NEW j \in DOMAIN got',
              sent[got'[i].id] = "unreliable", sent[got'[j].id] \in Ordered
       PROVE  i < j <=> got'[i].id < got'[j].id
  <2>1. i \in DOMAIN got /\ got'[i] = got[i]
    BY <1>6, <1>9, <1>10, <1>19
  <2>2. CASE j \in DOMAIN got
    BY <1>1, <1>9, <1>19, <2>1, <2>2 DEF GotInPlace
  <2>3. CASE j = L + 1
    <3>1. got'[j].id = e.id /\ i < j
      BY <1>6, <1>9, <2>1, <2>3
    <3>2. U[got[i].id] <= U[r] /\ got[i].id \in 0..Len(sent)
      BY <1>1, <1>19, <2>1 DEF GotInPlace
    <3>3. ASSUME e.id <= got[i].id PROVE FALSE
      <4>1. U[e.id] <= U[got[i].id]
        BY <1>16, <3>2, <3>3, NumbersGrow
      <4>2. U[got[i].id] \in Nat
        BY <3>2, NumbersGrow
      <4> QED BY <1>8, <1>16, <3>2, <4>1, <4>2
    <3>4. got[i].id \in Int /\ e.id \in Int
      BY <1>16, <3>2
    <3> QED BY <2>1, <3>1, <3>3, <3>4
  <2> QED BY <1>10, <2>2, <2>3
<1>20. \A s : s = e.id => GotInPlace(n, U, s)'
  BY <1>2, <1>11, <1>12, <1>13, <1>15, <1>16, <1>17, <1>18, <1>19 DEF GotInPlace
<1>21. \A s : s = e.id => InPlace(n, U, V, s)'
  BY <1>1, <1>2, <1>5, <1>20 DEF InPlace, Sits, Waits
<1>22. PICK s : s = e.id
  OBVIOUS
<1>23. InPlace(n, U, V, s)' /\ s \in 1..Len(sent) /\ r < s /\ sent[s] \in Ordered
       /\ relQ # <<>> /\ s = relQ[1].id
  BY <1>2, <1>3, <1>6, <1>8, <1>21, <1>22
<1> QED BY <1>23

-----------------------------------------------------------------------------
(* Before the wrap.                                                        *)

\* The numbers wrapped when they went beyond the modulus.
LEMMA WrappedIs ==
    ASSUME NEW n, NEW U, NEW V, Numbering(n, U, V)
    PROVE  /\ NumbersUsed \in Nat /\ Count("unreliable") \in Nat /\ n \in Numbers
           /\ ~Wrapped <=> n + NumbersUsed < Modulus /\ n + Count("unreliable") < Modulus
<1> DEFINE a == NumbersUsed
           b == Count("unreliable")
<1>1. a \in Nat /\ b \in Nat /\ U[Len(sent)] = a /\ V[Len(sent)] = b
  <2>1. U[Len(sent)] = NumbersUsed /\ V[Len(sent)] = Count("unreliable")
    BY DEF Numbering, Numbered
  <2>2. Len(sent) \in 0..Len(sent)
    BY NumbersGrow
  <2>3. U[Len(sent)] \in Nat /\ V[Len(sent)] \in Nat
    BY <2>2, NumbersGrow
  <2> QED BY <2>1, <2>3
<1>2. n \in Numbers /\ outRel = (n + a) % Modulus /\ outUnrel = (n + b) % Modulus
  <2>1. n \in Numbers /\ outRel = Num(n, U[Len(sent)]) /\ outUnrel = Num(n, V[Len(sent)])
    BY DEF Numbering, Numbered
  <2> QED BY <1>1, <2>1 DEF Num
<1>3. Wrapped <=> outRel < a \/ outUnrel < b
  BY DEF Wrapped
<1> HIDE DEF a, b
<1>4. ASSUME NEW x \in Nat PROVE (n + x) % Modulus < x <=> n + x >= Modulus
  <2> DEFINE m == (n + x) % Modulus
             q == (n + x) \div Modulus
  <2>1. Modulus \in Nat \ {0} /\ n \in Nat /\ n < Modulus
    BY <1>2, NumbersAssumption DEF Numbers
  <2>2. m \in 0..(Modulus - 1) /\ q \in Int /\ n + x = q * Modulus + m
    BY <2>1, SMT
  <2> HIDE DEF m, q
  <2>3. CASE n + x < Modulus
    <3>1. n + x \in Numbers
      BY <2>1, <2>3 DEF Numbers
    <3>2. n + x \in Int
      BY <2>1
    <3>3. m = n + x
      BY <3>1, <3>2, Modulo DEF m
    <3> QED BY <2>1, <2>3, <3>3 DEF m
  <2>4. CASE n + x >= Modulus
    <3>1. q >= 1
      <4>1. ASSUME q <= 0 PROVE FALSE
        <5>1. q * Modulus <= 0
          BY <2>1, <2>2, <4>1, SMT
        <5> QED BY <2>1, <2>2, <2>4, <5>1, SMT
      <4> QED BY <2>2, <4>1
    <3>2. q * Modulus >= Modulus /\ q * Modulus \in Int
      BY <2>1, <2>2, <3>1, SMT
    <3>3. m < x
      BY <2>1, <2>2, <3>2, SMT
    <3> QED BY <2>4, <3>3 DEF m
  <2>5. n + x \in Int /\ Modulus \in Int
    BY <2>1
  <2> QED BY <2>3, <2>4, <2>5
<1>5. n + a \in Int /\ n + b \in Int /\ Modulus \in Int
  BY <1>1, <1>2, NumbersAssumption DEF Numbers
<1>6. ~Wrapped <=> n + a < Modulus /\ n + b < Modulus
  BY <1>1, <1>2, <1>3, <1>4, <1>5
<1> QED BY <1>1, <1>2, <1>6 DEF a, b

\* Before that the numbers are those of the places.
LEMMA PlainNumbers ==
    ASSUME NEW n, NEW U, NEW V, Numbering(n, U, V), ~Wrapped
    PROVE  /\ Lap /\ n \in Nat
           /\ \A i \in 0..Len(sent) : Num(n, U[i]) = n + U[i] /\ Num(n, V[i]) = n + V[i]
           /\ \A i \in 1..Len(sent) : sent[i] \in Ordered => Num(n, First(U, i)) = n + First(U, i)
           /\ \A i \in 0..Len(sent) : n + U[i] < Modulus /\ n + V[i] < Modulus
<1>1. /\ NumbersUsed \in Nat /\ Count("unreliable") \in Nat /\ n \in Nat
      /\ n + NumbersUsed < Modulus /\ n + Count("unreliable") < Modulus /\ Modulus \in Nat
  BY WrappedIs, NumbersAssumption DEF Numbers
<1>2. Lap
  BY <1>1 DEF Lap
<1>3. ASSUME NEW x \in Nat, n + x < Modulus PROVE Num(n, x) = n + x
  <2>1. n + x \in Int /\ n + x \in Numbers
    BY <1>1, <1>3 DEF Numbers
  <2> QED BY <2>1, Modulo DEF Num
<1>4. ASSUME NEW i \in 0..Len(sent)
      PROVE  U[i] \in Nat /\ V[i] \in Nat /\ n + U[i] < Modulus /\ n + V[i] < Modulus
  <2>1. U[i] \in Nat /\ V[i] \in Nat /\ U[i] <= NumbersUsed
    BY NumbersGrow
  <2>2. Len(sent) \in 0..Len(sent) /\ i <= Len(sent)
    BY NumbersGrow
  <2>3. V[i] <= V[Len(sent)] /\ V[Len(sent)] = Count("unreliable")
    BY <2>2, NumbersGrow DEF Numbering, Numbered
  <2> QED BY <1>1, <2>1, <2>3
<1>5. ASSUME NEW i \in 1..Len(sent), sent[i] \in Ordered PROVE Num(n, First(U, i)) = n + First(U, i)
  <2>1. First(U, i) \in Nat /\ First(U, i) <= U[i]
    BY <1>5, NumbersGrow
  <2>2. i \in 0..Len(sent)
    OBVIOUS
  <2>3. U[i] \in Nat /\ n + U[i] < Modulus
    BY <1>4, <2>2
  <2>4. n + First(U, i) < Modulus
    BY <1>1, <2>1, <2>3
  <2> QED BY <1>3, <2>1, <2>4
<1> QED BY <1>1, <1>2, <1>3, <1>4, <1>5

\* The first numbers of reliable packets are in their order.
LEMMA FirstOrder ==
    ASSUME NEW n, NEW U, NEW V, Numbering(n, U, V),
           NEW i \in 1..Len(sent), NEW j \in 1..Len(sent), sent[i] \in Ordered, sent[j] \in Ordered
    PROVE  First(U, i) < First(U, j) <=> i < j
<1>1. Len(sent) \in Nat /\ First(U, i) \in Nat /\ First(U, j) \in Nat
  BY NumbersGrow
<1>2. ASSUME NEW a \in 1..Len(sent), NEW b \in 1..Len(sent), sent[a] \in Ordered, a < b
      PROVE  First(U, a) < First(U, b)
  <2>1. a - 1 \in 0..Len(sent) /\ a \in 0..Len(sent) /\ b - 1 \in 0..Len(sent)
        /\ a - 1 < a /\ a <= b - 1
    BY <1>1, <1>2
  <2>2. U[a - 1] < U[a] /\ U[a] <= U[b - 1]
    BY <1>2, <2>1, NumbersGrow
  <2>3. U[a - 1] \in Nat /\ U[a] \in Nat /\ U[b - 1] \in Nat
    BY <2>1, NumbersGrow
  <2> QED BY <2>2, <2>3 DEF First
<1>3. i < j => First(U, i) < First(U, j)
  BY <1>2
<1>4. j < i => First(U, j) < First(U, i)
  BY <1>2
<1>5. i = j \/ i < j \/ j < i
  BY <1>1
<1> QED BY <1>1, <1>3, <1>4, <1>5

\* So are the numbers of unreliable ones.
LEMMA UnreliableOrder ==
    ASSUME NEW n, NEW U, NEW V, Numbering(n, U, V),
           NEW i \in 0..Len(sent), NEW j \in 1..Len(sent), sent[j] = "unreliable"
    PROVE  V[i] < V[j] <=> i < j
<1>1. Len(sent) \in Nat /\ j - 1 \in 0..Len(sent) /\ j \in 0..Len(sent)
  BY NumbersGrow
<1>2. V[i] \in Nat /\ V[j - 1] \in Nat /\ V[j] \in Nat
  BY <1>1, NumbersGrow
<1>3. V[j] = V[j - 1] + 1
  BY DEF Numbering, Numbered, One
<1>4. ASSUME i < j PROVE V[i] < V[j]
  <2>1. i <= j - 1
    BY <1>1, <1>4
  <2>2. V[i] <= V[j - 1]
    BY <1>1, <2>1, NumbersGrow
  <2> QED BY <1>2, <1>3, <2>2
<1>5. ASSUME j <= i PROVE V[j] <= V[i]
  BY <1>1, <1>5, NumbersGrow
<1> QED BY <1>1, <1>2, <1>4, <1>5

\* Of the messages of these types, those that were sent later are behind in the queue.
InOrder(q, types) ==
    \A i, j \in DOMAIN q :
        q[i].type \in types /\ q[j].type \in types /\ i < j => q[i].id < q[j].id

\* And all were sent after packet x.
After(q, types, x) == \A i \in DOMAIN q : q[i].type \in types => x < q[i].id

\* A message of another packet, with those before it sent before and those behind it sent
\* after, keeps the order.
LEMMA InsertInOrder ==
    ASSUME NEW q, Queue(q), NEW e, Entry(e), NEW p \in 0..Len(q), NEW types, NEW x \in Nat,
           InOrder(q, types), After(q, types, x),
           e.type \in types =>
             /\ x < e.id
             /\ \A k \in DOMAIN q : q[k].type \in types =>
                  (k <= p => q[k].id < e.id) /\ (k > p => e.id < q[k].id)
    PROVE  InOrder(InsertAt(q, p + 1, e), types) /\ After(InsertAt(q, p + 1, e), types, x)
<1>1. PICK t : t = InsertAt(q, p + 1, e)
  OBVIOUS
<1>2. DOMAIN q = 1..Len(q) /\ Len(q) \in Nat /\ DOMAIN t \subseteq Nat
  <2>1. q \in Seq(Incoming) /\ Queue(t)
    BY <1>1, QueueGrows DEF Queue
  <2> QED BY <2>1, LenProperties DEF Queue
<1>3. \A k \in DOMAIN t :
        \/ k = p + 1 /\ t[k] = e
        \/ k <= p /\ k \in DOMAIN q /\ t[k] = q[k]
        \/ k > p + 1 /\ k - 1 \in DOMAIN q /\ t[k] = q[k - 1]
  BY <1>1, InsertedAmong
<1>4. After(t, types, x)
  BY <1>3 DEF After
<1>5. ASSUME NEW i \in DOMAIN t, NEW j \in DOMAIN t, i < j,
             t[i].type \in types, t[j].type \in types
      PROVE  t[i].id < t[j].id
  <2>1. i \in Nat /\ j \in Nat /\ p \in Nat
    BY <1>2
  <2>2. CASE i <= p /\ i \in DOMAIN q /\ t[i] = q[i]
    <3>1. CASE j = p + 1 /\ t[j] = e
      BY <1>5, <2>2, <3>1
    <3>2. CASE j <= p /\ j \in DOMAIN q /\ t[j] = q[j]
      BY <1>5, <2>2, <3>2 DEF InOrder
    <3>3. CASE j > p + 1 /\ j - 1 \in DOMAIN q /\ t[j] = q[j - 1]
      <4>1. i < j - 1
        BY <2>1, <2>2, <3>3
      <4> QED BY <1>5, <2>2, <3>3, <4>1 DEF InOrder
    <3> QED BY <1>3, <3>1, <3>2, <3>3
  <2>3. CASE i = p + 1 /\ t[i] = e
    <3>1. j > p + 1 /\ j - 1 > p
      BY <1>5, <2>1, <2>3
    <3>2. j - 1 \in DOMAIN q /\ t[j] = q[j - 1]
      <4>1. ~(j = p + 1) /\ ~(j <= p)
        BY <2>1, <3>1
      <4> QED BY <1>3, <4>1
    <3> QED BY <1>5, <2>3, <3>1, <3>2
  <2>4. CASE i > p + 1 /\ i - 1 \in DOMAIN q /\ t[i] = q[i - 1]
    <3>1. j > p + 1 /\ i - 1 < j - 1
      BY <1>5, <2>1, <2>4
    <3>2. j - 1 \in DOMAIN q /\ t[j] = q[j - 1]
      <4>1. ~(j = p + 1) /\ ~(j <= p)
        BY <2>1, <3>1
      <4> QED BY <1>3, <4>1
    <3> QED BY <1>5, <2>4, <3>1, <3>2 DEF InOrder
  <2> QED BY <1>3, <2>2, <2>3, <2>4
<1>6. InOrder(t, types)
  BY <1>5 DEF InOrder
<1> QED BY <1>1, <1>4, <1>6

\* The search parts numbers that are in order, unless it finds the number.
LEMMA PlaceParts ==
    ASSUME NEW numbers, NEW L \in Nat, NEW among \in SUBSET (1..L), NEW w \in Nat, w < Modulus,
           \A i \in among : numbers[i] \in Nat,
           \A i, j \in among : i < j => numbers[i] < numbers[j],
           ~Duplicate(w, numbers, among), NEW k \in among
    PROVE  /\ k <= Place(w, numbers, among) => numbers[k] < w
           /\ k > Place(w, numbers, among) => w < numbers[k]
<1>1. PICK p : p = Place(w, numbers, among)
  OBVIOUS
<1>2. \A i : Shrunk(w, numbers, among, i) = w
  <2>1. ~(w >= Modulus)
    BY NumbersAssumption
  <2> QED BY <2>1 DEF Shrunk
<1>3. \/ p = 0 /\ \A i \in among : ~Stops(w, numbers, among, i)
      \/ /\ p \in among /\ Stops(w, numbers, among, p)
         /\ \A i \in among : i > p => ~Stops(w, numbers, among, i)
  BY <1>1, PlaceIs
<1>4. \A i \in among : Stops(w, numbers, among, i) <=> numbers[i] <= w
  BY <1>2 DEF Stops
<1>5. \A i \in among : i \in Nat /\ i # 0
  OBVIOUS
<1>6. CASE p = 0 /\ \A i \in among : ~Stops(w, numbers, among, i)
  <2>1. ~(k <= p) /\ ~(numbers[k] <= w) /\ numbers[k] \in Nat
    BY <1>4, <1>5, <1>6
  <2> QED BY <1>1, <2>1
<1>7. CASE /\ p \in among /\ Stops(w, numbers, among, p)
           /\ \A i \in among : i > p => ~Stops(w, numbers, among, i)
  <2>1. numbers[p] <= w /\ numbers[p] # w
    BY <1>1, <1>2, <1>4, <1>5, <1>7 DEF Duplicate
  <2>2. numbers[p] \in Nat /\ numbers[k] \in Nat /\ p \in Nat /\ k \in Nat
    BY <1>5, <1>7
  <2>3. ASSUME k > p PROVE w < numbers[k]
    <3>1. ~(numbers[k] <= w)
      BY <1>4, <1>7, <2>3
    <3> QED BY <2>2, <3>1
  <2>4. ASSUME k <= p PROVE numbers[k] < w
    <3>1. CASE k = p
      BY <2>1, <2>2, <3>1
    <3>2. CASE k < p
      <4>1. numbers[k] < numbers[p]
        BY <1>7, <3>2
      <4> QED BY <2>1, <2>2, <4>1
    <3> QED BY <2>2, <2>4, <3>1, <3>2
  <2> QED BY <1>1, <2>3, <2>4
<1> QED BY <1>3, <1>6, <1>7

\* The types of the messages of reliable packets, and of unreliable ones.
RelTypes == {"RELIABLE_DATA", "DATA_FRAGMENT"}
UnrelTypes == {"UNRELIABLE_DATA"}

\* The queues are in the order of sending, all behind the packets that were received last,
\* r the reliable and u the unreliable one; unreliable packets were received in that order.
Sorted(n, V, r, u) ==
    /\ u \in 0..Len(sent) /\ inUnrel = Num(n, V[u])
    /\ InOrder(relQ, RelTypes) /\ After(relQ, RelTypes, r)
    /\ InOrder(unrelQ, UnrelTypes) /\ After(unrelQ, UnrelTypes, u)
    /\ \A i, j \in DOMAIN got :
         sent[got[i].id] = "unreliable" /\ sent[got[j].id] = "unreliable" /\ i < j
         => got[i].id < got[j].id
    /\ \A j \in DOMAIN got : sent[got[j].id] = "unreliable" => got[j].id <= u

\* The number of a packet that is still in flight is not taken for one that wrapped.
LEMMA NotWidened ==
    ASSUME NEW in \in Nat, NEW num \in Nat, NEW d \in Nat, d <= Window, in - num <= d * Fragments
    PROVE  Widen(num, in) = num
<1>1. Window \in Nat /\ Fragments \in Nat /\ High \in Nat /\ Low \in Nat
      /\ Window * Fragments <= High - Low
  BY SendingAssumption, NumbersAssumption, FlightAssumption
<1>2. d * Fragments <= Window * Fragments
  BY <1>1, SMT
<1>3. d * Fragments \in Nat /\ Window * Fragments \in Nat
  BY <1>1, SMT
<1>4. in - num <= High - Low
  BY <1>1, <1>2, <1>3, SMT
<1>5. ~(in >= High /\ num < Low)
  BY <1>1, <1>4, SMT
<1> QED BY <1>5 DEF Widen

\* Before the wrap a reliable packet that is not refused was sent after the one that was
\* received last, and goes to its place in the queue.
LEMMA AcceptedReliable ==
    ASSUME NEW n, NEW U, NEW V, NEW r, NEW u, Numbering(n, U, V), InPlace(n, U, V, r),
           ~Wrapped, Sorted(n, V, r, u),
           NEW i \in 1..Len(sent), sent[i] \in Ordered, Len(sent) - i < Window,
           ~RefusedReliable(Num(n, First(U, i)))
    PROVE  /\ r < i
           /\ \A k \in DOMAIN relQ :
                LET p == Place(Widen(Num(n, First(U, i)), inRel), Rels, DOMAIN relQ)
                IN  (k <= p => relQ[k].id < i) /\ (k > p => i < relQ[k].id)
<1>1. Len(sent) \in Nat /\ n \in Nat /\ First(U, i) \in Nat /\ First(U, i) <= U[i]
  BY NumbersGrow
<1>2. r \in 0..Len(sent) /\ i \in 0..Len(sent) /\ i - 1 \in 0..Len(sent) /\ Modulus \in Nat
      /\ Window \in Nat /\ Fragments \in Nat /\ inRel = Num(n, U[r])
  BY <1>1, SendingAssumption, NumbersAssumption DEF InPlace, GotInPlace
<1>3. U[r] \in Nat /\ U[i] \in Nat /\ U[i - 1] \in Nat /\ First(U, i) = U[i - 1] + 1
  BY <1>2, NumbersGrow DEF First
<1>4. inRel = n + U[r] /\ Num(n, First(U, i)) = n + First(U, i) /\ n + U[i] < Modulus
  BY <1>2, PlainNumbers
<1> DEFINE w == n + First(U, i)
<1>5. w \in Nat /\ w < Modulus /\ inRel \in Nat
  <2>1. PICK a \in Nat : a = U[i] /\ n + a < Modulus
    BY <1>3, <1>4
  <2>2. PICK f \in Nat : f = First(U, i) /\ f <= a
    BY <1>1, <2>1
  <2>3. PICK b \in Nat : b = U[r]
    BY <1>3
  <2>4. n + f < Modulus /\ n + f \in Nat /\ n + b \in Nat
    <3>1. n \in Nat /\ Modulus \in Nat
      BY <1>1, <1>2
    <3> QED BY <2>1, <2>2, <3>1
  <2> QED BY <1>4, <2>2, <2>3, <2>4
<1>6. Widen(w, inRel) = w
  <2>1. CASE r <= i - 1
    <3>0. U[r] <= U[i - 1]
      BY <1>2, <2>1, NumbersGrow
    <3>1. inRel - w <= 0 /\ 0 * Fragments = 0
      <4>1. PICK a \in Nat : a = U[r]
        BY <1>3
      <4>2. PICK b \in Nat : b = U[i - 1]
        BY <1>3
      <4>3. (n + a) - (n + (b + 1)) <= 0
        BY <1>1, <3>0, <4>1, <4>2
      <4> QED BY <1>2, <1>3, <1>4, <4>1, <4>2, <4>3
    <3>2. 0 <= Window /\ inRel - w <= 0 * Fragments
      BY <1>2, <3>1
    <3> QED BY <1>5, <3>2, NotWidened
  <2>2. CASE r > i - 1
    <3>1. U[r] - U[i - 1] <= (r - (i - 1)) * Fragments
      <4>1. \A a, b \in 0..Len(sent) : a <= b => U[b] - U[a] <= (b - a) * Fragments
        BY DEF Numbering, Numbered
      <4>2. i - 1 <= r
        BY <1>2, <2>2
      <4> QED BY <1>2, <4>1, <4>2
    <3>2. PICK d \in Nat : d = r - (i - 1)
      BY <1>1, <1>2, <2>2
    <3>3. d <= Window
      BY <1>1, <1>2, <3>2
    <3>4. d * Fragments \in Nat /\ U[r] - U[i - 1] <= d * Fragments
      BY <1>2, <3>1, <3>2
    <3>5. inRel - w <= d * Fragments
      <4>1. PICK a \in Nat : a = U[r]
        BY <1>3
      <4>2. PICK b \in Nat : b = U[i - 1]
        BY <1>3
      <4>3. PICK c \in Nat : c = d * Fragments
        BY <3>4
      <4>4. (n + a) - (n + (b + 1)) <= c
        <5>1. a - b <= c
          BY <3>4, <4>1, <4>2, <4>3, Zenon
        <5>2. n \in Nat
          BY <1>1
        <5> QED BY <5>1, <5>2
      <4> QED BY <1>3, <1>4, <4>1, <4>2, <4>3, <4>4
    <3> QED BY <1>5, <3>3, <3>5, NotWidened
  <2>3. r \in Int /\ i \in Int
    BY <1>2
  <2> QED BY <2>1, <2>2, <2>3
<1>7. ~(w < inRel) /\ w # inRel /\ ~Duplicate(w, Rels, DOMAIN relQ)
  <2>1. ~RefusedReliable(w)
    BY <1>4
  <2>2. ~Old(w, inRel) /\ w # inRel /\ ~Duplicate(w, Rels, DOMAIN relQ)
    <3> HIDE DEF w
    <3> QED BY <1>6, <2>1 DEF RefusedReliable
  <2> QED BY <2>2 DEF Old
<1>8. r < i
  <2>1. ASSUME i <= r PROVE FALSE
    <3>1. PICK a \in Nat : a = U[i]
      BY <1>3
    <3>2. PICK b \in Nat : b = U[r] /\ a <= b
      BY <1>2, <1>3, <2>1, <3>1, NumbersGrow
    <3>3. PICK f \in Nat : f = First(U, i) /\ f <= a
      BY <1>1, <3>1
    <3>4. n + f <= n + b
      BY <1>1, <3>1, <3>2, <3>3
    <3>5. w <= inRel
      BY <1>4, <3>2, <3>3, <3>4
    <3> QED BY <1>5, <1>7, <3>5
  <2> QED BY <1>2, <2>1
<1>9. ASSUME NEW k \in DOMAIN relQ
      PROVE  /\ relQ[k].id \in 1..Len(sent) /\ sent[relQ[k].id] \in Ordered
             /\ relQ[k].type \in RelTypes
             /\ Rels[k] = n + First(U, relQ[k].id) /\ Rels[k] \in Nat /\ First(U, relQ[k].id) \in Nat
  <2>1. Sits(n, U, relQ[k])
    BY DEF InPlace
  <2>2. relQ[k].id \in 1..Len(sent) /\ sent[relQ[k].id] \in Ordered
        /\ relQ[k].rel = Num(n, First(U, relQ[k].id)) /\ relQ[k].type \in RelTypes
    BY <2>1 DEF Sits, Ordered, RelTypes
  <2>3. relQ[k].rel = n + First(U, relQ[k].id) /\ First(U, relQ[k].id) \in Nat
    BY <2>2, PlainNumbers, NumbersGrow
  <2>4. Rels[k] = relQ[k].rel
    BY DEF Rels
  <2> QED BY <1>1, <2>2, <2>3, <2>4
<1>10. ASSUME NEW a \in DOMAIN relQ, NEW b \in DOMAIN relQ, a < b PROVE Rels[a] < Rels[b]
  <2>1. relQ[a].id < relQ[b].id
    BY <1>9, <1>10 DEF Sorted, InOrder
  <2>2. First(U, relQ[a].id) < First(U, relQ[b].id)
    BY <1>9, <2>1, FirstOrder
  <2> QED BY <1>1, <1>9, <2>2
<1>11. Len(relQ) \in Nat /\ DOMAIN relQ \in SUBSET (1..Len(relQ))
  BY SearchedPlaces DEF Numbering
<1>12. ASSUME NEW k \in DOMAIN relQ
       PROVE  LET p == Place(w, Rels, DOMAIN relQ)
              IN  (k <= p => relQ[k].id < i) /\ (k > p => i < relQ[k].id)
  <2>1. /\ k <= Place(w, Rels, DOMAIN relQ) => Rels[k] < w
        /\ k > Place(w, Rels, DOMAIN relQ) => w < Rels[k]
    <3> HIDE DEF w
    <3> QED BY <1>5, <1>7, <1>9, <1>10, <1>11, PlaceParts
  <2>2. /\ Rels[k] < w => First(U, relQ[k].id) < First(U, i)
        /\ w < Rels[k] => First(U, i) < First(U, relQ[k].id)
    BY <1>1, <1>9
  <2>3. /\ First(U, relQ[k].id) < First(U, i) <=> relQ[k].id < i
        /\ First(U, i) < First(U, relQ[k].id) <=> i < relQ[k].id
    BY <1>9, FirstOrder
  <2> HIDE DEF w
  <2> QED BY <2>1, <2>2, <2>3
<1> QED BY <1>4, <1>6, <1>8, <1>12

\* So it is with an unreliable packet.
LEMMA AcceptedUnreliable ==
    ASSUME NEW n, NEW U, NEW V, NEW r, NEW u, Numbering(n, U, V), InPlace(n, U, V, r),
           ~Wrapped, Sorted(n, V, r, u), NEW m \in net, m.type = "UNRELIABLE_DATA",
           Len(sent) - m.id < Window, ~RefusedUnreliable(m)
    PROVE  /\ u < m.id
           /\ \A k \in DOMAIN unrelQ : unrelQ[k].type \in UnrelTypes =>
                LET p == Place(Widen(m.useq, inUnrel), Unrels, Unreliables)
                IN  (k <= p => unrelQ[k].id < m.id) /\ (k > p => m.id < unrelQ[k].id)
<1> DEFINE i == m.id
<1>0. i \in 1..Len(sent) /\ sent[i] = "unreliable" /\ m.useq = Num(n, V[i])
  BY DEF Numbering, Bears
<1> HIDE DEF i
<1>1. /\ Len(sent) \in Nat /\ n \in Nat
      /\ \A a \in 0..Len(sent) : V[a] \in Nat
      /\ \A a, b \in 0..Len(sent) : a <= b => V[a] <= V[b]
  BY NumbersGrow
<1>2. u \in 0..Len(sent) /\ i \in 0..Len(sent) /\ Modulus \in Nat
      /\ Window \in Nat /\ Fragments \in Nat /\ Fragments > 1 /\ inUnrel = Num(n, V[u])
  BY <1>0, <1>1, SendingAssumption, NumbersAssumption DEF Sorted
<1>3. V[u] \in Nat /\ V[i] \in Nat
  BY <1>1, <1>2
<1>4. inUnrel = n + V[u] /\ m.useq = n + V[i] /\ n + V[i] < Modulus
  BY <1>0, <1>2, PlainNumbers
<1> DEFINE w == n + V[i]
<1>5. w \in Nat /\ w < Modulus /\ inUnrel \in Nat
  BY <1>1, <1>2, <1>3, <1>4
<1>6. Widen(w, inUnrel) = w
  <2>1. CASE u <= i
    <3>1. V[u] <= V[i]
      BY <1>1, <1>2, <2>1
    <3>2. inUnrel - w <= 0 /\ 0 * Fragments = 0
      BY <1>1, <1>2, <1>3, <1>4, <3>1
    <3>3. 0 <= Window /\ inUnrel - w <= 0 * Fragments
      BY <1>2, <3>2
    <3> QED BY <1>5, <3>3, NotWidened
  <2>2. CASE u > i
    <3>1. V[u] - V[i] <= u - i
      BY <1>2, <2>2 DEF Numbering, Numbered
    <3>2. PICK d \in Nat : d = u - i
      BY <1>1, <1>2, <2>2
    <3>3. d <= Window
      BY <1>1, <1>2, <3>2 DEF i
    <3>4. d * Fragments \in Nat /\ d <= d * Fragments
      BY <1>2, SMT
    <3>5. inUnrel - w <= d * Fragments
      BY <1>1, <1>3, <1>4, <3>1, <3>2, <3>4
    <3> QED BY <1>5, <3>3, <3>5, NotWidened
  <2>3. u \in Int /\ i \in Int
    BY <1>2
  <2> QED BY <2>1, <2>2, <2>3
<1>7. ~(w < inUnrel) /\ w # inUnrel /\ ~Duplicate(w, Unrels, Unreliables)
  <2>1. Widen(m.useq, inUnrel) = w /\ ~RefusedUnreliable(m)
    BY <1>4, <1>6
  <2>2. ~Old(w, inUnrel) /\ w # inUnrel /\ ~Duplicate(w, Unrels, Unreliables)
    <3> HIDE DEF w
    <3> QED BY <2>1 DEF RefusedUnreliable
  <2> QED BY <2>2 DEF Old
<1>8. u < i
  <2>1. ASSUME i <= u PROVE FALSE
    <3>1. V[i] <= V[u]
      BY <1>1, <1>2, <2>1
    <3>2. w <= inUnrel
      BY <1>1, <1>3, <1>4, <3>1
    <3> QED BY <1>5, <1>7, <3>2
  <2> QED BY <1>2, <2>1
<1>9. ASSUME NEW k \in Unreliables
      PROVE  /\ k \in DOMAIN unrelQ /\ unrelQ[k].type \in UnrelTypes
             /\ unrelQ[k].id \in 1..Len(sent) /\ sent[unrelQ[k].id] = "unreliable"
             /\ Unrels[k] = n + V[unrelQ[k].id] /\ Unrels[k] \in Nat /\ V[unrelQ[k].id] \in Nat
  <2>1. k \in DOMAIN unrelQ /\ unrelQ[k].type = "UNRELIABLE_DATA"
    BY DEF Unreliables
  <2>2. Waits(n, U, V, unrelQ[k])
    BY <2>1 DEF InPlace
  <2>3. unrelQ[k].id \in 1..Len(sent) /\ sent[unrelQ[k].id] = "unreliable"
        /\ unrelQ[k].unrel = Num(n, V[unrelQ[k].id])
    BY <2>1, <2>2 DEF Waits
  <2>4. unrelQ[k].id \in 0..Len(sent)
    BY <2>3
  <2>5. unrelQ[k].unrel = n + V[unrelQ[k].id] /\ V[unrelQ[k].id] \in Nat
    BY <1>1, <2>3, <2>4, PlainNumbers
  <2>6. Unrels[k] = unrelQ[k].unrel
    BY <2>1 DEF Unrels
  <2> QED BY <1>1, <2>1, <2>3, <2>5, <2>6 DEF UnrelTypes
<1>10. ASSUME NEW a \in Unreliables, NEW b \in Unreliables, a < b PROVE Unrels[a] < Unrels[b]
  <2>1. unrelQ[a].id < unrelQ[b].id
    BY <1>9, <1>10 DEF Sorted, InOrder
  <2>2. V[unrelQ[a].id] < V[unrelQ[b].id]
    <3>1. unrelQ[a].id \in 0..Len(sent)
      BY <1>9
    <3> QED BY <1>9, <2>1, <3>1, UnreliableOrder
  <2> QED BY <1>1, <1>9, <2>2
<1>11. Len(unrelQ) \in Nat /\ Unreliables \in SUBSET (1..Len(unrelQ))
  BY SearchedPlaces DEF Numbering, Unreliables
<1>12. ASSUME NEW k \in Unreliables
       PROVE  LET p == Place(w, Unrels, Unreliables)
              IN  (k <= p => unrelQ[k].id < i) /\ (k > p => i < unrelQ[k].id)
  <2>1. /\ k <= Place(w, Unrels, Unreliables) => Unrels[k] < w
        /\ k > Place(w, Unrels, Unreliables) => w < Unrels[k]
    <3> HIDE DEF w
    <3> QED BY <1>5, <1>7, <1>9, <1>10, <1>11, PlaceParts
  <2>2. /\ Unrels[k] < w => V[unrelQ[k].id] < V[i]
        /\ w < Unrels[k] => V[i] < V[unrelQ[k].id]
    BY <1>1, <1>3, <1>9
  <2>3. /\ V[unrelQ[k].id] < V[i] <=> unrelQ[k].id < i
        /\ V[i] < V[unrelQ[k].id] <=> i < unrelQ[k].id
    <3>1. unrelQ[k].id \in 0..Len(sent)
      BY <1>9
    <3> QED BY <1>0, <1>2, <1>9, <3>1, UnreliableOrder
  <2> HIDE DEF w
  <2> QED BY <2>1, <2>2, <2>3
<1>13. \A k \in DOMAIN unrelQ : unrelQ[k].type \in UnrelTypes => k \in Unreliables
  BY DEF Unreliables, UnrelTypes
<1>14. Widen(m.useq, inUnrel) = w
  BY <1>4, <1>6
<1> HIDE DEF w
<1> QED BY <1>8, <1>12, <1>13, <1>14 DEF i

\* What is behind the head of a queue stays in order, after the head.
LEMMA TailInOrder ==
    ASSUME NEW q, Queue(q), q # <<>>, NEW types, NEW x, InOrder(q, types), After(q, types, x)
    PROVE  /\ InOrder(Tail(q), types) /\ After(Tail(q), types, x)
           /\ q[1].type \in types => x < q[1].id /\ After(Tail(q), types, q[1].id)
<1>1. PICK t : t = Tail(q)
  OBVIOUS
<1>2. 1 \in DOMAIN q /\ DOMAIN t \subseteq Nat \ {0} /\ DOMAIN q \subseteq Nat
  <2>1. q \in Seq(Incoming) /\ t \in Seq(Incoming)
    BY <1>1, QueueShrinks DEF Queue
  <2>2. DOMAIN q = 1..Len(q) /\ Len(q) \in Nat /\ Len(q) # 0 /\ DOMAIN t = 1..Len(t)
    BY <2>1, LenProperties, EmptySeq
  <2> QED BY <2>2
<1>3. \A i \in DOMAIN t : i + 1 \in DOMAIN q /\ t[i] = q[i + 1]
  BY <1>1, QueueShrinks
<1>4. After(t, types, x)
  BY <1>3 DEF After
<1>5. ASSUME NEW i \in DOMAIN t, NEW j \in DOMAIN t, i < j,
             t[i].type \in types, t[j].type \in types
      PROVE  t[i].id < t[j].id
  <2>1. i + 1 < j + 1
    BY <1>2, <1>5
  <2> QED BY <1>3, <1>5, <2>1 DEF InOrder
<1>6. ASSUME q[1].type \in types PROVE x < q[1].id /\ After(t, types, q[1].id)
  <2>1. x < q[1].id
    BY <1>2, <1>6 DEF After
  <2>2. ASSUME NEW i \in DOMAIN t, t[i].type \in types PROVE q[1].id < t[i].id
    <3>1. 1 < i + 1
      BY <1>2
    <3> QED BY <1>2, <1>3, <1>6, <2>2, <3>1 DEF InOrder
  <2> QED BY <2>1, <2>2 DEF After
<1>7. InOrder(t, types)
  BY <1>5 DEF InOrder
<1> QED BY <1>1, <1>4, <1>6, <1>7

\* The order stays when another packet is sent.
LEMMA SortedSend ==
    ASSUME NEW n, NEW U, NEW V, NEW Y, NEW r, NEW u, Numbering(n, U, V), InPlace(n, U, V, r),
           Sorted(n, V, r, u), Send, \A i \in 0..Len(sent) : Y[i] = V[i]
    PROVE  Sorted(n, Y, r, u)'
<1>1. PICK kind \in Kinds : Sends(kind)
  BY DEF Send, SendReliable, SendFragmented, SendUnreliable, SendUnsequenced, Sends
<1>2. sent' = Append(sent, kind)
      /\ UNCHANGED <<inRel, inUnrel, inGroup, window, relQ, unrelQ, result, got>>
  BY <1>1 DEF Sends
<1>3. Len(sent) \in Nat /\ sent \in Seq(Kinds)
  BY NumbersGrow
<1>4. Len(sent') = Len(sent) + 1 /\ \A i \in 1..Len(sent) : sent'[i] = sent[i]
  BY <1>2, <1>3, AppendProperties
<1>5. u \in 0..Len(sent) /\ inUnrel = Num(n, V[u])
  BY DEF Sorted
<1>6. u \in 0..Len(sent') /\ inUnrel' = Num(n, Y[u])
  BY <1>2, <1>3, <1>4, <1>5
<1>7. \A j \in DOMAIN got : sent'[got[j].id] = sent[got[j].id]
  BY <1>4 DEF InPlace, GotInPlace
<1>8. (InOrder(relQ, RelTypes) /\ After(relQ, RelTypes, r)
       /\ InOrder(unrelQ, UnrelTypes) /\ After(unrelQ, UnrelTypes, u))'
  BY <1>2 DEF Sorted, InOrder, After, RelTypes, UnrelTypes
<1>9. /\ \A i, j \in DOMAIN got :
           sent'[got[i].id] = "unreliable" /\ sent'[got[j].id] = "unreliable" /\ i < j
           => got[i].id < got[j].id
      /\ \A j \in DOMAIN got : sent'[got[j].id] = "unreliable" => got[j].id <= u
  <2>1. /\ \A i, j \in DOMAIN got :
             sent[got[i].id] = "unreliable" /\ sent[got[j].id] = "unreliable" /\ i < j
             => got[i].id < got[j].id
        /\ \A j \in DOMAIN got : sent[got[j].id] = "unreliable" => got[j].id <= u
    BY DEF Sorted
  <2> QED BY <1>7, <2>1
<1>10. got' = got
  BY <1>2
<1> QED BY <1>6, <1>8, <1>9, <1>10 DEF Sorted

\* A reliable packet that is queued goes to its place.
LEMMA SortedQueue ==
    ASSUME NEW n, NEW U, NEW V, NEW r, NEW u, Numbering(n, U, V), InPlace(n, U, V, r),
           ~Wrapped, Sorted(n, V, r, u), NEW e, Entry(e),
           e.id \in 1..Len(sent), sent[e.id] \in Ordered, Len(sent) - e.id < Window,
           e.rel = Num(n, First(U, e.id)), ~RefusedReliable(e.rel), QueueReliable(e)
    PROVE  InOrder(relQ', RelTypes) /\ After(relQ', RelTypes, r)
<1>1. PICK p : p = Place(Widen(e.rel, inRel), Rels, DOMAIN relQ)
  OBVIOUS
<1>2. p \in 0..Len(relQ) /\ relQ' = InsertAt(relQ, p + 1, e) /\ Queue(relQ)
  BY <1>1, SearchedPlaces DEF Numbering, QueueReliable, Typed
<1>3. r < e.id /\ \A k \in DOMAIN relQ : (k <= p => relQ[k].id < e.id) /\ (k > p => e.id < relQ[k].id)
  <2>1. PICK i \in 1..Len(sent) : i = e.id
    OBVIOUS
  <2>2. sent[i] \in Ordered /\ Len(sent) - i < Window /\ ~RefusedReliable(Num(n, First(U, i)))
        /\ p = Place(Widen(Num(n, First(U, i)), inRel), Rels, DOMAIN relQ)
    BY <1>1, <2>1
  <2>3. /\ r < i
        /\ \A k \in DOMAIN relQ :
             LET pp == Place(Widen(Num(n, First(U, i)), inRel), Rels, DOMAIN relQ)
             IN  (k <= pp => relQ[k].id < i) /\ (k > pp => i < relQ[k].id)
    BY <2>2, AcceptedReliable
  <2> QED BY <2>1, <2>2, <2>3
<1>4. r \in Nat
  <2>1. Len(sent) \in Nat /\ r \in 0..Len(sent)
    BY NumbersGrow DEF InPlace, GotInPlace
  <2> QED BY <2>1
<1> QED BY <1>2, <1>3, <1>4, InsertInOrder DEF Sorted

\* The order stays when a message arrives.
LEMMA SortedHandle ==
    ASSUME NEW n, NEW U, NEW V, NEW r, NEW u, Numbering(n, U, V), InPlace(n, U, V, r),
           ~Wrapped, Sorted(n, V, r, u), NEW m \in net, Handle(m)
    PROVE  Sorted(n, V, r, u)'
<1>0. Typed /\ m \in Message /\ Bears(n, U, V, m)
  BY DEF Numbering, Typed
<1>1. UNCHANGED sender /\ UNCHANGED <<inRel, inUnrel, got>> /\ Len(sent) - m.id < Window
  BY DEF Handle, OnReliable, OnUnreliable, OnUnsequenced, OnFragment, Arrives
<1>2. sent' = sent /\ got' = got /\ inUnrel' = inUnrel
  BY <1>1 DEF sender
<1>3. /\ InOrder(relQ, RelTypes) /\ After(relQ, RelTypes, r)
      /\ InOrder(unrelQ, UnrelTypes) /\ After(unrelQ, UnrelTypes, u)
  BY DEF Sorted
<1>4. Queue(relQ) /\ Queue(unrelQ) /\ m.seq \in Numbers /\ m.start \in Numbers /\ u \in Nat
  <2>1. Len(sent) \in Nat /\ u \in 0..Len(sent)
    BY NumbersGrow DEF Sorted
  <2> QED BY <1>0, <2>1 DEF Typed, Message
<1>5. /\ Incame(m, m.seq).id = m.id /\ Incame(m, m.seq).rel = m.seq
      /\ Incame(m, m.seq).type = m.type /\ Incame(m, m.seq).unrel = m.useq
  BY DEF Incame
<1>6. /\ InOrder(relQ', RelTypes) /\ After(relQ', RelTypes, r)
      /\ InOrder(unrelQ', UnrelTypes) /\ After(unrelQ', UnrelTypes, u)
  <2>1. CASE OnReliable(m)
    <3>1. m.type = "RELIABLE_DATA" /\ unrelQ' = unrelQ
          /\ (relQ' = relQ \/ (~RefusedReliable(m.seq) /\ QueueReliable(Incame(m, m.seq))))
      <4>1. m.type = "RELIABLE_DATA" /\ unrelQ' = unrelQ
        BY <2>1 DEF OnReliable, Arrives
      <4>2. CASE RefusedReliable(m.seq)
        <5>1. relQ' = relQ
          BY <2>1, <4>2, Zenon DEF OnReliable
        <5> QED BY <4>1, <5>1
      <4>3. CASE ~RefusedReliable(m.seq)
        <5>1. QueueReliable(Incame(m, m.seq))
          BY <2>1, <4>3, Zenon DEF OnReliable
        <5> QED BY <4>1, <4>3, <5>1
      <4> QED BY <4>2, <4>3
    <3>2. Entry(Incame(m, m.seq)) /\ sent[m.id] \in Ordered /\ m.id \in 1..Len(sent)
          /\ m.seq = Num(n, First(U, m.id))
      BY <1>0, <1>4, <3>1, IncameEntry DEF Bears, Ordered
    <3>3. CASE relQ' = relQ
      BY <1>3, <3>1, <3>3
    <3>4. CASE ~RefusedReliable(m.seq) /\ QueueReliable(Incame(m, m.seq))
      <4>1. PICK e : e = Incame(m, m.seq)
        OBVIOUS
      <4>2. Entry(e) /\ e.id \in 1..Len(sent) /\ sent[e.id] \in Ordered /\ Len(sent) - e.id < Window
            /\ e.rel = Num(n, First(U, e.id)) /\ ~RefusedReliable(e.rel) /\ QueueReliable(e)
        BY <1>1, <1>5, <3>2, <3>4, <4>1
      <4>3. InOrder(relQ', RelTypes) /\ After(relQ', RelTypes, r)
        BY <4>2, SortedQueue
      <4> QED BY <1>3, <3>1, <4>3
    <3> QED BY <3>1, <3>3, <3>4
  <2>2. CASE OnUnreliable(m)
    <3>1. m.type = "UNRELIABLE_DATA" /\ relQ' = relQ
          /\ (unrelQ' = unrelQ \/ (~RefusedUnreliable(m) /\ QueueUnreliable(Incame(m, m.seq))))
      <4>1. m.type = "UNRELIABLE_DATA" /\ relQ' = relQ
        BY <2>2 DEF OnUnreliable, Arrives
      <4>2. CASE RefusedUnreliable(m)
        <5>1. unrelQ' = unrelQ
          BY <2>2, <4>2, Zenon DEF OnUnreliable
        <5> QED BY <4>1, <5>1
      <4>3. CASE ~RefusedUnreliable(m)
        <5>1. QueueUnreliable(Incame(m, m.seq))
          BY <2>2, <4>3, Zenon DEF OnUnreliable
        <5> QED BY <4>1, <4>3, <5>1
      <4> QED BY <4>2, <4>3
    <3>2. CASE unrelQ' = unrelQ
      BY <1>3, <3>1, <3>2
    <3>3. CASE ~RefusedUnreliable(m) /\ QueueUnreliable(Incame(m, m.seq))
      <4>1. PICK p : p = Place(Widen(m.useq, inUnrel), Unrels, Unreliables)
        OBVIOUS
      <4>2. p \in 0..Len(unrelQ) /\ unrelQ' = InsertAt(unrelQ, p + 1, Incame(m, m.seq))
        BY <1>0, <1>5, <3>3, <4>1, SearchedPlaces DEF QueueUnreliable
      <4>3. u < m.id /\ \A k \in DOMAIN unrelQ : unrelQ[k].type \in UnrelTypes =>
              (k <= p => unrelQ[k].id < m.id) /\ (k > p => m.id < unrelQ[k].id)
        BY <1>1, <3>1, <3>3, <4>1, AcceptedUnreliable
      <4>4. Entry(Incame(m, m.seq))
        BY <1>0, <1>4, <3>1, IncameEntry
      <4>5. InOrder(unrelQ', UnrelTypes) /\ After(unrelQ', UnrelTypes, u)
        BY <1>3, <1>4, <1>5, <4>2, <4>3, <4>4, InsertInOrder
      <4> QED BY <1>3, <3>1, <4>5
    <3> QED BY <3>1, <3>2, <3>3
  <2>3. CASE OnUnsequenced(m)
    <3>1. m.type = "UNSEQUENCED_DATA" /\ relQ' = relQ
          /\ (unrelQ' = unrelQ \/ unrelQ' = <<Incame(m, m.seq)>> \o unrelQ)
      BY <2>3 DEF OnUnsequenced, Arrives
    <3>2. CASE unrelQ' = unrelQ
      BY <1>3, <3>1, <3>2
    <3>3. CASE unrelQ' = <<Incame(m, m.seq)>> \o unrelQ
      <4>1. Entry(Incame(m, m.seq)) /\ Incame(m, m.seq).type \notin UnrelTypes
        BY <1>0, <1>4, <1>5, <3>1, IncameEntry DEF UnrelTypes
      <4>2. unrelQ' = InsertAt(unrelQ, 0 + 1, Incame(m, m.seq)) /\ 0 \in 0..Len(unrelQ)
        BY <1>0, <1>4, <3>3, <4>1, FrontInserted, SearchedPlaces DEF Queue, Entry
      <4>3. InOrder(unrelQ', UnrelTypes) /\ After(unrelQ', UnrelTypes, u)
        BY <1>3, <1>4, <4>1, <4>2, InsertInOrder
      <4> QED BY <1>3, <3>1, <4>3
    <3> QED BY <3>1, <3>2, <3>3
  <2>4. CASE OnFragment(m)
    <3>1. m.type = "DATA_FRAGMENT" /\ unrelQ' = unrelQ
      BY <2>4, FragmentIs DEF Arrives
    <3>2. ASSUME MatesOf(m) # {}, relQ' = [relQ EXCEPT ![MateOf(m)] = Copied(@, m)]
          PROVE  InOrder(relQ', RelTypes) /\ After(relQ', RelTypes, r)
      <4>1. PICK k \in DOMAIN relQ : k = MateOf(m)
        BY <1>0, <3>2, MateFound DEF MatesOf
      <4>2. Entry(relQ[k]) /\ relQ[k] \in Incoming
        BY <1>4 DEF Queue, Entry
      <4>3. Copied(relQ[k], m).type = relQ[k].type /\ Copied(relQ[k], m).id = relQ[k].id
        BY <1>0, <4>2, CopiedFields
      <4>4. relQ' = [relQ EXCEPT ![k] = Copied(relQ[k], m)]
        BY <3>2, <4>1
      <4>5. DOMAIN relQ' = DOMAIN relQ
            /\ \A i \in DOMAIN relQ : relQ'[i].type = relQ[i].type /\ relQ'[i].id = relQ[i].id
        BY <4>3, <4>4
      <4> QED BY <1>3, <4>5 DEF InOrder, After
    <3>3. ASSUME ~RefusedReliable(m.start), QueueReliable(Copied(FirstOf(m), m))
          PROVE  InOrder(relQ', RelTypes) /\ After(relQ', RelTypes, r)
      <4>1. PICK e : e = Copied(FirstOf(m), m)
        OBVIOUS
      <4>2. Entry(e) /\ Sits(n, U, e)
        BY <1>0, <1>4, <3>1, <4>1, FirstEntry, CopiedEntry, IncameSits DEF FirstOf
      <4>3. e.id = m.id /\ e.rel = m.start
        <5>1. FirstOf(m) \in Incoming
          BY <1>0, <1>4, FirstEntry DEF Entry, FirstOf
        <5>2. PICK a : a = Incame(m, m.start)
          OBVIOUS
        <5>3. a \in Incoming /\ a.id = m.id /\ a.rel = m.start
          BY <1>0, <1>4, <5>2, IncameEntry DEF Incame
        <5>4. FirstOf(m) = [a EXCEPT !.remaining = Fragments, !.parts = {}]
          BY <5>2 DEF FirstOf
        <5>5. FirstOf(m).id = m.id /\ FirstOf(m).rel = m.start
          BY <5>3, <5>4 DEF Incoming
        <5> QED BY <1>0, <4>1, <5>1, <5>5, CopiedFields
      <4>4. e.id \in 1..Len(sent) /\ sent[e.id] \in Ordered /\ e.rel = Num(n, First(U, e.id))
        BY <4>2 DEF Sits, Ordered
      <4> QED BY <1>1, <3>3, <4>1, <4>2, <4>3, <4>4, SortedQueue
    <3> QED BY <1>3, <2>4, <3>1, <3>2, <3>3, FragmentIs
  <2> QED BY <2>1, <2>2, <2>3, <2>4 DEF Handle
<1> QED BY <1>2, <1>6 DEF Sorted

\* The order stays when an unreliable or an unsequenced packet is received.
LEMMA SortedUnreliable ==
    ASSUME NEW n, NEW U, NEW V, NEW r, NEW u, Numbering(n, U, V), InPlace(n, U, V, r),
           Sorted(n, V, r, u), ReceiveUnreliable
    PROVE  \E v : Sorted(n, V, r, v)'
<1> DEFINE g == [id |-> Head(unrelQ).id, parts |-> Head(unrelQ).parts]
<1>1. PICK e : e = Head(unrelQ)
  OBVIOUS
<1>2. /\ unrelQ # <<>> /\ unrelQ' = Tail(unrelQ) /\ got' = Append(got, g)
      /\ inUnrel' = IF e.type = "UNRELIABLE_DATA" THEN e.unrel ELSE inUnrel
      /\ sent' = sent /\ relQ' = relQ
  BY <1>1 DEF ReceiveUnreliable, UnreliableReady, sender
<1>3. Typed /\ Queue(unrelQ)
  BY DEF Numbering, Typed
<1>4. e = unrelQ[1] /\ 1 \in DOMAIN unrelQ
  <2>1. DOMAIN unrelQ = 1..Len(unrelQ) /\ Len(unrelQ) \in Nat /\ Len(unrelQ) # 0
    BY <1>2, <1>3, LenProperties, EmptySeq DEF Queue
  <2> QED BY <1>1, <1>2, <1>3, <2>1, QueueShrinks
<1>5. Waits(n, U, V, e)
  BY <1>4 DEF InPlace
<1>6. /\ InOrder(unrelQ', UnrelTypes) /\ After(unrelQ', UnrelTypes, u)
      /\ e.type \in UnrelTypes => u < e.id /\ After(unrelQ', UnrelTypes, e.id)
  BY <1>2, <1>3, <1>4, TailInOrder DEF Sorted
<1>7. InOrder(relQ', RelTypes) /\ After(relQ', RelTypes, r)
  BY <1>2 DEF Sorted
<1>8. g.id = e.id
  BY <1>1
<1> HIDE DEF g
<1> DEFINE L == Len(got)
<1>9. /\ L \in Nat /\ DOMAIN got = 1..L
      /\ \A i \in DOMAIN got : got'[i] = got[i] /\ i < L + 1
      /\ got'[L + 1] = g
      /\ \A k \in DOMAIN got' : k \in DOMAIN got \/ k = L + 1
  <2>1. /\ L \in Nat /\ DOMAIN got = 1..L /\ DOMAIN got' = 1..(L + 1)
        /\ \A i \in DOMAIN got : got'[i] = got[i] /\ i < L + 1
        /\ got'[L + 1] = g
    BY <1>2, <1>3, GotGrows
  <2> QED BY <2>1
<1>10. /\ u \in 0..Len(sent) /\ inUnrel = Num(n, V[u]) /\ Len(sent) \in Nat
       /\ \A i, j \in DOMAIN got :
            sent[got[i].id] = "unreliable" /\ sent[got[j].id] = "unreliable" /\ i < j
            => got[i].id < got[j].id
       /\ \A j \in DOMAIN got : sent[got[j].id] = "unreliable" => got[j].id <= u
  BY NumbersGrow DEF Sorted
<1>11. \A j \in DOMAIN got : got[j].id \in 1..Len(sent)
  BY DEF InPlace, GotInPlace
<1> HIDE DEF L
<1>12. CASE e.type = "UNRELIABLE_DATA"
  <2>1. PICK v : v = e.id
    OBVIOUS
  <2>2. v \in 1..Len(sent) /\ v \in 0..Len(sent) /\ v \in Nat /\ e.unrel = Num(n, V[v])
        /\ sent[v] = "unreliable" /\ u < v
    BY <1>5, <1>6, <1>10, <1>12, <2>1 DEF Waits, UnrelTypes
  <2>3. ASSUME NEW j \in DOMAIN got, sent[got[j].id] = "unreliable" PROVE got[j].id < v
    <3>1. got[j].id <= u /\ got[j].id \in Nat /\ u \in Nat
      BY <1>10, <1>11, <2>3
    <3> QED BY <2>2, <3>1
  <2>4. ASSUME NEW j \in DOMAIN got', sent[got'[j].id] = "unreliable" PROVE got'[j].id <= v
    <3>1. CASE j \in DOMAIN got
      <4>1. got[j].id < v /\ got[j].id \in Nat
        BY <1>9, <1>11, <2>3, <2>4, <3>1
      <4> QED BY <1>9, <2>2, <3>1, <4>1
    <3>2. CASE j = L + 1
      BY <1>8, <1>9, <2>1, <2>2, <3>2
    <3> QED BY <1>9, <3>1, <3>2
  <2>5. ASSUME NEW i \in DOMAIN got', NEW j \in DOMAIN got', i < j,
               sent[got'[i].id] = "unreliable", sent[got'[j].id] = "unreliable"
        PROVE  got'[i].id < got'[j].id
    <3>1. i \in DOMAIN got
      <4>1. CASE i = L + 1
        BY <1>9, <2>5, <4>1
      <4> QED BY <1>9, <4>1
    <3>2. CASE j \in DOMAIN got
      BY <1>9, <1>10, <2>5, <3>1, <3>2
    <3>3. CASE j = L + 1
      BY <1>8, <1>9, <2>1, <2>3, <2>5, <3>1, <3>3
    <3> QED BY <1>9, <3>2, <3>3
  <2>6. inUnrel' = Num(n, V[v])
    BY <1>2, <1>12, <2>2
  <2>7. After(unrelQ', UnrelTypes, v)
    BY <1>6, <1>12, <2>1 DEF UnrelTypes
  <2>8. Sorted(n, V, r, v)'
    BY <1>2, <1>6, <1>7, <2>2, <2>4, <2>5, <2>6, <2>7 DEF Sorted
  <2> QED BY <2>8
<1>13. CASE e.type # "UNRELIABLE_DATA"
  <2>1. sent[g.id] # "unreliable"
    BY <1>5, <1>8, <1>13 DEF Waits
  <2>2. \A k \in DOMAIN got' : sent[got'[k].id] = "unreliable" => k \in DOMAIN got /\ got'[k] = got[k]
    BY <1>9, <2>1
  <2>3. inUnrel' = inUnrel
    BY <1>2, <1>13
  <2>4. Sorted(n, V, r, u)'
    BY <1>2, <1>6, <1>7, <1>10, <2>2, <2>3 DEF Sorted
  <2> QED BY <2>4
<1> QED BY <1>12, <1>13

\* The order stays when a reliable packet is received.
LEMMA SortedReliable ==
    ASSUME NEW n, NEW U, NEW V, NEW r, NEW u, NEW s, Numbering(n, U, V), InPlace(n, U, V, r),
           Sorted(n, V, r, u), ReceiveReliable, relQ # <<>>, s = relQ[1].id
    PROVE  Sorted(n, V, s, u)'
<1> DEFINE g == [id |-> Head(relQ).id, parts |-> Head(relQ).parts]
<1>1. relQ' = Tail(relQ) /\ got' = Append(got, g) /\ inUnrel' = inUnrel /\ sent' = sent
      /\ unrelQ' = unrelQ
  BY DEF ReceiveReliable, sender
<1>2. Typed /\ Queue(relQ)
  BY DEF Numbering, Typed
<1>3. Head(relQ) = relQ[1] /\ 1 \in DOMAIN relQ
  <2>1. DOMAIN relQ = 1..Len(relQ) /\ Len(relQ) \in Nat /\ Len(relQ) # 0
    BY <1>2, LenProperties, EmptySeq DEF Queue
  <2> QED BY <1>2, <2>1, QueueShrinks
<1>4. Sits(n, U, relQ[1])
  BY <1>3 DEF InPlace
<1>5. g.id = s /\ sent[g.id] # "unreliable" /\ relQ[1].type \in RelTypes
  BY <1>3, <1>4 DEF Sits, RelTypes
<1> HIDE DEF g
<1>6. InOrder(relQ', RelTypes) /\ After(relQ', RelTypes, s)
  BY <1>1, <1>2, <1>5, TailInOrder DEF Sorted
<1>7. InOrder(unrelQ', UnrelTypes) /\ After(unrelQ', UnrelTypes, u)
  BY <1>1 DEF Sorted
<1>8. \A k \in DOMAIN got' : sent[got'[k].id] = "unreliable" => k \in DOMAIN got /\ got'[k] = got[k]
  <2>1. /\ Len(got) \in Nat /\ DOMAIN got = 1..Len(got) /\ DOMAIN got' = 1..(Len(got) + 1)
        /\ \A i \in DOMAIN got : got'[i] = got[i]
        /\ got'[Len(got) + 1] = g
    BY <1>1, <1>2, GotGrows
  <2>2. \A k \in DOMAIN got' : k \in DOMAIN got \/ k = Len(got) + 1
    BY <2>1
  <2> QED BY <1>5, <2>1, <2>2
<1> QED BY <1>1, <1>6, <1>7, <1>8 DEF Sorted

-----------------------------------------------------------------------------
(* The invariant.                                                          *)

\* Neither the reliable nor the unreliable numbers wrapped.
Plain(n) == n + NumbersUsed < Modulus /\ n + Count("unreliable") < Modulus

\* The packets sent took the numbers U and V from n on.  For one lap of the numbers, what is
\* queued and what was received, up to the reliable packet r and the unreliable one u, is in
\* its place; and before the wrap the queues are in order.
Holds(n, U, V, r, u) ==
    /\ Numbering(n, U, V)
    /\ Lap => InPlace(n, U, V, r)
    /\ Plain(n) => Sorted(n, V, r, u)

ChannelInv == \E n, U, V, r, u : Holds(n, U, V, r, u)

\* What did not wrap is within a lap.
LEMMA PlainIs ==
    ASSUME NEW n, NEW U, NEW V, Numbering(n, U, V)
    PROVE  (Plain(n) <=> ~Wrapped) /\ (Plain(n) => Lap)
BY WrappedIs, PlainNumbers DEF Plain

\* At first nothing was sent, queued or received.
LEMMA HoldsAtFirst == ChannelInit => ChannelInv
<1> SUFFICES ASSUME ChannelInit PROVE ChannelInv
  OBVIOUS
<1>1. PICK n, Z : /\ Z = [i \in Nat |-> 0] /\ n \in Numbers /\ Numbering(n, Z, Z)
                  /\ inRel = Num(n, 0) /\ inUnrel = Num(n, 0)
  BY NumberingAtFirst
<1>2. Z[0] = 0
  BY <1>1
<1>3. sent = <<>> /\ got = <<>> /\ relQ = <<>> /\ unrelQ = <<>>
  BY DEF ChannelInit
<1>4. Len(sent) = 0 /\ DOMAIN got = {} /\ DOMAIN relQ = {} /\ DOMAIN unrelQ = {}
  BY <1>3, EmptySeq
<1>5. 0 \in 0..Len(sent) /\ \A i \in 1..Len(sent) : FALSE
  BY <1>4
<1>6. PacketsAreWhole /\ ReliableInOrder
  BY <1>4 DEF PacketsAreWhole, ReliableInOrder
<1>7. GotInPlace(n, Z, 0)
  BY <1>1, <1>2, <1>4, <1>5, <1>6 DEF GotInPlace
<1>8. InPlace(n, Z, Z, 0)
  BY <1>4, <1>7 DEF InPlace
<1>9. Sorted(n, Z, 0, 0)
  BY <1>1, <1>2, <1>4, <1>5 DEF Sorted, InOrder, After
<1>10. Holds(n, Z, Z, 0, 0)
  BY <1>1, <1>8, <1>9 DEF Holds
<1> QED BY <1>10 DEF ChannelInv

\* Sending keeps the invariant.
LEMMA HoldsSend ==
    ASSUME NEW n, NEW U, NEW V, NEW r, NEW u, Holds(n, U, V, r, u), Send
    PROVE  ChannelInv'
<1>1. Numbering(n, U, V)
  BY DEF Holds
<1>2. PICK X, Y : Numbering(n, X, Y)' /\ \A i \in 0..Len(sent) : X[i] = U[i] /\ Y[i] = V[i]
  BY <1>1, NumberingSend
<1>3. NumbersUsed' >= NumbersUsed /\ (InPlace(n, U, V, r) => InPlace(n, X, Y, r)')
  BY <1>1, <1>2, InPlaceSend
<1>4. Sorted(n, V, r, u) /\ InPlace(n, U, V, r) => Sorted(n, Y, r, u)'
  BY <1>1, <1>2, SortedSend
<1>5. Count("unreliable")' >= Count("unreliable") /\ Count("unreliable")' \in Nat
  <2>1. PICK kind \in Kinds : sent' = Append(sent, kind)
    BY DEF Send, SendReliable, SendFragmented, SendUnreliable, SendUnsequenced, Sends
  <2>2. /\ Count("unreliable") \in Nat
        /\ Count("unreliable")' = Count("unreliable") + (IF kind = "unreliable" THEN 1 ELSE 0)
    BY <1>1, <2>1, CountGrows DEF Numbering
  <2>3. (IF kind = "unreliable" THEN 1 ELSE 0) \in {0, 1}
    OBVIOUS
  <2> QED BY <2>2, <2>3
<1>6. NumbersUsed \in Nat /\ Count("unreliable") \in Nat /\ n \in Nat /\ Modulus \in Nat
  BY <1>1, WrappedIs, NumbersAssumption DEF Numbers
<1>7. NumbersUsed' \in Nat
  <2>1. sent' \in Seq(Kinds) /\ X \in [Nat -> Nat] /\ NumbersUsed' = X[Len(sent')]
    BY <1>2 DEF Numbering, Numbered, Typed
  <2> QED BY <2>1, LenProperties
<1>8. Lap' => Lap
  BY <1>3, <1>6, <1>7 DEF Lap
<1>9. Plain(n)' => Plain(n)
  <2>1. \A a, b, c, d \in Nat : a >= b /\ n + a < d => n + b < d
    BY <1>6
  <2>2. ASSUME n + NumbersUsed' < Modulus, n + Count("unreliable")' < Modulus
        PROVE  n + NumbersUsed < Modulus /\ n + Count("unreliable") < Modulus
    BY <1>3, <1>5, <1>6, <1>7, <2>1, <2>2
  <2> QED BY <2>2 DEF Plain
<1>10. Holds(n, X, Y, r, u)'
  BY <1>1, <1>2, <1>3, <1>4, <1>8, <1>9, PlainIs DEF Holds
<1> QED BY <1>10 DEF ChannelInv

\* So does what arrives.
LEMMA HoldsHandle ==
    ASSUME NEW n, NEW U, NEW V, NEW r, NEW u, Holds(n, U, V, r, u), NEW m \in net, Handle(m)
    PROVE  ChannelInv'
<1>1. Numbering(n, U, V) /\ Typed
  BY DEF Holds, Numbering
<1>2. UNCHANGED sender
  BY DEF Handle, OnReliable, OnUnreliable, OnUnsequenced, OnFragment, Arrives
<1>3. Numbering(n, U, V)'
  BY <1>1, <1>2, HandleTyped, NumberingStays
<1>4. (Lap' <=> Lap) /\ (Plain(n)' <=> Plain(n))
  BY <1>2 DEF sender, Lap, Plain, NumbersUsed, Count
<1>5. Lap' => InPlace(n, U, V, r)'
  BY <1>1, <1>4, InPlaceHandle DEF Holds
<1>6. Plain(n)' => Sorted(n, V, r, u)'
  BY <1>1, <1>4, PlainIs, SortedHandle DEF Holds
<1>7. Holds(n, U, V, r, u)'
  BY <1>3, <1>5, <1>6 DEF Holds
<1> QED BY <1>7 DEF ChannelInv

\* And what is received.
LEMMA HoldsReceive ==
    ASSUME NEW n, NEW U, NEW V, NEW r, NEW u, Holds(n, U, V, r, u), Receive
    PROVE  ChannelInv'
<1>1. Numbering(n, U, V) /\ Typed
  BY DEF Holds, Numbering
<1>2. UNCHANGED sender
  BY DEF Receive, ReceiveReliable, ReceiveUnreliable
<1>3. Numbering(n, U, V)'
  BY <1>1, <1>2, ReceiveTyped, NumberingStays
<1>4. (Lap' <=> Lap) /\ (Plain(n)' <=> Plain(n))
  BY <1>2 DEF sender, Lap, Plain, NumbersUsed, Count
<1>5. CASE ReceiveUnreliable
  <2>1. Lap' => InPlace(n, U, V, r)'
    BY <1>1, <1>4, <1>5, InPlaceUnreliable DEF Holds
  <2>2. \E v : Plain(n)' => Sorted(n, V, r, v)'
    <3>1. CASE Plain(n)
      BY <1>1, <1>5, <3>1, PlainIs, SortedUnreliable DEF Holds
    <3>2. CASE ~Plain(n)
      BY <1>4, <3>2
    <3> QED BY <3>1, <3>2
  <2>3. PICK v : Plain(n)' => Sorted(n, V, r, v)'
    BY <2>2
  <2>4. Holds(n, U, V, r, v)'
    BY <1>3, <2>1, <2>3 DEF Holds
  <2> QED BY <2>4 DEF ChannelInv
<1>6. CASE ReceiveReliable
  <2>1. CASE Lap
    <3>1. InPlace(n, U, V, r)
      BY <2>1 DEF Holds
    <3>2. PICK s \in 1..Len(sent) : InPlace(n, U, V, s)' /\ relQ # <<>> /\ s = relQ[1].id
      BY <1>1, <1>6, <2>1, <3>1, InPlaceReliable
    <3>3. Plain(n)' => Sorted(n, V, s, u)'
      BY <1>1, <1>4, <1>6, <3>1, <3>2, SortedReliable DEF Holds
    <3>4. Holds(n, U, V, s, u)'
      BY <1>3, <3>2, <3>3 DEF Holds
    <3> QED BY <3>4 DEF ChannelInv
  <2>2. CASE ~Lap
    <3>1. ~Lap' /\ ~Plain(n)'
      BY <1>1, <1>4, <2>2, PlainIs
    <3>2. Holds(n, U, V, r, u)'
      BY <1>3, <3>1 DEF Holds
    <3> QED BY <3>2 DEF ChannelInv
  <2> QED BY <2>1, <2>2
<1> QED BY <1>5, <1>6 DEF Receive

\* The invariant holds always.
LEMMA ChannelInvHolds == ChannelSpec => []ChannelInv
<1>1. ChannelInv /\ [ChannelNext]_channelVars => ChannelInv'
  <2> SUFFICES ASSUME ChannelInv, [ChannelNext]_channelVars PROVE ChannelInv'
    OBVIOUS
  <2>1. CASE UNCHANGED channelVars
    <3>1. UNCHANGED <<outRel, outUnrel, inRel, inUnrel, relQ, unrelQ, sent, got>>
      BY <2>1 DEF channelVars
    <3>2. PICK n, U, V, r, u : Holds(n, U, V, r, u)
      BY DEF ChannelInv
    <3>3. Numbering(n, U, V)'
      <4>1. Typed' /\ UNCHANGED sender /\ Numbering(n, U, V)
        BY <2>1, <3>2, TypedStep DEF Holds, Numbering, sender, channelVars
      <4> QED BY <4>1, NumberingStays
    <3>4. (Lap' <=> Lap) /\ (Plain(n)' <=> Plain(n))
      BY <3>1 DEF Lap, Plain, NumbersUsed, Count
    <3>5. InPlace(n, U, V, r) => InPlace(n, U, V, r)'
      BY <3>1 DEF InPlace, Sits, Waits, GotInPlace, PacketsAreWhole, ReliableInOrder, Received
    <3>6. Sorted(n, V, r, u) => Sorted(n, V, r, u)'
      BY <3>1 DEF Sorted, InOrder, After, RelTypes, UnrelTypes
    <3>7. Holds(n, U, V, r, u)'
      BY <3>2, <3>3, <3>4, <3>5, <3>6 DEF Holds
    <3> QED BY <3>7 DEF ChannelInv
  <2>2. CASE ChannelNext
    <3>1. PICK n, U, V, r, u : Holds(n, U, V, r, u)
      BY DEF ChannelInv
    <3> QED BY <2>2, <3>1, HoldsSend, HoldsHandle, HoldsReceive DEF ChannelNext
  <2> QED BY <2>1, <2>2
<1> QED BY <1>1, HoldsAtFirst, PTL DEF ChannelSpec

-----------------------------------------------------------------------------
(* The theorems.                                                           *)

\* ReliableInOrder, for one lap of the sequence numbers, wherever it starts: reliable packets
\* are received in the order they were sent, none is skipped and none comes twice.
THEOREM ReliableStaysInOrder == ChannelSpec => [](Lap => ReliableInOrder)
<1>1. ChannelInv => (Lap => ReliableInOrder)
  BY DEF ChannelInv, Holds, InPlace, GotInPlace
<1> QED BY <1>1, ChannelInvHolds, PTL

\* PacketsAreWhole, for one lap: what is received of a packet are all its own fragments, and
\* no other's, though they came in any order and more than once.
THEOREM PacketsStayWhole == ChannelSpec => [](Lap => PacketsAreWhole)
<1>1. ChannelInv => (Lap => PacketsAreWhole)
  BY DEF ChannelInv, Holds, InPlace, GotInPlace
<1> QED BY <1>1, ChannelInvHolds, PTL

\* UnreliableInPlace, always: before the wrap unreliable packets are received in order, each
\* between the reliable ones it was sent between.
THEOREM UnreliableStaysInPlace == ChannelSpec => []UnreliableInPlace
<1>1. ChannelInv => UnreliableInPlace
  <2> SUFFICES ASSUME ChannelInv, ~Wrapped PROVE UnreliableInPlace
    BY DEF UnreliableInPlace
  <2>1. PICK n, U, V, r, u : Holds(n, U, V, r, u)
    BY DEF ChannelInv
  <2>2. InPlace(n, U, V, r) /\ Sorted(n, V, r, u)
    BY <2>1, PlainIs DEF Holds
  <2> QED BY <2>2 DEF InPlace, GotInPlace, Sorted, UnreliableInPlace
<1> QED BY <1>1, ChannelInvHolds, PTL

\* QueueInOrder, always: before the wrap the queue of reliable messages is sorted by their
\* distance from the last one received.
THEOREM QueueStaysInOrder == ChannelSpec => []QueueInOrder
<1>1. ChannelInv => QueueInOrder
  <2> SUFFICES ASSUME ChannelInv, ~Wrapped, NEW i \in DOMAIN relQ, NEW j \in DOMAIN relQ, i < j
               PROVE  Ahead(relQ[i]) < Ahead(relQ[j])
    BY DEF QueueInOrder
  <2>1. PICK n, U, V, r, u : Holds(n, U, V, r, u)
    BY DEF ChannelInv
  <2>2. InPlace(n, U, V, r) /\ Sorted(n, V, r, u) /\ Numbering(n, U, V)
    BY <2>1, PlainIs DEF Holds
  <2>3. r \in 0..Len(sent) /\ inRel = n + U[r] /\ U[r] \in Nat /\ n \in Nat /\ Modulus \in Nat
    <3>1. r \in 0..Len(sent) /\ inRel = Num(n, U[r])
      BY <2>2 DEF InPlace, GotInPlace
    <3> QED BY <2>2, <3>1, PlainNumbers, NumbersGrow, NumbersAssumption
  <2>4. ASSUME NEW k \in DOMAIN relQ
        PROVE  /\ relQ[k].id \in 1..Len(sent) /\ sent[relQ[k].id] \in Ordered
               /\ relQ[k].type \in RelTypes
               /\ First(U, relQ[k].id) \in Nat
               /\ Ahead(relQ[k]) = First(U, relQ[k].id) - U[r]
    <3>1. Sits(n, U, relQ[k])
      BY <2>2 DEF InPlace
    <3>2. relQ[k].id \in 1..Len(sent) /\ sent[relQ[k].id] \in Ordered
          /\ relQ[k].rel = Num(n, First(U, relQ[k].id)) /\ relQ[k].type \in RelTypes
      BY <3>1 DEF Sits, Ordered, RelTypes
    <3>3. PICK x \in 1..Len(sent) : x = relQ[k].id
      BY <3>2
    <3>4. r < x /\ Len(sent) \in Nat
      BY <2>2, <3>2, <3>3, NumbersGrow DEF Sorted, After
    <3>5. x \in 0..Len(sent) /\ x - 1 \in 0..Len(sent) /\ r <= x - 1
      BY <2>3, <3>4
    <3>6. U[x - 1] \in Nat /\ U[r] <= U[x - 1] /\ First(U, x) = U[x - 1] + 1 /\ U[x] \in Nat
          /\ First(U, x) <= U[x]
      BY <2>2, <2>3, <3>2, <3>3, <3>5, NumbersGrow DEF First
    <3>7. relQ[k].rel = n + First(U, x) /\ n + U[x] < Modulus
      BY <2>2, <3>2, <3>3, <3>5, PlainNumbers
    <3>8. PICK f \in Nat, a \in Nat, b \in Nat : f = First(U, x) /\ a = U[r] /\ b = U[x]
      BY <2>3, <3>6
    <3>9. a < f /\ f <= b /\ n + b < Modulus
      <4>1. PICK c \in Nat : c = U[x - 1]
        BY <3>6
      <4>2. a <= c /\ f = c + 1
        BY <3>6, <3>8, <4>1
      <4> QED BY <3>6, <3>7, <3>8, <4>2
    <3>10. f - a \in Numbers /\ f - a \in Int /\ (n + f) - (n + a) = f - a
      <4>1. n \in Nat /\ Modulus \in Nat
        BY <2>3
      <4>2. 0 <= f - a /\ f - a <= Modulus - 1 /\ f - a \in Int
        BY <3>9, <4>1
      <4>3. (n + f) - (n + a) = f - a
        BY <4>1
      <4> QED BY <4>1, <4>2, <4>3 DEF Numbers
    <3>11. Ahead(relQ[k]) = ((n + f) - (n + a)) % Modulus
      BY <2>3, <3>7, <3>8 DEF Ahead
    <3>12. Ahead(relQ[k]) = f - a
      BY <3>10, <3>11, Modulo
    <3> QED BY <3>2, <3>3, <3>8, <3>12
  <2>5. relQ[i].id < relQ[j].id
    BY <2>2, <2>4 DEF Sorted, InOrder
  <2>6. First(U, relQ[i].id) < First(U, relQ[j].id)
    BY <2>2, <2>4, <2>5, FirstOrder
  <2> QED BY <2>3, <2>4, <2>6
<1> QED BY <1>1, ChannelInvHolds, PTL

=============================================================================
