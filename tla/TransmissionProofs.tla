------------------------- MODULE TransmissionProofs -------------------------
(***************************************************************************)
(* Theorems about Transmission: the data in flight, the order in which     *)
(* messages leave, the delayed close, the end of a sending pass, and why a *)
(* peer is given up.  Theorems about Bandwidth: what the limits let        *)
(* through, the shares, and the divisions.                                 *)
(***************************************************************************)
EXTENDS Transmission, Bandwidth, TLAPS, NaturalsInduction, WellFoundedInduction,
        FiniteSetTheorems, SequenceTheorems

-----------------------------------------------------------------------------
(* Sums.                                                                   *)

\* Induction over the natural numbers, for a set instead of a predicate.
LEMMA SetInduction ==
    ASSUME NEW T \in SUBSET Nat, 0 \in T, \A n \in T : n + 1 \in T
    PROVE  T = Nat
<1> DEFINE U == Nat \ T
<1>1. SUFFICES ASSUME U # {} PROVE FALSE
  OBVIOUS
<1>2. IsWellFoundedOn(OpToRel(<, Nat), Nat)
  BY NatLessThanWellFounded
<1>3. \E x \in U : \A y \in U : ~ (<<y, x>> \in OpToRel(<, Nat))
  BY <1>1, <1>2, WFMin
<1>4. PICK x \in U : \A y \in U : ~(y < x)
  BY <1>3 DEF OpToRel
<1>5. x # 0 /\ x - 1 \in Nat /\ x - 1 \in T
  BY <1>4
<1> QED BY <1>5

\* The function that Sum defines by recursion.
Summing(sum, f, k) == sum = [i \in 0 .. k |-> IF i = 0 THEN 0 ELSE sum[i - 1] + f[i]]

\* The recursion of Sum has a solution, and Sum is its last value.
LEMMA SumDefined ==
    ASSUME NEW f, NEW k \in Nat
    PROVE  \E sum : Summing(sum, f, k) /\ Sum(f, k) = sum[k]
<1> DEFINE T == {m \in Nat : \E sum : Summing(sum, f, m)}
<1>1. T = Nat
  <2>1. 0 \in T
    <3> DEFINE sum == [i \in 0 .. 0 |-> 0]
    <3>1. Summing(sum, f, 0)
      BY DEF Summing
    <3> QED BY <3>1
  <2>2. ASSUME NEW m \in T PROVE m + 1 \in T
    <3>1. PICK sum : Summing(sum, f, m)
      OBVIOUS
    <3> DEFINE g == [i \in 0 .. (m + 1) |-> IF i <= m THEN sum[i] ELSE sum[m] + f[i]]
    <3>2. \A i \in 0 .. m : sum[i] = IF i = 0 THEN 0 ELSE sum[i - 1] + f[i]
      BY <3>1 DEF Summing
    <3>3. \A i \in 0 .. (m + 1) : g[i] = IF i = 0 THEN 0 ELSE g[i - 1] + f[i]
      BY <3>2
    <3>4. Summing(g, f, m + 1)
      BY <3>3, Zenon DEF Summing
    <3> QED BY <3>4
  <2> HIDE DEF T
  <2> QED BY <2>1, <2>2, SetInduction DEF T
<1>2. \E sum : Summing(sum, f, k)
  BY <1>1
<1>3. Summing(CHOOSE sum : Summing(sum, f, k), f, k)
  BY <1>2
<1>4. Sum(f, k) = (CHOOSE sum : Summing(sum, f, k))[k]
  BY DEF Sum, Summing
<1> QED BY <1>3, <1>4

\* Solutions of the recursion for two lengths agree as far as both go.
LEMMA SummingAgree ==
    ASSUME NEW f, NEW k \in Nat, NEW j \in Nat, NEW s, NEW t,
           Summing(s, f, k), Summing(t, f, j)
    PROVE  \A i \in Nat : i <= k /\ i <= j => s[i] = t[i]
<1>1. /\ \A i \in 0 .. k : s[i] = IF i = 0 THEN 0 ELSE s[i - 1] + f[i]
      /\ \A i \in 0 .. j : t[i] = IF i = 0 THEN 0 ELSE t[i - 1] + f[i]
  BY DEF Summing
<1> DEFINE T == {i \in Nat : i <= k /\ i <= j => s[i] = t[i]}
<1>2. 0 \in T
  BY <1>1
<1>3. ASSUME NEW i \in T PROVE i + 1 \in T
  <2> SUFFICES ASSUME i + 1 <= k, i + 1 <= j PROVE s[i + 1] = t[i + 1]
    OBVIOUS
  <2>1. s[i] = t[i] /\ i + 1 \in 0 .. k /\ i + 1 \in 0 .. j /\ i + 1 # 0 /\ (i + 1) - 1 = i
    OBVIOUS
  <2>2. s[i + 1] = s[(i + 1) - 1] + f[i + 1] /\ t[i + 1] = t[(i + 1) - 1] + f[i + 1]
    BY <1>1, <2>1
  <2> QED BY <2>1, <2>2
<1> HIDE DEF T
<1>4. T = Nat
  BY <1>2, <1>3, SetInduction DEF T
<1> QED BY <1>4 DEF T

\* A sum begins with nothing and grows by one number.
LEMMA SumStep ==
    ASSUME NEW f, NEW k \in Nat
    PROVE  Sum(f, 0) = 0 /\ Sum(f, k + 1) = Sum(f, k) + f[k + 1]
<1>1. PICK z : Summing(z, f, 0) /\ Sum(f, 0) = z[0]
  BY SumDefined
<1>2. PICK s : Summing(s, f, k) /\ Sum(f, k) = s[k]
  BY SumDefined
<1>3. PICK t : Summing(t, f, k + 1) /\ Sum(f, k + 1) = t[k + 1]
  BY SumDefined
<1>4. z[0] = 0
  BY <1>1 DEF Summing
<1>5. t[k] = s[k]
  BY <1>2, <1>3, SummingAgree
<1>6. k + 1 \in 0 .. (k + 1) /\ k + 1 # 0 /\ (k + 1) - 1 = k
  OBVIOUS
<1>7. t[k + 1] = t[(k + 1) - 1] + f[k + 1]
  BY <1>3, <1>6 DEF Summing
<1> QED BY <1>1, <1>2, <1>3, <1>4, <1>5, <1>6, <1>7

\* Sums of the same numbers are the same.
LEMMA SumSame ==
    ASSUME NEW f, NEW g, NEW k \in Nat, \A i \in 1 .. k : f[i] = g[i]
    PROVE  Sum(f, k) = Sum(g, k)
<1> DEFINE T == {i \in Nat : i <= k => Sum(f, i) = Sum(g, i)}
<1>1. 0 \in T
  BY SumStep
<1>2. ASSUME NEW i \in T PROVE i + 1 \in T
  <2> SUFFICES ASSUME i + 1 <= k PROVE Sum(f, i + 1) = Sum(g, i + 1)
    OBVIOUS
  <2>1. Sum(f, i) = Sum(g, i) /\ i + 1 \in 1 .. k
    OBVIOUS
  <2>2. Sum(f, i + 1) = Sum(f, i) + f[i + 1] /\ Sum(g, i + 1) = Sum(g, i) + g[i + 1]
    BY SumStep
  <2> QED BY <2>1, <2>2
<1> HIDE DEF T
<1>3. T = Nat
  BY <1>1, <1>2, SetInduction DEF T
<1> QED BY <1>3 DEF T

\* A sum of natural numbers is one.
LEMMA SumNatural ==
    ASSUME NEW f, NEW k \in Nat, \A i \in 1 .. k : f[i] \in Nat
    PROVE  Sum(f, k) \in Nat
<1> DEFINE T == {i \in Nat : i <= k => Sum(f, i) \in Nat}
<1>1. 0 \in T
  BY SumStep
<1>2. ASSUME NEW i \in T PROVE i + 1 \in T
  <2> SUFFICES ASSUME i + 1 <= k PROVE Sum(f, i + 1) \in Nat
    OBVIOUS
  <2>1. Sum(f, i) \in Nat /\ i + 1 \in 1 .. k
    OBVIOUS
  <2>2. Sum(f, i + 1) = Sum(f, i) + f[i + 1]
    BY SumStep
  <2> QED BY <2>1, <2>2
<1> HIDE DEF T
<1>3. T = Nat
  BY <1>1, <1>2, SetInduction DEF T
<1> QED BY <1>3 DEF T

-----------------------------------------------------------------------------
(* The data of messages.                                                   *)

\* A message has data, a header, and an identity that names it.
LEMMA Fields ==
    \A m \in Outgoing : m.data \in Nat /\ m.id \in Ids /\ m.rto \in Nat /\ m.sentTime \in Nat
BY DEF Outgoing

\* An empty queue has no data.
LEMMA NoData == \A s \in Seq(Outgoing) : Len(s) = 0 => DataOf(s) = 0
<1> SUFFICES ASSUME NEW s \in Seq(Outgoing), Len(s) = 0 PROVE DataOf(s) = 0
  OBVIOUS
<1> DEFINE f == [i \in DOMAIN s |-> s[i].data]
<1>1. Sum(f, 0) = 0
  BY SumStep
<1>2. DataOf(s) = Sum(f, Len(s))
  BY Zenon DEF DataOf, Data
<1> HIDE DEF f
<1> QED BY <1>1, <1>2

\* What a message adds to the data of a queue.
LEMMA DataStep ==
    ASSUME NEW s \in Seq(Outgoing), NEW k \in 0 .. (Len(s) - 1)
    PROVE  Data(s, 0) = 0 /\ Data(s, k + 1) = Data(s, k) + s[k + 1].data
<1>1. k \in Nat /\ k + 1 \in DOMAIN s
  OBVIOUS
<1> DEFINE f == [i \in DOMAIN s |-> s[i].data]
<1>2. f[k + 1] = s[k + 1].data
  BY <1>1
<1> HIDE DEF f
<1>3. Sum(f, 0) = 0 /\ Sum(f, k + 1) = Sum(f, k) + f[k + 1]
  BY <1>1, SumStep
<1> QED BY <1>2, <1>3 DEF Data, f

\* The data of the first messages of a queue is a natural number.
LEMMA DataNatural ==
    ASSUME NEW s \in Seq(Outgoing), NEW k \in 0 .. Len(s)
    PROVE  Data(s, k) \in Nat /\ Data(s, 0) = 0
<1> DEFINE f == [i \in DOMAIN s |-> s[i].data]
<1>1. \A i \in 1 .. k : f[i] \in Nat
  BY Fields
<1> HIDE DEF f
<1>2. Sum(f, k) \in Nat /\ Sum(f, 0) = 0
  BY <1>1, SumNatural, SumStep
<1> QED BY <1>2 DEF Data, f

\* It depends on these messages only.
LEMMA DataSame ==
    ASSUME NEW s \in Seq(Outgoing), NEW t \in Seq(Outgoing), NEW k \in Nat,
           k <= Len(s), k <= Len(t), \A i \in 1 .. k : s[i].data = t[i].data
    PROVE  Data(s, k) = Data(t, k)
<1> DEFINE f == [i \in DOMAIN s |-> s[i].data]
           g == [i \in DOMAIN t |-> t[i].data]
<1>1. \A i \in 1 .. k : f[i] = g[i]
  OBVIOUS
<1> HIDE DEF f, g
<1>2. Sum(f, k) = Sum(g, k)
  BY <1>1, SumSame
<1> QED BY <1>2 DEF Data, f, g

\* The data of two queues, one behind the other.
LEMMA DataConcat ==
    ASSUME NEW s \in Seq(Outgoing), NEW t \in Seq(Outgoing)
    PROVE  DataOf(s \o t) = DataOf(s) + DataOf(t)
<1> DEFINE r == s \o t
           T == {k \in Nat : k <= Len(t) => Data(r, Len(s) + k) = DataOf(s) + Data(t, k)}
<1>0. /\ r \in Seq(Outgoing) /\ Len(r) = Len(s) + Len(t) /\ Len(s) \in Nat /\ Len(t) \in Nat
      /\ \A i \in 1 .. Len(s) : r[i] = s[i]
      /\ \A i \in 1 .. Len(t) : r[Len(s) + i] = t[i]
  OBVIOUS
<1> HIDE DEF r
<1>1. DataOf(s) \in Nat
  BY DataNatural DEF DataOf
<1>2. 0 \in T
  <2>1. Data(t, 0) = 0
    BY <1>0, DataNatural
  <2>2. Data(r, Len(s)) = Data(s, Len(s))
    <3>1. \A i \in 1 .. Len(s) : r[i].data = s[i].data
      BY <1>0
    <3>2. Len(s) <= Len(r) /\ Len(s) <= Len(s)
      BY <1>0
    <3> QED BY <1>0, <3>1, <3>2, DataSame
  <2> QED BY <1>0, <1>1, <2>1, <2>2 DEF DataOf
<1>3. ASSUME NEW k \in T PROVE k + 1 \in T
  <2> SUFFICES ASSUME k + 1 <= Len(t) PROVE Data(r, Len(s) + (k + 1)) = DataOf(s) + Data(t, k + 1)
    OBVIOUS
  <2>1. /\ Data(r, Len(s) + k) = DataOf(s) + Data(t, k)
        /\ k \in 0 .. (Len(t) - 1) /\ Len(s) + k \in 0 .. (Len(r) - 1)
        /\ Len(s) + (k + 1) = (Len(s) + k) + 1 /\ k + 1 \in 1 .. Len(t) /\ k \in 0 .. Len(t)
    BY <1>0
  <2>2. Data(t, k + 1) = Data(t, k) + t[k + 1].data
    BY <2>1, DataStep
  <2>3. Data(r, (Len(s) + k) + 1) = Data(r, Len(s) + k) + r[(Len(s) + k) + 1].data
    BY <1>0, <2>1, DataStep
  <2>4. r[(Len(s) + k) + 1].data = t[k + 1].data /\ t[k + 1].data \in Nat
    <3>1. r[(Len(s) + k) + 1] = t[k + 1]
      BY <1>0, <2>1
    <3>2. t[k + 1] \in Outgoing
      BY <2>1
    <3> QED BY <3>1, <3>2, Fields
  <2>5. Data(t, k) \in Nat
    BY <2>1, DataNatural
  <2> QED BY <1>1, <2>1, <2>2, <2>3, <2>4, <2>5, SMTT(30)
<1> HIDE DEF T
<1>4. T = Nat
  BY <1>2, <1>3, SetInduction DEF T
<1> QED BY <1>0, <1>4 DEF T, DataOf, r

\* The data of a queue that one more message was put to.
LEMMA DataAppend ==
    ASSUME NEW s \in Seq(Outgoing), NEW m \in Outgoing
    PROVE  DataOf(Append(s, m)) = DataOf(s) + m.data
<1> DEFINE r == Append(s, m)
<1>1. /\ r \in Seq(Outgoing) /\ Len(r) = Len(s) + 1 /\ Len(s) \in Nat
      /\ \A i \in 1 .. Len(s) : r[i] = s[i]
      /\ r[Len(s) + 1] = m
  OBVIOUS
<1> HIDE DEF r
<1>2. Len(s) \in 0 .. (Len(r) - 1)
  BY <1>1
<1>3. Data(r, Len(s) + 1) = Data(r, Len(s)) + r[Len(s) + 1].data
  BY <1>1, <1>2, DataStep
<1>4. Data(r, Len(s)) = Data(s, Len(s))
  <2>1. \A i \in 1 .. Len(s) : r[i].data = s[i].data
    BY <1>1
  <2>2. Len(s) <= Len(r) /\ Len(s) <= Len(s)
    BY <1>1
  <2> QED BY <1>1, <2>1, <2>2, DataSame
<1> QED BY <1>1, <1>3, <1>4 DEF DataOf, r

-----------------------------------------------------------------------------
(* Parts of a queue.                                                       *)

\* The function that Those defines by recursion: what the first places give.
Taking(f, s, P, n) ==
    f = [i \in 0 .. n |->
           IF i = 0 THEN <<>>
           ELSE IF i \in P THEN Append(f[i - 1], s[i]) ELSE f[i - 1]]

\* The recursion of Those has a solution, and Those is its last value.
LEMMA ThoseDefined ==
    ASSUME NEW s \in Seq(Outgoing), NEW P
    PROVE  \E f : Taking(f, s, P, Len(s)) /\ Those(s, P) = f[Len(s)]
<1> DEFINE T == {m \in Nat : \E f : Taking(f, s, P, m)}
<1>1. T = Nat
  <2>1. 0 \in T
    <3> DEFINE f == [i \in 0 .. 0 |-> <<>>]
    <3>1. Taking(f, s, P, 0)
      BY DEF Taking
    <3> QED BY <3>1
  <2>2. ASSUME NEW m \in T PROVE m + 1 \in T
    <3>1. PICK f : Taking(f, s, P, m)
      OBVIOUS
    <3> DEFINE g == [i \in 0 .. (m + 1) |->
                       IF i <= m THEN f[i]
                       ELSE IF i \in P THEN Append(f[m], s[i]) ELSE f[m]]
    <3>2. \A i \in 0 .. m :
            f[i] = IF i = 0 THEN <<>>
                   ELSE IF i \in P THEN Append(f[i - 1], s[i]) ELSE f[i - 1]
      BY <3>1 DEF Taking
    <3>3. \A i \in 0 .. (m + 1) :
            g[i] = IF i = 0 THEN <<>>
                   ELSE IF i \in P THEN Append(g[i - 1], s[i]) ELSE g[i - 1]
      BY <3>2
    <3>4. Taking(g, s, P, m + 1)
      BY <3>3, Zenon DEF Taking
    <3> QED BY <3>4
  <2> HIDE DEF T
  <2> QED BY <2>1, <2>2, SetInduction DEF T
<1>2. Len(s) \in Nat
  OBVIOUS
<1>3. \E f : Taking(f, s, P, Len(s))
  BY <1>1, <1>2
<1>4. Taking(CHOOSE f : Taking(f, s, P, Len(s)), s, P, Len(s))
  BY <1>3
<1>5. Those(s, P) = (CHOOSE f : Taking(f, s, P, Len(s)))[Len(s)]
  BY DEF Those, Taking
<1> QED BY <1>4, <1>5

\* r holds what s has at the places P up to n, each place once.
TakenUpTo(r, s, P, n) ==
    /\ r \in Seq(Outgoing)
    /\ \E e \in [DOMAIN r -> 1 .. n] :
         /\ \A j \in DOMAIN r : e[j] \in P /\ r[j] = s[e[j]]
         /\ \A j, k \in DOMAIN r : e[j] = e[k] => j = k
         /\ \A i \in 1 .. n : i \in P => \E j \in DOMAIN r : e[j] = i

\* One place more that is not taken.
LEMMA PassedOver ==
    ASSUME NEW s \in Seq(Outgoing), NEW P, NEW n \in Nat, n + 1 <= Len(s), NEW r,
           TakenUpTo(r, s, P, n), n + 1 \notin P
    PROVE  TakenUpTo(r, s, P, n + 1)
<1>1. r \in Seq(Outgoing)
  BY DEF TakenUpTo
<1>2. PICK e \in [DOMAIN r -> 1 .. n] :
         /\ \A j \in DOMAIN r : e[j] \in P /\ r[j] = s[e[j]]
         /\ \A j, k \in DOMAIN r : e[j] = e[k] => j = k
         /\ \A i \in 1 .. n : i \in P => \E j \in DOMAIN r : e[j] = i
  BY DEF TakenUpTo
<1>3. e \in [DOMAIN r -> 1 .. (n + 1)]
  OBVIOUS
<1>4. \A i \in 1 .. (n + 1) : i \in P => \E j \in DOMAIN r : e[j] = i
  BY <1>2
<1> QED BY <1>1, <1>2, <1>3, <1>4 DEF TakenUpTo

\* One place more that is taken.
LEMMA TakenToo ==
    ASSUME NEW s \in Seq(Outgoing), NEW P, NEW n \in Nat, n + 1 <= Len(s), NEW r,
           TakenUpTo(r, s, P, n), n + 1 \in P
    PROVE  TakenUpTo(Append(r, s[n + 1]), s, P, n + 1)
<1>1. r \in Seq(Outgoing) /\ s[n + 1] \in Outgoing
  BY DEF TakenUpTo
<1>2. PICK e \in [DOMAIN r -> 1 .. n] :
         /\ \A j \in DOMAIN r : e[j] \in P /\ r[j] = s[e[j]]
         /\ \A j, k \in DOMAIN r : e[j] = e[k] => j = k
         /\ \A i \in 1 .. n : i \in P => \E j \in DOMAIN r : e[j] = i
  BY DEF TakenUpTo
<1> DEFINE a == Append(r, s[n + 1])
           d == [j \in DOMAIN a |-> IF j = Len(r) + 1 THEN n + 1 ELSE e[j]]
<1>3. /\ a \in Seq(Outgoing) /\ DOMAIN a = 1 .. (Len(r) + 1) /\ DOMAIN r = 1 .. Len(r)
      /\ Len(r) \in Nat
      /\ \A j \in DOMAIN r : a[j] = r[j]
      /\ a[Len(r) + 1] = s[n + 1]
  BY <1>1
<1> HIDE DEF a
<1>4. \A j \in DOMAIN r : d[j] = e[j] /\ d[j] \in 1 .. n /\ j \in DOMAIN a
  BY <1>3
<1>5. Len(r) + 1 \in DOMAIN a /\ d[Len(r) + 1] = n + 1
  BY <1>3
<1>6. \A j \in DOMAIN a : j \in DOMAIN r \/ j = Len(r) + 1
  BY <1>3
<1>d. DOMAIN d = DOMAIN a /\ d = [j \in DOMAIN a |-> d[j]]
  OBVIOUS
<1> HIDE DEF d
<1>7. \A j \in DOMAIN a : d[j] \in 1 .. (n + 1)
  BY <1>4, <1>5, <1>6
<1>8. d \in [DOMAIN a -> 1 .. (n + 1)]
  BY <1>7, <1>d, Zenon
<1>9. \A j \in DOMAIN a : d[j] \in P /\ a[j] = s[d[j]]
  BY <1>2, <1>3, <1>4, <1>5, <1>6
<1>10. \A j, k \in DOMAIN a : d[j] = d[k] => j = k
  <2> SUFFICES ASSUME NEW j \in DOMAIN a, NEW k \in DOMAIN a, d[j] = d[k] PROVE j = k
    OBVIOUS
  <2>1. CASE j \in DOMAIN r /\ k \in DOMAIN r
    BY <1>2, <1>4, <2>1
  <2>2. CASE j \notin DOMAIN r \/ k \notin DOMAIN r
    <3>1. \A i \in DOMAIN r : d[i] # n + 1
      BY <1>4
    <3> QED BY <1>5, <1>6, <2>2, <3>1
  <2> QED BY <2>1, <2>2
<1>11. \A i \in 1 .. (n + 1) : i \in P => \E j \in DOMAIN a : d[j] = i
  <2> SUFFICES ASSUME NEW i \in 1 .. (n + 1), i \in P PROVE \E j \in DOMAIN a : d[j] = i
    OBVIOUS
  <2>1. i \in 1 .. n \/ i = n + 1
    OBVIOUS
  <2> QED BY <1>2, <1>4, <1>5, <2>1
<1> QED BY <1>3, <1>8, <1>9, <1>10, <1>11 DEF TakenUpTo, a

\* Those(s, P) holds what s has at the places P, each place once.
LEMMA ThoseAre ==
    ASSUME NEW s \in Seq(Outgoing), NEW P
    PROVE  TakenUpTo(Those(s, P), s, P, Len(s))
<1>1. PICK f : Taking(f, s, P, Len(s)) /\ Those(s, P) = f[Len(s)]
  BY ThoseDefined
<1>2. \A i \in 0 .. Len(s) :
         f[i] = IF i = 0 THEN <<>>
                ELSE IF i \in P THEN Append(f[i - 1], s[i]) ELSE f[i - 1]
  BY <1>1 DEF Taking
<1> DEFINE T == {n \in Nat : n <= Len(s) => TakenUpTo(f[n], s, P, n)}
<1>3. 0 \in T
  <2>1. f[0] = <<>>
    BY <1>2
  <2>2. <<>> \in Seq(Outgoing) /\ DOMAIN <<>> = {} /\ 1 .. 0 = {}
    OBVIOUS
  <2>3. <<>> \in [DOMAIN <<>> -> 1 .. 0]
    BY <2>2
  <2>4. TakenUpTo(<<>>, s, P, 0)
    BY <2>2, <2>3 DEF TakenUpTo
  <2> QED BY <2>1, <2>4
<1>4. ASSUME NEW n \in T PROVE n + 1 \in T
  <2> SUFFICES ASSUME n + 1 <= Len(s) PROVE TakenUpTo(f[n + 1], s, P, n + 1)
    OBVIOUS
  <2>1. /\ n \in Nat /\ TakenUpTo(f[n], s, P, n)
        /\ n + 1 \in 0 .. Len(s) /\ n + 1 # 0 /\ (n + 1) - 1 = n
    OBVIOUS
  <2>2. f[n + 1] = IF n + 1 \in P THEN Append(f[(n + 1) - 1], s[n + 1]) ELSE f[(n + 1) - 1]
    BY <1>2, <2>1
  <2>3. CASE n + 1 \in P
    BY <2>1, <2>2, <2>3, TakenToo
  <2>4. CASE n + 1 \notin P
    BY <2>1, <2>2, <2>4, PassedOver
  <2> QED BY <2>3, <2>4
<1> HIDE DEF T
<1>5. T = Nat
  BY <1>3, <1>4, SetInduction DEF T
<1>6. Len(s) \in T
  BY <1>5
<1> QED BY <1>1, <1>6 DEF T

\* What follows: those are messages of s, all those at P, and none twice if none is in s.
LEMMA ThoseFacts ==
    ASSUME NEW s \in Seq(Outgoing), NEW P \in SUBSET DOMAIN s
    PROVE  /\ Those(s, P) \in Seq(Outgoing)
           /\ \A j \in DOMAIN Those(s, P) : \E i \in P : Those(s, P)[j] = s[i]
           /\ \A i \in P : \E j \in DOMAIN Those(s, P) : Those(s, P)[j] = s[i]
           /\ (\A i, j \in DOMAIN s : s[i].id = s[j].id => i = j) =>
                \A j, k \in DOMAIN Those(s, P) : Those(s, P)[j].id = Those(s, P)[k].id => j = k
<1> DEFINE r == Those(s, P)
<1>1. TakenUpTo(r, s, P, Len(s))
  BY ThoseAre
<1> HIDE DEF r
<1>2. r \in Seq(Outgoing)
  BY <1>1 DEF TakenUpTo
<1>3. PICK e \in [DOMAIN r -> 1 .. Len(s)] :
         /\ \A j \in DOMAIN r : e[j] \in P /\ r[j] = s[e[j]]
         /\ \A j, k \in DOMAIN r : e[j] = e[k] => j = k
         /\ \A i \in 1 .. Len(s) : i \in P => \E j \in DOMAIN r : e[j] = i
  BY <1>1 DEF TakenUpTo
<1>4. DOMAIN s = 1 .. Len(s)
  OBVIOUS
<1>5. \A j \in DOMAIN r : \E i \in P : r[j] = s[i]
  BY <1>3
<1>6. \A i \in P : \E j \in DOMAIN r : r[j] = s[i]
  BY <1>3, <1>4
<1>7. ASSUME \A i, j \in DOMAIN s : s[i].id = s[j].id => i = j,
             NEW j \in DOMAIN r, NEW k \in DOMAIN r, r[j].id = r[k].id
      PROVE  j = k
  <2>1. e[j] \in DOMAIN s /\ e[k] \in DOMAIN s
    BY <1>4
  <2>2. s[e[j]].id = s[e[k]].id
    BY <1>3, <1>7
  <2> QED BY <1>3, <1>7, <2>1, <2>2
<1> QED BY <1>2, <1>5, <1>6, <1>7 DEF r

\* The data of a queue is that of any part of it and of the rest.
LEMMA DataSplit ==
    ASSUME NEW s \in Seq(Outgoing), NEW P \in SUBSET DOMAIN s
    PROVE  DataOf(s) = DataOf(Those(s, P)) + DataOf(Those(s, DOMAIN s \ P))
<1> DEFINE Q == DOMAIN s \ P
<1>1. PICK f : Taking(f, s, P, Len(s)) /\ Those(s, P) = f[Len(s)]
  BY ThoseDefined
<1>2. PICK g : Taking(g, s, Q, Len(s)) /\ Those(s, Q) = g[Len(s)]
  BY ThoseDefined
<1>q. \A i \in 1 .. Len(s) : i \in Q <=> i \notin P
  OBVIOUS
<1> HIDE DEF Q
<1>3. \A i \in 0 .. Len(s) :
         f[i] = IF i = 0 THEN <<>>
                ELSE IF i \in P THEN Append(f[i - 1], s[i]) ELSE f[i - 1]
  BY <1>1 DEF Taking
<1>4. \A i \in 0 .. Len(s) :
         g[i] = IF i = 0 THEN <<>>
                ELSE IF i \in Q THEN Append(g[i - 1], s[i]) ELSE g[i - 1]
  BY <1>2 DEF Taking
<1> DEFINE Good(n) == /\ f[n] \in Seq(Outgoing) /\ g[n] \in Seq(Outgoing)
                      /\ Data(s, n) = DataOf(f[n]) + DataOf(g[n])
           T == {n \in Nat : n <= Len(s) => Good(n)}
<1>5. 0 \in T
  <2>1. f[0] = <<>> /\ g[0] = <<>>
    BY <1>3, <1>4
  <2>2. <<>> \in Seq(Outgoing) /\ 0 \in 0 .. Len(s) /\ Len(<<>>) = 0 /\ 0 \in 0 .. 0
    OBVIOUS
  <2>3. Data(s, 0) = 0 /\ DataOf(<<>>) = 0
    <3>1. Data(s, 0) = 0
      BY <2>2, DataNatural
    <3>2. DataOf(<<>>) = 0
      BY <2>2, NoData
    <3> QED BY <3>1, <3>2
  <2>4. /\ f[0] \in Seq(Outgoing) /\ g[0] \in Seq(Outgoing)
        /\ DataOf(f[0]) = 0 /\ DataOf(g[0]) = 0
    BY <2>1, <2>2, <2>3, Zenon
  <2>5. Data(s, 0) = DataOf(f[0]) + DataOf(g[0])
    BY <2>3, <2>4
  <2> QED BY <2>4, <2>5
<1>6. ASSUME NEW n \in T PROVE n + 1 \in T
  <2> SUFFICES ASSUME n + 1 <= Len(s) PROVE Good(n + 1)
    OBVIOUS
  <2>1. /\ n \in Nat /\ Good(n) /\ n + 1 \in 1 .. Len(s) /\ n \in 0 .. (Len(s) - 1)
        /\ n + 1 \in 0 .. Len(s) /\ n + 1 # 0 /\ (n + 1) - 1 = n
    BY SMTT(30)
  <2> DEFINE m == s[n + 1]
  <2>2. m \in Outgoing /\ m.data \in Nat
    BY <2>1, Fields
  <2>3. f[n + 1] = IF n + 1 \in P THEN Append(f[n], m) ELSE f[n]
    BY <1>3, <2>1
  <2>4. g[n + 1] = IF n + 1 \in Q THEN Append(g[n], m) ELSE g[n]
    BY <1>4, <2>1
  <2>5. Data(s, n + 1) = Data(s, n) + m.data
    BY <2>1, DataStep
  <2>6. DataOf(f[n]) \in Nat /\ DataOf(g[n]) \in Nat
    <3>1. \A r \in Seq(Outgoing) : Len(r) \in 0 .. Len(r)
      OBVIOUS
    <3> QED BY <2>1, <3>1, DataNatural DEF DataOf
  <2> HIDE DEF m
  <2>7. CASE n + 1 \in P
    <3>1. f[n + 1] = Append(f[n], m) /\ g[n + 1] = g[n]
      BY <1>q, <2>1, <2>3, <2>4, <2>7
    <3>2. DataOf(Append(f[n], m)) = DataOf(f[n]) + m.data
      BY <2>1, <2>2, DataAppend
    <3>3. Append(f[n], m) \in Seq(Outgoing)
      BY <2>1, <2>2
    <3> QED BY <2>1, <2>2, <2>5, <2>6, <3>1, <3>2, <3>3, SMTT(30)
  <2>8. CASE n + 1 \notin P
    <3>1. f[n + 1] = f[n] /\ g[n + 1] = Append(g[n], m)
      BY <1>q, <2>1, <2>3, <2>4, <2>8
    <3>2. DataOf(Append(g[n], m)) = DataOf(g[n]) + m.data
      BY <2>1, <2>2, DataAppend
    <3>3. Append(g[n], m) \in Seq(Outgoing)
      BY <2>1, <2>2
    <3> QED BY <2>1, <2>2, <2>5, <2>6, <3>1, <3>2, <3>3, SMTT(30)
  <2> QED BY <2>7, <2>8
<1> HIDE DEF T
<1>7. T = Nat
  BY <1>5, <1>6, SetInduction DEF T
<1>8. Len(s) \in T /\ Len(s) <= Len(s)
  BY <1>7
<1> QED BY <1>1, <1>2, <1>8 DEF T, DataOf, Q

-----------------------------------------------------------------------------
(* What a datagram takes.                                                  *)

\* A set of natural numbers that is not empty has a least one.
LEMMA LeastOne ==
    ASSUME NEW U \in SUBSET Nat, U # {}
    PROVE  \E x \in U : \A y \in U : ~(y < x)
<1>1. IsWellFoundedOn(OpToRel(<, Nat), Nat)
  BY NatLessThanWellFounded
<1>2. \E x \in U : \A y \in U : ~ (<<y, x>> \in OpToRel(<, Nat))
  BY <1>1, WFMin
<1> QED BY <1>2 DEF OpToRel

\* Messages leave up to the first that does not.
LEMMA LeavingIs ==
    ASSUME NEW q \in Seq(Outgoing), NEW used, NEW n, NEW transit, NEW k,
           k = Leaving(q, used, n, transit)
    PROVE  /\ k \in 0 .. Len(q)
           /\ \A j \in 1 .. k : Leaves(q, j, used, n, transit)
           /\ k < Len(q) => ~Leaves(q, k + 1, used, n, transit)
<1> DEFINE L(j) == Leaves(q, j, used, n, transit)
           all == {i \in 0 .. Len(q) : \A j \in 1 .. i : L(j)}
           U == {m \in Nat : \E i \in all : m = Len(q) - i}
<1>1. Len(q) \in Nat
  OBVIOUS
<1> HIDE DEF L
<1>2. 0 \in all
  BY <1>1
<1>3. U \in SUBSET Nat /\ Len(q) \in U
  BY <1>1, <1>2
<1>4. PICK x \in U : \A y \in U : ~(y < x)
  BY <1>3, LeastOne
<1>5. PICK i \in all : x = Len(q) - i
  OBVIOUS
<1>6. ASSUME NEW j \in all PROVE j <= i
  <2>1. /\ j \in Nat /\ j <= Len(q) /\ Len(q) - j \in Nat
        /\ i \in Nat /\ i <= Len(q)
    BY <1>1
  <2>2. Len(q) - j \in U
    BY <2>1
  <2>3. ~(Len(q) - j < Len(q) - i)
    BY <1>4, <1>5, <2>2
  <2> QED BY <1>1, <2>1, <2>3
<1>7. Leaving(q, used, n, transit) = CHOOSE i1 \in all : \A j \in all : j <= i1
  BY DEF Leaving, L
<1> HIDE DEF all
<1>8. k \in all /\ \A j \in all : j <= k
  BY <1>5, <1>6, <1>7
<1>9. k \in 0 .. Len(q) /\ \A j \in 1 .. k : L(j)
  BY <1>8 DEF all
<1>10. ASSUME k < Len(q), L(k + 1) PROVE FALSE
  <2>1. k + 1 \in 0 .. Len(q)
    BY <1>1, <1>9, <1>10
  <2>2. \A j \in 1 .. (k + 1) : L(j)
    BY <1>9, <1>10
  <2>3. k + 1 \in all
    BY <2>1, <2>2 DEF all
  <2> QED BY <1>8, <1>9, <2>3
<1> QED BY <1>9, <1>10 DEF L

\* The remainder of a division.
LEMMA Remainder ==
    \A a \in Nat : \A b \in Nat \ {0} : a % b \in 0 .. (b - 1)
OBVIOUS

\* What the turns over the unreliable messages have made so far.
Turned == [rest : Seq(Datagrams), counter : 0 .. (ThrottleScale - 1), used : Nat, n : Nat]

\* One turn: at most one message more stays, and none that is the first to find room.
LEMMA OneTurn ==
    ASSUME NEW a \in Turned, NEW len \in Datagrams, NEW throttle, NEW b,
           b = OneUnreliable(a, len, throttle)
    PROVE  /\ b \in Turned
           /\ Len(b.rest) <= Len(a.rest) + 1
           /\ a.rest = <<>> /\ a.n < MaxPerDatagram /\ a.used + 1 + len <= Mtu =>
                b.rest = <<>>
<1> DEFINE c == (a.counter + ThrottleStep) % ThrottleScale
<1>1. /\ a.rest \in Seq(Datagrams) /\ a.counter \in 0 .. (ThrottleScale - 1)
      /\ a.used \in Nat /\ a.n \in Nat /\ len \in Nat
      /\ a = [rest |-> a.rest, counter |-> a.counter, used |-> a.used, n |-> a.n]
  BY SizesAssumption DEF Turned
<1>2. c \in 0 .. (ThrottleScale - 1)
  <2>1. a.counter + ThrottleStep \in Nat /\ ThrottleScale \in Nat \ {0}
    BY <1>1, ThrottleAssumption
  <2> QED BY <2>1, Remainder
<1> HIDE DEF c
<1>3. b = IF a.rest # <<>> \/ a.n >= MaxPerDatagram \/ a.used + 1 + len > Mtu
          THEN [a EXCEPT !.rest = Append(@, len)]
          ELSE IF c > throttle THEN [a EXCEPT !.counter = c]
          ELSE [a EXCEPT !.counter = c, !.used = @ + 1 + len, !.n = @ + 1]
  BY DEF OneUnreliable, c
<1>4. CASE a.rest # <<>> \/ a.n >= MaxPerDatagram \/ a.used + 1 + len > Mtu
  <2>1. b = [rest |-> Append(a.rest, len), counter |-> a.counter, used |-> a.used, n |-> a.n]
    BY <1>1, <1>3, <1>4
  <2>2. Append(a.rest, len) \in Seq(Datagrams) /\ Len(Append(a.rest, len)) = Len(a.rest) + 1
    BY <1>1
  <2>3. b \in Turned
    BY <1>1, <2>1, <2>2 DEF Turned
  <2>4. ~(a.rest = <<>> /\ a.n < MaxPerDatagram /\ a.used + 1 + len <= Mtu)
    BY <1>1, <1>4, SizesAssumption, SMTT(30)
  <2>5. Len(b.rest) = Len(a.rest) + 1 /\ Len(a.rest) \in Nat
    BY <1>1, <2>1, <2>2
  <2> QED BY <2>3, <2>4, <2>5
<1>5. CASE ~(a.rest # <<>> \/ a.n >= MaxPerDatagram \/ a.used + 1 + len > Mtu)
  <2>1. \/ b = [rest |-> a.rest, counter |-> c, used |-> a.used, n |-> a.n]
        \/ b = [rest |-> a.rest, counter |-> c, used |-> a.used + 1 + len, n |-> a.n + 1]
    BY <1>1, <1>3, <1>5
  <2>2. b \in Turned /\ b.rest = a.rest
    BY <1>1, <1>2, <2>1, SMTT(30) DEF Turned
  <2>3. Len(a.rest) \in Nat /\ a.rest = <<>>
    BY <1>1, <1>5
  <2> QED BY <2>2, <2>3
<1> QED BY <1>4, <1>5

\* The function that Unreliable defines by recursion, for the first messages.
Turning(f, used, n, throttle, k) ==
    f = [i \in 0 .. k |->
           IF i = 0 THEN [rest |-> <<>>, counter |-> counter, used |-> used, n |-> n]
           ELSE OneUnreliable(f[i - 1], outU[i], throttle)]

\* The recursion of Unreliable has a solution, and Unreliable is its last value.
LEMMA UnreliableDefined ==
    ASSUME NEW used, NEW n, NEW throttle, outU \in Seq(Datagrams)
    PROVE  \E f : /\ Turning(f, used, n, throttle, Len(outU))
                  /\ Unreliable(used, n, throttle) = f[Len(outU)]
<1> DEFINE T == {m \in Nat : \E f : Turning(f, used, n, throttle, m)}
           start == [rest |-> <<>>, counter |-> counter, used |-> used, n |-> n]
<1>1. T = Nat
  <2>1. 0 \in T
    <3> DEFINE f == [i \in 0 .. 0 |-> start]
    <3>1. Turning(f, used, n, throttle, 0)
      BY DEF Turning
    <3> QED BY <3>1
  <2>2. ASSUME NEW m \in T PROVE m + 1 \in T
    <3>1. PICK f : Turning(f, used, n, throttle, m)
      OBVIOUS
    <3> HIDE DEF start
    <3> DEFINE g == [i \in 0 .. (m + 1) |->
                       IF i <= m THEN f[i] ELSE OneUnreliable(f[m], outU[i], throttle)]
    <3>2. \A i \in 0 .. m :
            f[i] = IF i = 0 THEN start ELSE OneUnreliable(f[i - 1], outU[i], throttle)
      BY <3>1 DEF Turning, start
    <3>3. \A i \in 0 .. (m + 1) :
            g[i] = IF i = 0 THEN start ELSE OneUnreliable(g[i - 1], outU[i], throttle)
      BY <3>2
    <3>4. Turning(g, used, n, throttle, m + 1)
      BY <3>3, Zenon DEF Turning, start
    <3> QED BY <3>4
  <2> HIDE DEF T
  <2> QED BY <2>1, <2>2, SetInduction DEF T
<1>2. Len(outU) \in Nat
  OBVIOUS
<1>3. \E f : Turning(f, used, n, throttle, Len(outU))
  BY <1>1, <1>2
<1>4. Turning(CHOOSE f : Turning(f, used, n, throttle, Len(outU)), used, n, throttle, Len(outU))
  BY <1>3
<1>5. Unreliable(used, n, throttle) =
        (CHOOSE f : Turning(f, used, n, throttle, Len(outU)))[Len(outU)]
  BY DEF Unreliable, Turning
<1> QED BY <1>4, <1>5

\* No unreliable message is added, and one leaves or is dropped if the first finds room.
LEMMA UnreliableIs ==
    ASSUME NEW used \in Nat, NEW n \in Nat, NEW throttle, outU \in Seq(Datagrams),
           counter \in 0 .. (ThrottleScale - 1), NEW u, u = Unreliable(used, n, throttle)
    PROVE  /\ u.rest \in Seq(Datagrams) /\ u.counter \in 0 .. (ThrottleScale - 1)
           /\ Len(u.rest) <= Len(outU)
           /\ outU # <<>> /\ n = 0 /\ used = 0 => Len(u.rest) < Len(outU)
<1>1. PICK f : /\ Turning(f, used, n, throttle, Len(outU))
               /\ Unreliable(used, n, throttle) = f[Len(outU)]
  BY UnreliableDefined
<1> DEFINE start == [rest |-> <<>>, counter |-> counter, used |-> used, n |-> n]
           fits == n = 0 /\ used = 0
<1>2. \A i \in 0 .. Len(outU) :
        f[i] = IF i = 0 THEN start ELSE OneUnreliable(f[i - 1], outU[i], throttle)
  BY <1>1 DEF Turning
<1>3. start \in Turned /\ start.rest = <<>> /\ start.n = n /\ start.used = used
  BY DEF Turned
<1> HIDE DEF start
<1> DEFINE Good(i) == /\ f[i] \in Turned
                      /\ Len(f[i].rest) <= i
                      /\ fits /\ i > 0 => Len(f[i].rest) < i
           T == {i \in Nat : i <= Len(outU) => Good(i)}
<1>4. 0 \in T
  <2>1. f[0] = start
    BY <1>2
  <2> QED BY <1>3, <2>1
<1>5. ASSUME NEW i \in T PROVE i + 1 \in T
  <2> SUFFICES ASSUME i + 1 <= Len(outU) PROVE Good(i + 1)
    BY SMTT(30)
  <2>1. /\ i \in Nat /\ Good(i) /\ i + 1 \in 1 .. Len(outU)
        /\ i + 1 \in 0 .. Len(outU) /\ i + 1 # 0 /\ (i + 1) - 1 = i
    OBVIOUS
  <2>2. f[i + 1] = OneUnreliable(f[i], outU[i + 1], throttle) /\ outU[i + 1] \in Datagrams
    BY <1>2, <2>1
  <2>3. /\ f[i + 1] \in Turned /\ Len(f[i + 1].rest) <= Len(f[i].rest) + 1
        /\ f[i].rest = <<>> /\ f[i].n < MaxPerDatagram /\ f[i].used + 1 + outU[i + 1] <= Mtu =>
             f[i + 1].rest = <<>>
    BY <2>1, <2>2, OneTurn
  <2>4. Len(f[i].rest) \in Nat /\ Len(f[i + 1].rest) \in Nat
    <3>1. f[i].rest \in Seq(Datagrams) /\ f[i + 1].rest \in Seq(Datagrams)
      <4> HIDE DEF T
      <4> QED BY <2>1, <2>3 DEF Turned
    <3> QED BY <3>1, SMTT(30)
  <2>5. ASSUME fits PROVE Len(f[i + 1].rest) < i + 1
    <3>1. CASE i = 0
      <4>1. f[0] = start
        BY <1>2, SMTT(30)
      <4>2. f[i + 1].rest = <<>>
        <5>1. f[i].rest = <<>> /\ f[i].n = 0 /\ f[i].used = 0
          BY <1>3, <2>5, <3>1, <4>1
        <5>2. 0 < MaxPerDatagram /\ 0 + 1 + outU[i + 1] <= Mtu
          <6>1. outU[i + 1] \in 1 .. (Mtu - 2) /\ Mtu \in Nat
            BY <2>2, SizesAssumption
          <6>2. MaxPerDatagram \in Nat \ {0}
            BY SizesAssumption
          <6> QED BY <6>1, <6>2, SMTT(30)
        <5> QED BY <2>3, <5>1, <5>2
      <4>3. Len(<<>>) = 0
        OBVIOUS
      <4> QED BY <2>1, <4>2, <4>3, SMTT(30)
    <3>2. CASE i > 0
      BY <2>1, <2>3, <2>4, <2>5, <3>2, SMTT(30)
    <3> QED BY <2>1, <3>1, <3>2
  <2> QED BY <2>1, <2>3, <2>4, <2>5, SMTT(30)
<1> HIDE DEF T, fits
<1>6. T = Nat
  BY <1>4, <1>5, SetInduction DEF T
<1>7. Len(outU) \in T /\ Len(outU) <= Len(outU) /\ Len(outU) \in Nat
  BY <1>6
<1>8. Good(Len(outU))
  BY <1>7 DEF T
<1>9. outU # <<>> => Len(outU) > 0
  OBVIOUS
<1> QED BY <1>1, <1>8, <1>9 DEF Turned, fits

-----------------------------------------------------------------------------
(* The invariant.                                                          *)

\* No two messages of a queue have one number, nor do any of two queues.
Distinct(s) == \A i, j \in DOMAIN s : s[i].id = s[j].id => i = j
Apart(s, t) == \A i \in DOMAIN s, j \in DOMAIN t : s[i].id # t[j].id

\* A message fits a datagram of its own and has a number given out; number 1 is CONNECT's.
AllFit(s, top) ==
    \A i \in DOMAIN s :
        /\ s[i].data <= FragmentLength /\ s[i].id <= top
        /\ s[i].id = 1 => s[i].type = "CONNECT"

\* All of them left before, at the times f for the first time, the last time by now.
AllLeft(s, f, t) ==
    \A i \in DOMAIN s : f[s[i].id] # 0 /\ f[s[i].id] <= s[i].sentTime /\ s[i].sentTime <= t

\* Behind one that never left are only such, in the order of their numbers.
NewInOrder(q, f) ==
    \A i, j \in DOMAIN q : i < j /\ f[q[i].id] = 0 => f[q[j].id] = 0 /\ q[i].id < q[j].id

\* A number given out is in the queue until its message leaves.
NewAreIn(q, top, f) ==
    \A n \in Ids : n <= top /\ f[n] = 0 => \E i \in DOMAIN q : q[i].id = n

\* Some message but CONNECT is in s that left at the time t, or before.
Awaited(s, t, f) ==
    \E i \in DOMAIN s : f[s[i].id] # 0 /\ f[s[i].id] <= t /\ s[i].id # 1

\* Numbers up to top were given out, and messages leave in their order, by the time t.
InOrder(f, top, t) ==
    /\ \A n \in Ids : f[n] <= t /\ (n > top => f[n] = 0)
    /\ \A i, j \in Ids : i < j /\ f[j] # 0 => f[i] # 0 /\ f[i] <= f[j]

QueuesSound ==
    /\ Distinct(sentR) /\ Distinct(outR) /\ Apart(sentR, outR)
    /\ AllFit(sentR, seq) /\ AllFit(outR, seq)
    /\ AllLeft(sentR, first, now)
    /\ NewInOrder(outR, first) /\ NewAreIn(outR, seq, first)

FirstSound == now > 0 /\ seq > 0 /\ InOrder(first, seq, now)

\* earliestTimeout is the time of something that is still pending, or of CONNECT.
EarliestIsMeant ==
    state # "GONE" /\ earliest # 0 /\ ~stale =>
        Awaited(sentR, earliest, first) \/ Awaited(outR, earliest, first)

\* Within a pass nothing expires.
PassIsFresh == at = "send" => \A i \in DOMAIN sentR : ~Expired(sentR[i])

TransmissionInv ==
    /\ TypeOK /\ InTransitIsSent /\ DelayedCloseIsDue
    /\ QueuesSound /\ FirstSound /\ EarliestIsMeant /\ PassIsFresh

-----------------------------------------------------------------------------
(* Queueing.                                                               *)

\* Messages s that get the numbers after top.
NewOnes(s, top) ==
    \A k \in DOMAIN s : s[k].id = top + k /\ s[k].data <= FragmentLength

\* The constants in the form the proofs use them.
LEMMA Constants ==
    /\ Mtu \in Nat /\ Mtu > 2 /\ FragmentLength \in Nat /\ FragmentLength > 0
    /\ MaxIds \in Nat /\ MaxIds > 0
    /\ \A w \in Windows : w \in Nat /\ Mtu <= w
    /\ MaxPerDatagram \in Nat /\ MaxPerDatagram > 0
BY SizesAssumption, CountsAssumption DEF FragmentLength

\* A message that is made is one.
LEMMA NewIs ==
    ASSUME NEW i \in Ids, NEW data \in Nat,
           NEW type \in {"CONNECT", "DISCONNECT", "CONTROL", "RELIABLE_DATA", "DATA_FRAGMENT"}
    PROVE  /\ New(i, type, data) \in Outgoing
           /\ New(i, type, data).id = i /\ New(i, type, data).data = data
           /\ New(i, type, data).type = type
BY DEF New, Outgoing

\* A queue of one new message.
LEMMA OneNew ==
    ASSUME NEW top \in Nat, top < MaxIds,
           NEW type \in {"CONNECT", "DISCONNECT", "CONTROL"}, NEW s, s = <<New(top + 1, type, 0)>>
    PROVE  s \in Seq(Outgoing) /\ Len(s) = 1 /\ NewOnes(s, top)
<1>1. top + 1 \in Ids
  BY Constants DEF Ids
<1> DEFINE m == New(top + 1, type, 0)
<1>2. m \in Outgoing /\ m.id = top + 1 /\ m.data = 0
  BY <1>1, NewIs
<1> HIDE DEF m
<1>3. s = <<m>>
  BY DEF m
<1>4. s \in Seq(Outgoing) /\ Len(s) = 1 /\ DOMAIN s = 1 .. 1 /\ s[1] = m
  BY <1>2, <1>3
<1>5. ASSUME NEW k \in DOMAIN s PROVE s[k].id = top + k /\ s[k].data <= FragmentLength
  <2>1. k = 1 /\ s[k] = m
    BY <1>4
  <2> QED BY <1>2, <2>1, Constants
<1> QED BY <1>4, <1>5 DEF NewOnes

\* The pieces of a packet get the next numbers, and each fits a datagram.
LEMMA PiecesAre ==
    ASSUME NEW len \in Lengths, seq \in Nat, NEW s, s = Pieces(len), seq + Len(s) <= MaxIds
    PROVE  s \in Seq(Outgoing) /\ Len(s) \in Nat /\ Len(s) > 0 /\ NewOnes(s, seq)
<1>0. len \in Nat /\ len > 0
  BY SizesAssumption
<1>1. CASE len <= FragmentLength
  <2> DEFINE m == New(seq + 1, "RELIABLE_DATA", len)
  <2>1. s = <<m>>
    BY <1>1 DEF Pieces
  <2>2. Len(s) = 1
    BY <2>1
  <2>3. seq + 1 \in Ids
    BY <2>2, Constants DEF Ids
  <2>4. m \in Outgoing /\ m.id = seq + 1 /\ m.data = len
    BY <1>0, <2>3, NewIs
  <2> HIDE DEF m
  <2>5. s \in Seq(Outgoing) /\ DOMAIN s = 1 .. 1 /\ s[1] = m
    BY <2>1, <2>4
  <2>6. ASSUME NEW k \in DOMAIN s PROVE s[k].id = seq + k /\ s[k].data <= FragmentLength
    <3>1. k = 1 /\ s[k] = m
      BY <2>5
    <3> QED BY <1>1, <2>4, <3>1
  <2> QED BY <2>2, <2>5, <2>6 DEF NewOnes
<1>2. CASE ~(len <= FragmentLength)
  <2> DEFINE count == (len + FragmentLength - 1) \div FragmentLength
             part(k) == IF k * FragmentLength <= len THEN FragmentLength
                        ELSE len % FragmentLength
  <2>1. count \in Nat /\ count > 0
    <3>1. len + FragmentLength - 1 \in Nat /\ FragmentLength \in Nat \ {0}
      BY <1>0, Constants
    <3>2. \A a \in Nat : \A b \in Nat \ {0} : a >= b => a \div b \in Nat /\ a \div b > 0
      OBVIOUS
    <3>3. len + FragmentLength - 1 >= FragmentLength
      BY <1>0, Constants
    <3> QED BY <3>1, <3>2, <3>3
  <2>2. s = [k \in 1 .. count |-> New(seq + k, "DATA_FRAGMENT", part(k))]
    BY <1>2 DEF Pieces
  <2>3. \A k \in 1 .. count : part(k) \in Nat /\ part(k) <= FragmentLength
    <3>1. FragmentLength \in Nat \ {0}
      BY Constants
    <3>2. len % FragmentLength \in 0 .. (FragmentLength - 1)
      BY <1>0, <3>1, Remainder
    <3> QED BY <3>1, <3>2
  <2> HIDE DEF count, part
  <2>4. Len(s) = count /\ DOMAIN s = 1 .. count
    BY <2>1, <2>2
  <2>5. ASSUME NEW k \in 1 .. count
        PROVE  s[k] \in Outgoing /\ s[k].id = seq + k /\ s[k].data <= FragmentLength
    <3>1. seq + k \in Ids
      BY <2>1, <2>4, Constants DEF Ids
    <3>2. s[k] = New(seq + k, "DATA_FRAGMENT", part(k))
      BY <2>2
    <3> QED BY <2>3, <3>1, <3>2, NewIs
  <2>6. s \in Seq(Outgoing)
    BY <2>1, <2>2, <2>5
  <2> QED BY <2>1, <2>4, <2>5, <2>6 DEF NewOnes
<1> QED BY <1>1, <1>2

\* New messages at the end of a queue keep it in order.
LEMMA QueuedSound ==
    ASSUME NEW q \in Seq(Outgoing), NEW s \in Seq(Outgoing), NEW top \in Nat, NEW r,
           NewOnes(s, top), top > 0, r = q \o s, NEW t, NEW f \in [Ids -> Nat],
           InOrder(f, top, t), top + Len(s) <= MaxIds,
           Distinct(q), AllFit(q, top), NewInOrder(q, f), NewAreIn(q, top, f)
    PROVE  /\ r \in Seq(Outgoing) /\ InOrder(f, top + Len(s), t)
           /\ Distinct(r) /\ AllFit(r, top + Len(s))
           /\ NewInOrder(r, f) /\ NewAreIn(r, top + Len(s), f)
<1>1. /\ r \in Seq(Outgoing) /\ DOMAIN r = 1 .. (Len(q) + Len(s))
      /\ Len(q) \in Nat /\ Len(s) \in Nat
      /\ DOMAIN q = 1 .. Len(q) /\ DOMAIN s = 1 .. Len(s)
      /\ \A i \in DOMAIN q : r[i] = q[i]
      /\ \A i \in DOMAIN s : r[Len(q) + i] = s[i]
  BY SMTT(30)
<1>2. \A i \in DOMAIN r : i \in DOMAIN q \/ (i - Len(q) \in DOMAIN s /\ i = Len(q) + (i - Len(q)))
  BY <1>1
<1>3. \A i \in DOMAIN q : r[i] = q[i] /\ q[i].id \in Nat /\ q[i].id <= top /\ q[i].id \in Ids
  BY <1>1, Fields DEF AllFit, Ids
<1>4. \A i \in DOMAIN r : i \notin DOMAIN q =>
          /\ i > Len(q) /\ r[i].id = top + (i - Len(q)) /\ r[i].id > top
          /\ r[i].data <= FragmentLength /\ r[i].id <= top + Len(s) /\ f[r[i].id] = 0
          /\ r[i].id \in Ids
  <2> SUFFICES ASSUME NEW i \in DOMAIN r, i \notin DOMAIN q
               PROVE  /\ i > Len(q) /\ r[i].id = top + (i - Len(q)) /\ r[i].id > top
                      /\ r[i].data <= FragmentLength /\ r[i].id <= top + Len(s)
                      /\ f[r[i].id] = 0 /\ r[i].id \in Ids
    OBVIOUS
  <2> DEFINE k == i - Len(q)
  <2>1. k \in DOMAIN s /\ i = Len(q) + k /\ k > 0 /\ k <= Len(s) /\ k \in Nat
    BY <1>1, <1>2
  <2>2. r[i] = s[k]
    BY <1>1, <2>1
  <2>3. s[k].id = top + k /\ s[k].data <= FragmentLength
    BY <2>1 DEF NewOnes
  <2>4. top + k \in Ids /\ top + k > top
    <3>1. k \in Nat /\ k > 0 /\ k <= Len(s) /\ Len(s) \in Nat /\ MaxIds \in Nat
      BY <1>1, <2>1, Constants
    <3> HIDE DEF k
    <3> QED BY <3>1 DEF Ids
  <2>5. f[top + k] = 0
    BY <2>4 DEF InOrder
  <2> QED BY <1>1, <2>1, <2>2, <2>3, <2>4, <2>5
<1>5. InOrder(f, top + Len(s), t)
  BY <1>1 DEF InOrder, Ids
<1>6. Distinct(r)
  <2> SUFFICES ASSUME NEW i \in DOMAIN r, NEW j \in DOMAIN r, r[i].id = r[j].id PROVE i = j
    BY DEF Distinct
  <2>1. CASE i \in DOMAIN q /\ j \in DOMAIN q
    BY <1>3, <2>1 DEF Distinct
  <2>2. CASE i \notin DOMAIN q /\ j \notin DOMAIN q
    BY <1>1, <1>4, <2>2
  <2>3. CASE (i \in DOMAIN q) # (j \in DOMAIN q)
    BY <1>3, <1>4, <2>3, SMTT(30)
  <2> QED BY <2>1, <2>2, <2>3
<1>7. AllFit(r, top + Len(s))
  <2> SUFFICES ASSUME NEW i \in DOMAIN r
               PROVE  /\ r[i].data <= FragmentLength /\ r[i].id <= top + Len(s)
                      /\ r[i].id = 1 => r[i].type = "CONNECT"
    BY DEF AllFit
  <2>1. CASE i \in DOMAIN q
    BY <1>1, <1>3, <2>1 DEF AllFit
  <2>2. CASE i \notin DOMAIN q
    BY <1>4, <2>2
  <2> QED BY <2>1, <2>2
<1>8. NewInOrder(r, f)
  <2> SUFFICES ASSUME NEW i \in DOMAIN r, NEW j \in DOMAIN r, i < j, f[r[i].id] = 0
               PROVE  f[r[j].id] = 0 /\ r[i].id < r[j].id
    BY DEF NewInOrder
  <2>1. CASE i \in DOMAIN q /\ j \in DOMAIN q
    BY <1>3, <2>1 DEF NewInOrder
  <2>2. CASE i \in DOMAIN q /\ j \notin DOMAIN q
    BY <1>3, <1>4, <2>2
  <2>3. CASE i \notin DOMAIN q
    <3>1. i > Len(q) /\ j \in Nat /\ i \in Nat /\ j > Len(q)
      BY <1>1, <1>4, <2>3
    <3>2. j \notin DOMAIN q
      BY <1>1, <3>1
    <3> QED BY <1>1, <1>4, <2>3, <3>1, <3>2
  <2> QED BY <2>1, <2>2, <2>3
<1>9. NewAreIn(r, top + Len(s), f)
  <2> SUFFICES ASSUME NEW n \in Ids, n <= top + Len(s), f[n] = 0
               PROVE  \E i \in DOMAIN r : r[i].id = n
    BY DEF NewAreIn
  <2>1. CASE n <= top
    <3>1. PICK i \in DOMAIN q : q[i].id = n
      BY <2>1 DEF NewAreIn
    <3> QED BY <1>1, <3>1
  <2>2. CASE n > top
    <3>1. PICK k \in DOMAIN s : n = top + k
      <4>1. n - top \in DOMAIN s /\ n = top + (n - top)
        BY <1>1, <2>2 DEF Ids
      <4> QED BY <4>1
    <3>2. Len(q) + k \in DOMAIN r /\ r[Len(q) + k] = s[k]
      BY <1>1
    <3>3. s[k].id = top + k
      BY DEF NewOnes
    <3> QED BY <3>1, <3>2, <3>3
  <2> QED BY <2>1, <2>2 DEF Ids
<1> QED BY <1>1, <1>5, <1>6, <1>7, <1>8, <1>9

\* They are apart from what has numbers already.
LEMMA QueuedApart ==
    ASSUME NEW p \in Seq(Outgoing), NEW q \in Seq(Outgoing), NEW s \in Seq(Outgoing),
           NEW top \in Nat, NewOnes(s, top), AllFit(p, top), Apart(p, q)
    PROVE  Apart(p, q \o s) /\ AllFit(p, top + Len(s))
<1> DEFINE r == q \o s
<1>1. /\ DOMAIN r = 1 .. (Len(q) + Len(s)) /\ Len(q) \in Nat /\ Len(s) \in Nat
      /\ DOMAIN q = 1 .. Len(q) /\ DOMAIN s = 1 .. Len(s)
      /\ \A i \in DOMAIN q : r[i] = q[i]
      /\ \A i \in DOMAIN s : r[Len(q) + i] = s[i]
  BY SMTT(30)
<1> HIDE DEF r
<1>2. \A i \in DOMAIN p : p[i].id \in Nat /\ p[i].id <= top
  BY Fields DEF AllFit, Ids
<1>3. ASSUME NEW i \in DOMAIN p, NEW j \in DOMAIN r PROVE p[i].id # r[j].id
  <2>1. CASE j \in DOMAIN q
    BY <1>1, <2>1 DEF Apart
  <2>2. CASE j \notin DOMAIN q
    <3>1. j - Len(q) \in DOMAIN s /\ j = Len(q) + (j - Len(q)) /\ j - Len(q) > 0
      BY <1>1, <2>2
    <3>2. r[j].id = top + (j - Len(q))
      BY <1>1, <3>1 DEF NewOnes
    <3> QED BY <1>2, <3>1, <3>2
  <2> QED BY <2>1, <2>2
<1>4. AllFit(p, top + Len(s))
  <2> SUFFICES ASSUME NEW i \in DOMAIN p PROVE p[i].id <= top + Len(s)
    BY DEF AllFit
  <2> QED BY <1>1, <1>2
<1> QED BY <1>3, <1>4 DEF Apart, r

\* What a part of a queue keeps.
LEMMA PartSound ==
    ASSUME NEW s \in Seq(Outgoing), NEW P \in SUBSET DOMAIN s, NEW p, p = Those(s, P)
    PROVE  /\ p \in Seq(Outgoing)
           /\ Distinct(s) => Distinct(p)
           /\ \A q : Apart(s, q) => Apart(p, q)
           /\ \A top : AllFit(s, top) => AllFit(p, top)
           /\ \A f, t : AllLeft(s, f, t) => AllLeft(p, f, t)
<1>1. /\ p \in Seq(Outgoing)
      /\ \A j \in DOMAIN p : \E i \in P : p[j] = s[i]
      /\ (\A i, j \in DOMAIN s : s[i].id = s[j].id => i = j) =>
            \A j, k \in DOMAIN p : p[j].id = p[k].id => j = k
  BY ThoseFacts
<1>2. \A j \in DOMAIN p : \E i \in DOMAIN s : p[j] = s[i]
  BY <1>1
<1>3. Distinct(s) => Distinct(p)
  BY <1>1 DEF Distinct
<1>4. \A q : Apart(s, q) => Apart(p, q)
  <2> SUFFICES ASSUME NEW q, Apart(s, q), NEW j \in DOMAIN p, NEW k \in DOMAIN q
               PROVE  p[j].id # q[k].id
    BY Zenon DEF Apart
  <2>1. PICK i \in DOMAIN s : p[j] = s[i]
    BY <1>2
  <2>2. s[i].id # q[k].id
    BY Zenon DEF Apart
  <2> QED BY <2>1, <2>2
<1>5. \A top : AllFit(s, top) => AllFit(p, top)
  BY <1>2, Zenon DEF AllFit
<1>6. \A f, t : AllLeft(s, f, t) => AllLeft(p, f, t)
  BY <1>2, Zenon DEF AllLeft
<1> QED BY <1>1, <1>3, <1>4, <1>5, <1>6

\* What an acknowledgement leaves of the sent messages.
LEMMA DisposedIs ==
    ASSUME TransmissionInv, NEW i, NEW d, d = Disposed(i)
    PROVE  /\ d.sent \in Seq(Outgoing) /\ d.transit \in Nat
           /\ d.transit = DataOf(d.sent)
           /\ Distinct(d.sent) /\ Apart(d.sent, outR) /\ AllFit(d.sent, seq)
           /\ AllLeft(d.sent, first, now)
           /\ \A j \in DOMAIN sentR :
                sentR[j].id # i => \E k \in DOMAIN d.sent : d.sent[k] = sentR[j]
<1> DEFINE there == {j \in DOMAIN sentR : sentR[j].id = i}
           rest == DOMAIN sentR \ there
<1>1. d.sent = Those(sentR, rest) /\ d.transit = inTransit - DataOf(Those(sentR, there))
  BY DEF Disposed
<1>2. sentR \in Seq(Outgoing) /\ inTransit = DataOf(sentR)
  BY DEF TransmissionInv, TypeOK, InTransitIsSent
<1>3. there \in SUBSET DOMAIN sentR /\ rest \in SUBSET DOMAIN sentR
  OBVIOUS
<1>4. DataOf(sentR) = DataOf(Those(sentR, there)) + DataOf(Those(sentR, rest))
  BY <1>2, <1>3, DataSplit
<1>5. \A j \in DOMAIN sentR : sentR[j].id # i => j \in rest
  OBVIOUS
<1> HIDE DEF there, rest
<1>6. Those(sentR, there) \in Seq(Outgoing) /\ Those(sentR, rest) \in Seq(Outgoing)
  BY <1>2, <1>3, ThoseFacts
<1>7. \A r \in Seq(Outgoing) : DataOf(r) \in Nat
  <2>1. \A r \in Seq(Outgoing) : Len(r) \in 0 .. Len(r)
    OBVIOUS
  <2> QED BY <2>1, DataNatural DEF DataOf
<1>8. DataOf(Those(sentR, there)) \in Nat /\ DataOf(Those(sentR, rest)) \in Nat
  BY <1>6, <1>7
<1>9. d.transit = DataOf(d.sent) /\ d.transit \in Nat
  BY <1>1, <1>2, <1>4, <1>8, Constants
<1>10. /\ Distinct(d.sent) /\ Apart(d.sent, outR) /\ AllFit(d.sent, seq)
       /\ AllLeft(d.sent, first, now)
  <2>1. Distinct(sentR) /\ Apart(sentR, outR) /\ AllFit(sentR, seq) /\ AllLeft(sentR, first, now)
    BY DEF TransmissionInv, QueuesSound
  <2> QED BY <1>1, <1>2, <1>3, <2>1, PartSound
<1>11. \A j \in rest : \E k \in DOMAIN d.sent : d.sent[k] = sentR[j]
  BY <1>1, <1>2, <1>3, ThoseFacts
<1> QED BY <1>1, <1>5, <1>6, <1>9, <1>10, <1>11

-----------------------------------------------------------------------------
(* The steps that send nothing.                                            *)

\* The invariant as a list.
LEMMA InvFacts ==
    ASSUME TransmissionInv
    PROVE  /\ TypeOK /\ InTransitIsSent
           /\ outR \in Seq(Outgoing) /\ sentR \in Seq(Outgoing) /\ outU \in Seq(Datagrams)
           /\ seq \in Nat /\ seq > 0 /\ seq <= MaxIds /\ now \in Nat /\ now > 0
           /\ earliest \in Nat /\ inTransit \in Nat /\ acks \in Nat
           /\ counter \in 0 .. (ThrottleScale - 1)
           /\ first \in [Ids -> Nat]
           /\ Distinct(sentR) /\ Distinct(outR) /\ Apart(sentR, outR)
           /\ AllFit(sentR, seq) /\ AllFit(outR, seq) /\ AllLeft(sentR, first, now)
           /\ NewInOrder(outR, first) /\ NewAreIn(outR, seq, first)
           /\ InOrder(first, seq, now)
BY Constants DEF TransmissionInv, TypeOK, QueuesSound, FirstSound

\* What leaves a queue longer leaves what is awaited in it.
LEMMA StillAwaited ==
    ASSUME NEW q \in Seq(Outgoing), NEW s \in Seq(Outgoing), NEW t, NEW f
    PROVE  /\ Awaited(q, t, f) => Awaited(q \o s, t, f)
           /\ Awaited(s, t, f) => Awaited(q \o s, t, f)
<1> DEFINE r == q \o s
<1>1. /\ DOMAIN r = 1 .. (Len(q) + Len(s)) /\ Len(q) \in Nat /\ Len(s) \in Nat
      /\ DOMAIN q = 1 .. Len(q) /\ DOMAIN s = 1 .. Len(s)
      /\ \A i \in DOMAIN q : r[i] = q[i]
      /\ \A i \in DOMAIN s : r[Len(q) + i] = s[i]
  OBVIOUS
<1> HIDE DEF r
<1>2. \A i \in DOMAIN q : i \in DOMAIN r /\ r[i] = q[i]
  BY <1>1
<1>3. \A i \in DOMAIN s : Len(q) + i \in DOMAIN r /\ r[Len(q) + i] = s[i]
  BY <1>1
<1>4. Awaited(q, t, f) => Awaited(r, t, f)
  BY <1>2, Zenon DEF Awaited
<1>5. Awaited(s, t, f) => Awaited(r, t, f)
  BY <1>3, Zenon DEF Awaited
<1> QED BY <1>4, <1>5 DEF r

\* New messages are queued, in any state but of a client given up.
LEMMA QueueKeeps ==
    ASSUME TransmissionInv, NEW s \in Seq(Outgoing), NewOnes(s, seq),
           at = "app", seq + Len(s) <= MaxIds, outR' = outR \o s, seq' = seq + Len(s),
           Len(s) > 0, state' \in {state, "DISCONNECTING"}, state # "GONE", acks' \in Nat,
           UNCHANGED <<now, sentR, outU, inTransit, window, earliest, counter, at, polled, first,
                       answer, stale>>
    PROVE  TransmissionInv'
<1>1. /\ TypeOK /\ InTransitIsSent
      /\ outR \in Seq(Outgoing) /\ sentR \in Seq(Outgoing) /\ outU \in Seq(Datagrams)
      /\ seq \in Nat /\ seq > 0 /\ seq <= MaxIds /\ now \in Nat /\ now > 0
      /\ first \in [Ids -> Nat]
      /\ Distinct(sentR) /\ Distinct(outR) /\ Apart(sentR, outR)
      /\ AllFit(sentR, seq) /\ AllFit(outR, seq) /\ AllLeft(sentR, first, now)
      /\ NewInOrder(outR, first) /\ NewAreIn(outR, seq, first)
      /\ InOrder(first, seq, now) /\ Len(s) \in Nat
  BY InvFacts, SMTT(30)
<1>2. /\ outR' \in Seq(Outgoing) /\ InOrder(first, seq', now)
      /\ Distinct(outR') /\ AllFit(outR', seq')
      /\ NewInOrder(outR', first) /\ NewAreIn(outR', seq', first)
  BY <1>1, QueuedSound
<1>3. Apart(sentR, outR') /\ AllFit(sentR, seq')
  BY <1>1, QueuedApart
<1>4. QueuesSound'
  BY <1>1, <1>2, <1>3 DEF QueuesSound
<1>5. FirstSound'
  BY <1>1, <1>2 DEF FirstSound
<1>6. seq' \in 0 .. MaxIds
  BY <1>1, Constants
<1>7. TypeOK'
  BY <1>1, <1>2, <1>6 DEF TypeOK
<1>8. InTransitIsSent' /\ DelayedCloseIsDue'
  <2>1. Len(outR') = Len(outR) + Len(s) /\ Len(outR) \in Nat
    BY <1>1
  <2>2. outR' # <<>>
    BY <1>1, <1>2, <2>1
  <2> QED BY <1>1, <2>2 DEF InTransitIsSent, DelayedCloseIsDue, Drained
<1>9. EarliestIsMeant'
  <2>1. Awaited(outR, earliest, first) => Awaited(outR', earliest, first)
    BY <1>1, StillAwaited
  <2>2. EarliestIsMeant
    BY DEF TransmissionInv
  <2> QED BY <2>1, <2>2 DEF EarliestIsMeant
<1>10. PassIsFresh'
  BY DEF PassIsFresh
<1> QED BY <1>4, <1>5, <1>7, <1>8, <1>9, <1>10 DEF TransmissionInv

\* A reliable packet that is queued keeps the invariant.
LEMMA SendReliableKeeps == TransmissionInv /\ SendReliable => TransmissionInv'
<1> SUFFICES ASSUME TransmissionInv, SendReliable PROVE TransmissionInv'
  OBVIOUS
<1>1. PICK len \in Lengths : Queue(Pieces(len))
  BY DEF SendReliable
<1>2. seq \in Nat /\ acks \in Nat
  BY InvFacts
<1> DEFINE s == Pieces(len)
<1>3. seq + Len(s) <= MaxIds /\ outR' = outR \o s /\ seq' = seq + Len(s)
  BY <1>1 DEF Queue
<1>4. s \in Seq(Outgoing) /\ Len(s) > 0 /\ NewOnes(s, seq)
  BY <1>2, <1>3, PiecesAre
<1> HIDE DEF s
<1> QED BY <1>2, <1>3, <1>4, QueueKeeps DEF SendReliable

\* So does a control message.
LEMMA ControlKeeps == TransmissionInv /\ Control => TransmissionInv'
<1> SUFFICES ASSUME TransmissionInv, Control PROVE TransmissionInv'
  OBVIOUS
<1> DEFINE s == <<New(seq + 1, "CONTROL", 0)>>
<1>1. seq \in Nat /\ acks \in Nat
  BY InvFacts
<1>2. seq + Len(s) <= MaxIds /\ outR' = outR \o s /\ seq' = seq + Len(s)
  BY DEF Control, Queue
<1>3. s \in Seq(Outgoing) /\ Len(s) = 1 /\ NewOnes(s, seq)
  <2>1. Len(s) = 1
    OBVIOUS
  <2>2. seq < MaxIds
    BY <1>1, <1>2, <2>1, Constants
  <2> QED BY <1>1, <2>2, OneNew
<1> HIDE DEF s
<1>4. acks' \in Nat /\ Len(s) > 0
  BY <1>1, <1>3 DEF Control
<1> QED BY <1>1, <1>2, <1>3, <1>4, QueueKeeps DEF Control, Active

\* Only what has no part in the queues, in time and in numbers changes.
LEMMA SameQueues ==
    ASSUME TransmissionInv, at' # "send",
           TypeOK', DelayedCloseIsDue', state' = "GONE" \/ (state # "GONE" /\ stale' = stale /\ earliest' = earliest),
           UNCHANGED <<now, outR, sentR, inTransit, seq, first>>
    PROVE  TransmissionInv'
<1>1. TypeOK /\ InTransitIsSent /\ QueuesSound /\ FirstSound /\ EarliestIsMeant
  BY DEF TransmissionInv
<1>2. InTransitIsSent'
  BY <1>1 DEF InTransitIsSent
<1>3. QueuesSound' /\ FirstSound'
  BY <1>1 DEF QueuesSound, FirstSound
<1>4. EarliestIsMeant'
  BY <1>1 DEF EarliestIsMeant
<1>5. PassIsFresh'
  BY DEF PassIsFresh
<1> QED BY <1>2, <1>3, <1>4, <1>5 DEF TransmissionInv

\* An unreliable packet keeps it.
LEMMA SendUnreliableKeeps == TransmissionInv /\ SendUnreliable => TransmissionInv'
<1> SUFFICES ASSUME TransmissionInv, SendUnreliable PROVE TransmissionInv'
  OBVIOUS
<1>1. TypeOK
  BY DEF TransmissionInv
<1>2. outU' \in Seq(Datagrams)
  <2>1. PICK len \in Datagrams : outU' = Append(outU, len)
    BY DEF SendUnreliable
  <2> QED BY <1>1, <2>1 DEF TypeOK
<1>3. TypeOK'
  BY <1>1, <1>2 DEF TypeOK, SendUnreliable
<1>4. DelayedCloseIsDue'
  BY DEF DelayedCloseIsDue, SendUnreliable
<1> QED BY <1>3, <1>4, SameQueues DEF SendUnreliable

\* An acknowledgement that is owed keeps it.
LEMMA OweAckKeeps == TransmissionInv /\ OweAck => TransmissionInv'
<1> SUFFICES ASSUME TransmissionInv, OweAck PROVE TransmissionInv'
  OBVIOUS
<1>1. TypeOK /\ DelayedCloseIsDue
  BY DEF TransmissionInv
<1>2. TypeOK'
  BY <1>1 DEF TypeOK, OweAck
<1>3. DelayedCloseIsDue'
  BY <1>1 DEF DelayedCloseIsDue, OweAck
<1> QED BY <1>2, <1>3, SameQueues DEF OweAck

\* A window that is set anew keeps it, whatever is in transit.
LEMMA ConfigureBandwidthKeeps == TransmissionInv /\ ConfigureBandwidth => TransmissionInv'
<1> SUFFICES ASSUME TransmissionInv, ConfigureBandwidth PROVE TransmissionInv'
  OBVIOUS
<1>1. TypeOK /\ DelayedCloseIsDue /\ acks \in Nat
  BY InvFacts DEF TransmissionInv
<1>2. acks' \in Nat /\ window' \in Windows
  BY <1>1 DEF ConfigureBandwidth
<1>3. TypeOK'
  BY <1>1, <1>2 DEF TypeOK, ConfigureBandwidth
<1>4. DelayedCloseIsDue'
  BY <1>1 DEF DelayedCloseIsDue, ConfigureBandwidth
<1> QED BY <1>3, <1>4, SameQueues DEF ConfigureBandwidth, Active

\* The beginning of a flush keeps it.
LEMMA FlushKeeps == TransmissionInv /\ Flush => TransmissionInv'
<1> SUFFICES ASSUME TransmissionInv, Flush PROVE TransmissionInv'
  OBVIOUS
<1>1. TypeOK /\ DelayedCloseIsDue
  BY DEF TransmissionInv
<1>2. TypeOK'
  BY <1>1 DEF TypeOK, Flush
<1>3. DelayedCloseIsDue'
  BY <1>1 DEF DelayedCloseIsDue, Flush
<1> QED BY <1>2, <1>3, SameQueues DEF Flush, Active

\* _gekkota_xudpclient_close_later keeps it: what is queued is waited for, or nothing is.
LEMMA CloseLaterKeeps == TransmissionInv /\ CloseLater => TransmissionInv'
<1> SUFFICES ASSUME TransmissionInv, CloseLater PROVE TransmissionInv'
  OBVIOUS
<1>1. TypeOK /\ seq \in Nat /\ seq <= MaxIds
  BY InvFacts
<1>2. CASE Drained(outR, sentR, outU)
  <2> DEFINE s == <<New(seq + 1, "DISCONNECT", 0)>>
  <2>1. seq < MaxIds /\ state' = "DISCONNECTING" /\ outR' = s /\ seq' = seq + 1 /\ acks' = 0
    BY <1>2 DEF CloseLater, Closing
  <2>2. s \in Seq(Outgoing) /\ Len(s) = 1 /\ NewOnes(s, seq)
    BY <1>1, <2>1, OneNew
  <2> HIDE DEF s
  <2>3. outR = <<>>
    BY <1>2 DEF Drained
  <2>4. outR' = outR \o s
    BY <2>1, <2>2, <2>3
  <2>5. acks' \in Nat /\ Len(s) > 0 /\ seq + Len(s) <= MaxIds /\ seq' = seq + Len(s)
    BY <1>1, <2>1, <2>2, Constants
  <2> QED BY <2>1, <2>2, <2>4, <2>5, QueueKeeps DEF CloseLater
<1>3. CASE ~Drained(outR, sentR, outU)
  <2>1. state' = "DELAYING_DISCONNECT" /\ UNCHANGED <<outR, seq, acks>>
    BY <1>3 DEF CloseLater
  <2>2. TypeOK'
    BY <1>1, <2>1 DEF TypeOK, CloseLater
  <2>3. DelayedCloseIsDue'
    BY <1>3, <2>1 DEF DelayedCloseIsDue, CloseLater, Drained
  <2> QED BY <2>1, <2>2, <2>3, SameQueues DEF CloseLater
<1> QED BY <1>2, <1>3

\* Time that passes keeps it.
LEMMA TickKeeps == TransmissionInv /\ Tick => TransmissionInv'
<1> SUFFICES ASSUME TransmissionInv, Tick PROVE TransmissionInv'
  OBVIOUS
<1>1. TypeOK /\ InTransitIsSent /\ DelayedCloseIsDue /\ QueuesSound /\ FirstSound /\ EarliestIsMeant
  BY DEF TransmissionInv
<1>2. now' = now + 1 /\ now \in Nat /\ first \in [Ids -> Nat] /\ sentR \in Seq(Outgoing)
  BY <1>1 DEF Tick, TypeOK
<1>3. UNCHANGED <<state, outR, sentR, outU, inTransit, earliest, seq, first, stale, at>> /\ at = "app"
  BY DEF Tick
<1>4. TypeOK'
  <2>1. now' \in Nat
    BY <1>2
  <2>2. polled' \in BOOLEAN
    BY DEF Tick
  <2>3. UNCHANGED <<window, counter, acks, answer>>
    BY DEF Tick
  <2> QED BY <1>1, <1>3, <2>1, <2>2, <2>3 DEF TypeOK
<1>5. InTransitIsSent' /\ DelayedCloseIsDue' /\ EarliestIsMeant' /\ PassIsFresh'
  BY <1>1, <1>3 DEF InTransitIsSent, DelayedCloseIsDue, EarliestIsMeant, Drained, PassIsFresh
<1>6. AllLeft(sentR, first, now + 1)
  <2>1. \A i \in DOMAIN sentR : sentR[i].sentTime \in Nat
    BY <1>2, Fields
  <2> QED BY <1>1, <1>2, <2>1 DEF QueuesSound, AllLeft
<1>7. QueuesSound'
  BY <1>1, <1>2, <1>3, <1>6 DEF QueuesSound
<1>8. InOrder(first, seq, now + 1)
  BY <1>1, <1>2 DEF FirstSound, InOrder
<1>9. FirstSound'
  BY <1>1, <1>2, <1>3, <1>8 DEF FirstSound
<1> QED BY <1>4, <1>5, <1>7, <1>9 DEF TransmissionInv

\* A message is taken out of the sent ones, and perhaps another one is queued.
LEMMA LessSent ==
    ASSUME TransmissionInv, NEW i, NEW d, d = Disposed(i), NEW s \in Seq(Outgoing),
           NewOnes(s, seq), seq + Len(s) <= MaxIds, at = "app",
           outR' = outR \o s, seq' = seq + Len(s), sentR' = d.sent, inTransit' = d.transit,
           UNCHANGED <<at, now, first, outU, counter, polled>>,
           state' \in {"CONNECTED", "DELAYING_DISCONNECT", "DISCONNECTING", "CLOSED"},
           window' \in Windows,
           acks' \in Nat, answer' \in Nat, stale' \in BOOLEAN, earliest' \in Nat,
           EarliestIsMeant', DelayedCloseIsDue'
    PROVE  TransmissionInv'
<1>1. /\ TypeOK /\ InTransitIsSent
      /\ outR \in Seq(Outgoing) /\ sentR \in Seq(Outgoing) /\ outU \in Seq(Datagrams)
      /\ seq \in Nat /\ seq > 0 /\ seq <= MaxIds /\ now \in Nat /\ now > 0
      /\ first \in [Ids -> Nat] /\ Distinct(outR)
      /\ AllFit(outR, seq) /\ NewInOrder(outR, first) /\ NewAreIn(outR, seq, first)
      /\ InOrder(first, seq, now) /\ Len(s) \in Nat
  BY InvFacts, SMTT(30)
<1>2. /\ d.sent \in Seq(Outgoing) /\ d.transit \in Nat
      /\ d.transit = DataOf(d.sent)
      /\ Distinct(d.sent) /\ Apart(d.sent, outR) /\ AllFit(d.sent, seq)
      /\ AllLeft(d.sent, first, now)
  BY DisposedIs
<1>3. /\ outR' \in Seq(Outgoing) /\ InOrder(first, seq', now)
      /\ Distinct(outR') /\ AllFit(outR', seq')
      /\ NewInOrder(outR', first) /\ NewAreIn(outR', seq', first)
  BY <1>1, QueuedSound
<1>4. Apart(d.sent, outR') /\ AllFit(d.sent, seq')
  BY <1>1, <1>2, QueuedApart
<1>5. QueuesSound'
  BY <1>2, <1>3, <1>4 DEF QueuesSound
<1>6. FirstSound'
  BY <1>1, <1>3, SMTT(30) DEF FirstSound
<1>7. TypeOK'
  <2>1. seq' \in 0 .. MaxIds
    BY <1>1, Constants, SMTT(30)
  <2>2. UNCHANGED <<now, first, at, polled, counter, outU>>
    OBVIOUS
  <2> QED BY <1>1, <1>2, <1>3, <2>1, <2>2 DEF TypeOK
<1>8. InTransitIsSent'
  BY <1>2 DEF InTransitIsSent
<1>9. PassIsFresh'
  BY DEF PassIsFresh
<1> QED BY <1>5, <1>6, <1>7, <1>8, <1>9 DEF TransmissionInv

\* An acknowledgement keeps it, whether it starts a close, ends one or neither.
LEMMA AcknowledgeKeeps ==
    ASSUME TransmissionInv, NEW i \in Ids, Acknowledge(i)
    PROVE  TransmissionInv'
<1> DEFINE d == Disposed(i)
           closes == Closes(outR, d.sent, outU)
<1>1. /\ TypeOK /\ outR \in Seq(Outgoing) /\ seq \in Nat /\ seq <= MaxIds /\ now \in Nat /\ acks \in Nat
  BY InvFacts
<1>2. /\ at = "app" /\ state \in {"CONNECTED", "DELAYING_DISCONNECT", "DISCONNECTING"}
      /\ closes => seq < MaxIds
      /\ sentR' = d.sent /\ inTransit' = d.transit /\ earliest' = 0
      /\ outR' = (IF closes THEN Closing(seq + 1) ELSE outR)
      /\ seq' = (IF closes THEN seq + 1 ELSE seq)
      /\ acks' = (IF closes THEN 0 ELSE acks)
      /\ answer' = now /\ stale' = FALSE
      /\ UNCHANGED <<now, outU, window, counter, at, polled, first>>
  BY DEF Acknowledge
<1>3. state' = "DISCONNECTING" \/ (~closes /\ state' \in {state, "CLOSED"})
  BY DEF Acknowledge
<1>4. state' \in {"CONNECTED", "DELAYING_DISCONNECT", "DISCONNECTING", "CLOSED"}
  BY <1>2, <1>3
<1>5. EarliestIsMeant'
  BY <1>2 DEF EarliestIsMeant
<1>6. /\ acks' \in Nat /\ answer' \in Nat /\ earliest' \in Nat /\ stale' \in BOOLEAN
      /\ window' \in Windows
  <2>1. acks' \in Nat /\ answer' \in Nat /\ earliest' \in Nat
    BY <1>1, <1>2
  <2>2. stale' \in BOOLEAN
    BY <1>2
  <2>3. window' \in Windows
    BY <1>1, <1>2 DEF TypeOK
  <2> QED BY <2>1, <2>2, <2>3
<1>7. CASE closes
  <2> DEFINE s == <<New(seq + 1, "DISCONNECT", 0)>>
  <2>1. s \in Seq(Outgoing) /\ Len(s) = 1 /\ NewOnes(s, seq)
    BY <1>1, <1>2, <1>7, OneNew
  <2>2. outR = <<>> /\ outR' = s /\ seq' = seq + 1
    BY <1>2, <1>7 DEF Closes, Drained, Closing
  <2> HIDE DEF s
  <2>3. outR' = outR \o s /\ seq' = seq + Len(s) /\ seq + Len(s) <= MaxIds
    BY <1>1, <1>2, <1>7, <2>1, <2>2, Constants
  <2>4. state' = "DISCONNECTING"
    BY <1>3, <1>7
  <2>5. DelayedCloseIsDue'
    BY <2>4 DEF DelayedCloseIsDue
  <2> QED BY <1>2, <1>4, <1>5, <1>6, <2>1, <2>3, <2>5, LessSent
<1>8. CASE ~closes
  <2>1. PICK s : s = <<>>
    OBVIOUS
  <2>2. s \in Seq(Outgoing) /\ Len(s) = 0 /\ DOMAIN s = {}
    BY <2>1
  <2>3. NewOnes(s, seq)
    BY <2>2 DEF NewOnes
  <2>4. outR' = outR \o s /\ seq' = seq + Len(s) /\ seq + Len(s) <= MaxIds
    BY <1>1, <1>2, <1>8, <2>1, <2>2, Constants
  <2>5. DelayedCloseIsDue'
    BY <1>2, <1>3, <1>8 DEF DelayedCloseIsDue, Closes, Drained
  <2> QED BY <1>2, <1>4, <1>5, <1>6, <2>2, <2>3, <2>4, <2>5, LessSent
<1> QED BY <1>7, <1>8

\* VALIDATE_CONNECT keeps it: what it takes out is CONNECT, which nobody awaits.
LEMMA ValidateKeeps == TransmissionInv /\ Validate => TransmissionInv'
<1> SUFFICES ASSUME TransmissionInv, Validate PROVE TransmissionInv'
  OBVIOUS
<1> DEFINE d == Disposed(1)
<1>1. /\ TypeOK /\ outR \in Seq(Outgoing) /\ seq \in Nat /\ seq <= MaxIds /\ now \in Nat
      /\ acks \in Nat /\ earliest \in Nat
  BY InvFacts
<1>2. /\ at = "app" /\ state = "CONNECTING" /\ state' = "CONNECTED"
      /\ sentR' = d.sent /\ inTransit' = d.transit /\ answer' = now
      /\ UNCHANGED <<now, outR, outU, earliest, counter, acks, at, polled, seq, first, stale>>
  BY DEF Validate
<1>3. EarliestIsMeant'
  <2>1. EarliestIsMeant
    BY DEF TransmissionInv
  <2>2. Awaited(sentR, earliest, first) => Awaited(d.sent, earliest, first)
    <3> SUFFICES ASSUME NEW j \in DOMAIN sentR, first[sentR[j].id] # 0,
                        first[sentR[j].id] <= earliest, sentR[j].id # 1
                 PROVE  Awaited(d.sent, earliest, first)
      BY DEF Awaited
    <3>1. PICK k \in DOMAIN d.sent : d.sent[k] = sentR[j]
      BY DisposedIs
    <3> QED BY <3>1 DEF Awaited
  <2> HIDE DEF d
  <2> QED BY <1>2, <2>1, <2>2 DEF EarliestIsMeant
<1>4. PICK s : s = <<>>
  OBVIOUS
<1>5. s \in Seq(Outgoing) /\ Len(s) = 0 /\ DOMAIN s = {}
  BY <1>4
<1>6. NewOnes(s, seq)
  BY <1>5 DEF NewOnes
<1>7. outR' = outR \o s /\ seq' = seq + Len(s) /\ seq + Len(s) <= MaxIds
  BY <1>1, <1>2, <1>4, <1>5, Constants
<1>8. DelayedCloseIsDue'
  BY <1>2 DEF DelayedCloseIsDue
<1>9. stale' \in BOOLEAN /\ window' \in Windows
  <2>1. PICK w \in Windows : window' = Smaller(w, window)
    BY DEF Validate
  <2>2. window' \in Windows
    BY <1>1, <2>1 DEF TypeOK, Smaller
  <2> QED BY <1>1, <1>2, <2>2 DEF TypeOK
<1>10. acks' \in Nat /\ answer' \in Nat /\ earliest' \in Nat
  BY <1>1, <1>2
<1> HIDE DEF d
<1> QED BY <1>2, <1>3, <1>5, <1>6, <1>7, <1>8, <1>9, <1>10, LessSent DEF d

\* The queued CONNECT satisfies it.
LEMMA InitKeeps == Init => TransmissionInv
<1> SUFFICES ASSUME Init PROVE TransmissionInv
  OBVIOUS
<1> DEFINE s == <<New(1, "CONNECT", 0)>>
           m == New(1, "CONNECT", 0)
<1>1. 1 \in Ids
  BY Constants DEF Ids
<1>2. m \in Outgoing /\ m.id = 1 /\ m.data = 0 /\ m.type = "CONNECT"
  BY <1>1, NewIs
<1>3. outR = s /\ sentR = <<>> /\ outU = <<>> /\ inTransit = 0 /\ now = 1 /\ seq = 1
  BY DEF Init
<1> HIDE DEF m
<1>4. s \in Seq(Outgoing) /\ DOMAIN s = {1} /\ s[1] = m
  BY <1>2 DEF m
<1>5. first = [n \in Ids |-> 0]
  BY DEF Init
<1> HIDE DEF s
<1>6. sentR \in Seq(Outgoing) /\ Len(sentR) = 0 /\ DOMAIN sentR = {}
  BY <1>3
<1>7. TypeOK
  <2>1. counter \in 0 .. (ThrottleScale - 1)
    BY ThrottleAssumption DEF Init
  <2>2. polled \in BOOLEAN /\ stale \in BOOLEAN
    BY DEF Init
  <2>3. first \in [Ids -> Nat]
    BY <1>5
  <2>4. outU \in Seq(Datagrams)
    BY <1>3
  <2>5. seq \in 0 .. MaxIds /\ now \in Nat /\ inTransit \in Nat
    BY <1>3, Constants
  <2>6. earliest \in Nat /\ acks \in Nat /\ answer \in Nat /\ at = "app" /\ window \in Windows
        /\ state = "CONNECTING"
    BY DEF Init
  <2> QED BY <1>3, <1>4, <1>6, <2>1, <2>2, <2>3, <2>4, <2>5, <2>6 DEF TypeOK
<1>8. InTransitIsSent
  <2>1. DataOf(sentR) = 0
    BY <1>6, NoData
  <2> QED BY <1>3, <2>1, Constants DEF InTransitIsSent
<1>9. DelayedCloseIsDue /\ EarliestIsMeant /\ PassIsFresh
  BY DEF Init, DelayedCloseIsDue, EarliestIsMeant, PassIsFresh
<1>10. QueuesSound
  <2>1. Distinct(sentR) /\ Apart(sentR, outR) /\ AllFit(sentR, seq) /\ AllLeft(sentR, first, now)
    BY <1>6 DEF Distinct, Apart, AllFit, AllLeft
  <2>2. Distinct(outR) /\ AllFit(outR, seq) /\ NewInOrder(outR, first)
    BY <1>2, <1>3, <1>4, Constants DEF Distinct, AllFit, NewInOrder
  <2>3. NewAreIn(outR, seq, first)
    <3> SUFFICES ASSUME NEW n \in Ids, n <= seq PROVE \E i \in DOMAIN outR : outR[i].id = n
      BY DEF NewAreIn
    <3>1. n = 1
      BY <1>3 DEF Ids
    <3> QED BY <1>2, <1>3, <1>4, <3>1
  <2> QED BY <2>1, <2>2, <2>3 DEF QueuesSound
<1>11. FirstSound
  BY <1>3, <1>5 DEF FirstSound, InOrder
<1> QED BY <1>7, <1>8, <1>9, <1>10, <1>11 DEF TransmissionInv

-----------------------------------------------------------------------------
(* A datagram.                                                             *)

\* The parts of Filled, under names of their own.
Owed == Smaller(acks, Smaller(MaxPerDatagram, Mtu))
Queued == Resent \o outR
Held == Those(sentR, DOMAIN sentR \ ExpiredAt)
Free == ExpiredAreReturned(inTransit)
Count == Leaving(Queued, Owed, Owed, Free)
Gone(rto) == [i \in 1 .. Count |-> Stamped(Queued[i], rto)]
Starves(quiet) ==
    /\ quiet /\ Queued # <<>> /\ Count = 0 /\ Held = <<>>
    /\ Owed + Used(Queued, Count) + 1 <= Mtu /\ state = "CONNECTED" /\ seq < MaxIds
Staying == SubSeq(Queued, Count + 1, Len(Queued))
Stays(quiet) ==
    Staying \o IF Starves(quiet) THEN <<New(seq + 1, "CONTROL", 0)>> ELSE <<>>

\* The parts of a datagram, by these names.
LEMMA FilledIs ==
    ASSUME NEW throttle, NEW rto, NEW quiet, NEW d, d = Filled(throttle, rto, quiet),
           NEW u, u = Unreliable(Owed + Used(Queued, Count), Owed + Count, throttle)
    PROVE  /\ d.gone = Gone(rto) /\ d.sent = Held \o Gone(rto)
           /\ d.closes = (outU # <<>> /\ Closes(Stays(quiet), Held \o Gone(rto), u.rest))
           /\ d.left = (IF d.closes THEN Closing(seq + 1) ELSE Stays(quiet))
           /\ d.rest = u.rest /\ d.counter = u.counter
           /\ d.seq = (IF d.closes \/ Starves(quiet) THEN seq + 1 ELSE seq)
           /\ d.acks = (IF d.closes THEN 0 ELSE acks - Owed)
           /\ d.transit = Free + DataOf(Gone(rto))
           /\ d.more = (CASE outU # <<>> -> u.rest # <<>>
                          [] outU = <<>> /\ Queued # <<>> ->
                               ReliableRemain(Queued, Owed, Owed, Free)
                          [] outU = <<>> /\ Queued = <<>> -> Owed < acks)
BY DEF Filled, Owed, Queued, Held, Free, Count, Gone, Starves, Staying, Stays

\* The messages of Resent are those that expired, with another time-out.
Alike(m, n) == m.id = n.id /\ m.data = n.data /\ m.type = n.type

\* What expired and what is held part the sent messages: both are sound, and the data in
\* flight is that of what is held.
LEMMA ExpiredIs ==
    ASSUME TransmissionInv
    PROVE  /\ ExpiredNow \in Seq(Outgoing) /\ Held \in Seq(Outgoing)
           /\ Distinct(ExpiredNow) /\ Distinct(Held)
           /\ Apart(ExpiredNow, outR) /\ Apart(Held, outR) /\ Apart(Held, ExpiredNow)
           /\ AllFit(ExpiredNow, seq) /\ AllFit(Held, seq)
           /\ AllLeft(ExpiredNow, first, now) /\ AllLeft(Held, first, now)
           /\ Free = DataOf(Held) /\ Free \in Nat
           /\ at # "flush" => \A j \in DOMAIN Held : ~Expired(Held[j])
           /\ \A j \in DOMAIN Held : \E i \in DOMAIN sentR : sentR[i] = Held[j]
           /\ \A i \in DOMAIN sentR : \/ \E j \in DOMAIN Held : Held[j] = sentR[i]
                                      \/ \E j \in DOMAIN ExpiredNow : ExpiredNow[j] = sentR[i]
           /\ (at = "flush" \/ \A i \in DOMAIN sentR : ~Expired(sentR[i])) => ExpiredNow = <<>>
<1> DEFINE P == ExpiredAt
           Q == DOMAIN sentR \ ExpiredAt
<1>1. /\ sentR \in Seq(Outgoing) /\ inTransit = DataOf(sentR)
      /\ Distinct(sentR) /\ Apart(sentR, outR) /\ AllFit(sentR, seq)
      /\ AllLeft(sentR, first, now)
  BY InvFacts DEF InTransitIsSent
<1>2. P \in SUBSET DOMAIN sentR /\ Q \in SUBSET DOMAIN sentR
  BY DEF ExpiredAt
<1>3. ExpiredNow = Those(sentR, P) /\ Held = Those(sentR, Q)
  BY DEF ExpiredNow, Held
<1>4. \A i \in DOMAIN sentR : /\ i \in P <=> at # "flush" /\ Expired(sentR[i])
                            /\ i \in Q <=> i \notin P
  BY DEF ExpiredAt
<1>14. \A i \in Q : i \notin P
  BY <1>2, <1>4, Zenon
<1>5. DataOf(sentR) = DataOf(Those(sentR, P)) + DataOf(Those(sentR, Q))
  BY <1>1, <1>2, DataSplit
<1> HIDE DEF P, Q
<1>6. /\ ExpiredNow \in Seq(Outgoing) /\ Held \in Seq(Outgoing)
      /\ Distinct(ExpiredNow) /\ Distinct(Held)
      /\ Apart(ExpiredNow, outR) /\ Apart(Held, outR)
      /\ AllFit(ExpiredNow, seq) /\ AllFit(Held, seq)
      /\ AllLeft(ExpiredNow, first, now) /\ AllLeft(Held, first, now)
  BY <1>1, <1>2, <1>3, PartSound
<1>7. /\ \A j \in DOMAIN ExpiredNow : \E i \in P : ExpiredNow[j] = sentR[i]
      /\ \A i \in P : \E j \in DOMAIN ExpiredNow : ExpiredNow[j] = sentR[i]
  BY <1>1, <1>2, <1>3, ThoseFacts
<1>8. /\ \A j \in DOMAIN Held : \E i \in Q : Held[j] = sentR[i]
      /\ \A i \in Q : \E j \in DOMAIN Held : Held[j] = sentR[i]
  BY <1>1, <1>2, <1>3, ThoseFacts
<1>9. Apart(Held, ExpiredNow)
  <2> SUFFICES ASSUME NEW i \in DOMAIN Held, NEW j \in DOMAIN ExpiredNow,
                      Held[i].id = ExpiredNow[j].id
               PROVE  FALSE
    BY DEF Apart
  <2>1. PICK a \in Q : Held[i] = sentR[a]
    BY <1>8
  <2>2. PICK b \in P : ExpiredNow[j] = sentR[b]
    BY <1>7
  <2>3. a = b
    BY <1>1, <1>2, <2>1, <2>2 DEF Distinct
  <2> QED BY <1>14, <2>3, Zenon
<1>10. Free = DataOf(Held) /\ Free \in Nat
  <2>1. \A r \in Seq(Outgoing) : DataOf(r) \in Nat
    <3>1. \A r \in Seq(Outgoing) : Len(r) \in 0 .. Len(r)
      OBVIOUS
    <3> QED BY <3>1, DataNatural DEF DataOf
  <2>2. DataOf(Held) \in Nat /\ DataOf(ExpiredNow) \in Nat
    BY <1>6, <2>1
  <2>3. Free = inTransit - DataOf(ExpiredNow)
    BY DEF Free, ExpiredAreReturned
  <2> QED BY <1>1, <1>3, <1>5, <2>2, <2>3, Constants
<1>11. /\ at # "flush" => \A j \in DOMAIN Held : ~Expired(Held[j])
       /\ \A j \in DOMAIN Held : \E i \in DOMAIN sentR : sentR[i] = Held[j]
  BY <1>2, <1>4, <1>8
<1>12. \A i \in DOMAIN sentR : \/ \E j \in DOMAIN Held : Held[j] = sentR[i]
                               \/ \E j \in DOMAIN ExpiredNow : ExpiredNow[j] = sentR[i]
  BY <1>4, <1>7, <1>8
<1>13. ASSUME at = "flush" \/ \A i \in DOMAIN sentR : ~Expired(sentR[i]) PROVE ExpiredNow = <<>>
  <2>1. \A i \in P : FALSE
    BY <1>13, Zenon DEF P, ExpiredAt
  <2>2. DOMAIN ExpiredNow = {}
    BY <1>7, <2>1
  <2> QED BY <1>6, <2>2
<1> QED BY <1>6, <1>9, <1>10, <1>11, <1>12, <1>13

\* What goes back to the queue are the messages that expired, each once.
LEMMA ResentIs ==
    ASSUME TransmissionInv
    PROVE  /\ Resent \in Seq(Outgoing) /\ Len(Resent) = Len(ExpiredNow)
           /\ \A i \in DOMAIN Resent : \E j \in DOMAIN ExpiredNow : Alike(Resent[i], ExpiredNow[j])
           /\ \A j \in DOMAIN ExpiredNow : \E i \in DOMAIN Resent : Alike(Resent[i], ExpiredNow[j])
           /\ Distinct(Resent)
<1> DEFINE e == ExpiredNow
           n == Len(e)
           twice(m) == [m EXCEPT !.rto = 2 * @]
           d == [i \in DOMAIN e |-> twice(e[i])]
<1>1. e \in Seq(Outgoing) /\ Distinct(e) /\ n \in Nat /\ DOMAIN e = 1 .. n
  BY ExpiredIs
<1>2. Resent = Reverse(d)
  BY DEF Resent
<1>3. \A m \in Outgoing : twice(m) \in Outgoing /\ Alike(twice(m), m)
  BY DEF Outgoing, Alike
<1> HIDE DEF e, n, twice
<1>4. d \in Seq(Outgoing) /\ Len(d) = n /\ \A i \in 1 .. n : d[i] = twice(e[i])
  BY <1>1, <1>3
<1> HIDE DEF d
<1>5. Resent = [i \in 1 .. n |-> d[n - i + 1]]
  BY <1>2, <1>4 DEF Reverse
<1>6. \A i \in 1 .. n : n - i + 1 \in 1 .. n
  BY <1>1
<1>7. Resent \in Seq(Outgoing) /\ Len(Resent) = n /\ DOMAIN Resent = 1 .. n
  BY <1>1, <1>3, <1>4, <1>5, <1>6, SMTT(30)
<1>8. \A i \in 1 .. n : Resent[i] = twice(e[n - i + 1]) /\ Alike(Resent[i], e[n - i + 1])
  BY <1>1, <1>3, <1>4, <1>5, <1>6
<1>9. \A j \in 1 .. n : Alike(Resent[n - j + 1], e[j])
  <2> SUFFICES ASSUME NEW j \in 1 .. n PROVE Alike(Resent[n - j + 1], e[j])
    OBVIOUS
  <2>1. n - j + 1 \in 1 .. n /\ n - (n - j + 1) + 1 = j
    BY <1>1
  <2> QED BY <1>8, <2>1
<1>10. Distinct(Resent)
  <2> SUFFICES ASSUME NEW i \in 1 .. n, NEW j \in 1 .. n, Resent[i].id = Resent[j].id
               PROVE  i = j
    BY <1>7 DEF Distinct
  <2>1. e[n - i + 1].id = e[n - j + 1].id
    BY <1>8 DEF Alike
  <2>2. n - i + 1 = n - j + 1
    BY <1>1, <1>6, <2>1 DEF Distinct
  <2> QED BY <1>1, <2>2
<1> QED BY <1>1, <1>6, <1>7, <1>8, <1>9, <1>10 DEF e, n

\* The queue a datagram is filled from is sound: messages that expired left before and stand in
\* front of those that did not.
LEMMA QueuedIs ==
    ASSUME TransmissionInv
    PROVE  /\ Queued \in Seq(Outgoing) /\ Len(Queued) = Len(Resent) + Len(outR)
           /\ Distinct(Queued) /\ Apart(Held, Queued) /\ AllFit(Queued, seq)
           /\ NewInOrder(Queued, first) /\ NewAreIn(Queued, seq, first)
           /\ \A i \in DOMAIN outR : \E j \in DOMAIN Queued : Alike(Queued[j], outR[i])
           /\ \A i \in DOMAIN ExpiredNow : \E j \in DOMAIN Queued : Alike(Queued[j], ExpiredNow[i])
<1> DEFINE a == Len(Resent)
<1>1. /\ outR \in Seq(Outgoing) /\ Distinct(outR) /\ AllFit(outR, seq)
      /\ NewInOrder(outR, first) /\ NewAreIn(outR, seq, first)
  BY InvFacts
<1>2. /\ Resent \in Seq(Outgoing) /\ Distinct(Resent)
      /\ \A i \in DOMAIN Resent : \E j \in DOMAIN ExpiredNow : Alike(Resent[i], ExpiredNow[j])
      /\ \A j \in DOMAIN ExpiredNow : \E i \in DOMAIN Resent : Alike(Resent[i], ExpiredNow[j])
  BY ResentIs
<1>3. /\ ExpiredNow \in Seq(Outgoing)
      /\ Apart(ExpiredNow, outR) /\ Apart(Held, outR) /\ Apart(Held, ExpiredNow)
      /\ AllFit(ExpiredNow, seq) /\ AllLeft(ExpiredNow, first, now)
  BY ExpiredIs
<1>4. /\ Queued \in Seq(Outgoing) /\ DOMAIN Queued = 1 .. (a + Len(outR))
      /\ Len(Queued) = a + Len(outR)
      /\ a \in Nat /\ Len(outR) \in Nat
      /\ DOMAIN Resent = 1 .. a /\ DOMAIN outR = 1 .. Len(outR)
      /\ \A i \in DOMAIN Resent : Queued[i] = Resent[i]
      /\ \A i \in DOMAIN outR : Queued[a + i] = outR[i]
  BY <1>1, <1>2 DEF Queued
<1> HIDE DEF a
<1>5. ASSUME NEW i \in DOMAIN Queued
      PROVE  \/ i \in DOMAIN Resent /\ Queued[i] = Resent[i]
             \/ \E k \in DOMAIN outR : i = a + k /\ Queued[i] = outR[k] /\ i > a
  <2>1. CASE i <= a
    BY <1>4, <2>1
  <2>2. CASE i > a
    <3>1. i - a \in DOMAIN outR /\ i = a + (i - a)
      BY <1>4, <2>2
    <3> QED BY <1>4, <2>2, <3>1
  <2> QED BY <1>4, <2>1, <2>2
<1>6. \A i \in DOMAIN Resent : \E j \in DOMAIN ExpiredNow :
         Resent[i].id = ExpiredNow[j].id /\ Alike(Resent[i], ExpiredNow[j])
  BY <1>2 DEF Alike
<1>7. \A i \in DOMAIN Resent, k \in DOMAIN outR : Resent[i].id # outR[k].id
  BY <1>3, <1>6 DEF Apart
<1>8. \A i \in DOMAIN Resent : first[Resent[i].id] # 0
  BY <1>3, <1>6 DEF AllLeft
<1>9. Distinct(Queued)
  <2> SUFFICES ASSUME NEW i \in DOMAIN Queued, NEW j \in DOMAIN Queued,
                      Queued[i].id = Queued[j].id
               PROVE  i = j
    BY DEF Distinct
  <2>1. CASE i \in DOMAIN Resent /\ Queued[i] = Resent[i] /\ j \in DOMAIN Resent /\ Queued[j] = Resent[j]
    BY <1>2, <2>1 DEF Distinct
  <2>2. ASSUME NEW k \in DOMAIN outR, i = a + k, Queued[i] = outR[k],
               NEW l \in DOMAIN outR, j = a + l, Queued[j] = outR[l]
        PROVE  i = j
    BY <1>1, <2>2 DEF Distinct
  <2>3. ASSUME NEW k \in DOMAIN outR, Queued[i] = outR[k], j \in DOMAIN Resent, Queued[j] = Resent[j]
        PROVE  FALSE
    BY <1>7, <2>3
  <2>4. ASSUME NEW k \in DOMAIN outR, Queued[j] = outR[k], i \in DOMAIN Resent, Queued[i] = Resent[i]
        PROVE  FALSE
    BY <1>7, <2>4
  <2> QED BY <1>5, <2>1, <2>2, <2>3, <2>4
<1>10. Apart(Held, Queued)
  <2> SUFFICES ASSUME NEW i \in DOMAIN Held, NEW j \in DOMAIN Queued
               PROVE  Held[i].id # Queued[j].id
    BY DEF Apart
  <2>1. CASE j \in DOMAIN Resent /\ Queued[j] = Resent[j]
    BY <1>3, <1>6, <2>1 DEF Apart
  <2>2. CASE \E k \in DOMAIN outR : Queued[j] = outR[k]
    BY <1>3, <2>2 DEF Apart
  <2> QED BY <1>5, <2>1, <2>2
<1>11. AllFit(Queued, seq)
  <2> SUFFICES ASSUME NEW j \in DOMAIN Queued
               PROVE  /\ Queued[j].data <= FragmentLength /\ Queued[j].id <= seq
                      /\ Queued[j].id = 1 => Queued[j].type = "CONNECT"
    BY DEF AllFit
  <2>1. CASE j \in DOMAIN Resent /\ Queued[j] = Resent[j]
    BY <1>3, <1>6, <2>1 DEF AllFit, Alike
  <2>2. CASE \E k \in DOMAIN outR : Queued[j] = outR[k]
    BY <1>1, <2>2 DEF AllFit
  <2> QED BY <1>5, <2>1, <2>2
<1>12. NewInOrder(Queued, first)
  <2> SUFFICES ASSUME NEW i \in DOMAIN Queued, NEW j \in DOMAIN Queued, i < j,
                      first[Queued[i].id] = 0
               PROVE  first[Queued[j].id] = 0 /\ Queued[i].id < Queued[j].id
    BY DEF NewInOrder
  <2>1. PICK k \in DOMAIN outR : i = a + k /\ Queued[i] = outR[k] /\ i > a
    BY <1>5, <1>8
  <2>2. j > a /\ j \notin DOMAIN Resent
    BY <1>4, <2>1
  <2>3. PICK l \in DOMAIN outR : j = a + l /\ Queued[j] = outR[l]
    BY <1>5, <2>2
  <2>4. k < l
    BY <1>4, <2>1, <2>3
  <2> QED BY <1>1, <2>1, <2>3, <2>4 DEF NewInOrder
<1>13. NewAreIn(Queued, seq, first)
  <2>1. \A k \in DOMAIN outR : a + k \in DOMAIN Queued /\ Queued[a + k] = outR[k]
    BY <1>4
  <2> QED BY <1>1, <2>1 DEF NewAreIn
<1>14. \A i \in DOMAIN outR : \E j \in DOMAIN Queued : Alike(Queued[j], outR[i])
  <2>1. \A k \in DOMAIN outR : a + k \in DOMAIN Queued /\ Queued[a + k] = outR[k]
    BY <1>4
  <2> QED BY <2>1 DEF Alike
<1>15. \A i \in DOMAIN ExpiredNow : \E j \in DOMAIN Queued : Alike(Queued[j], ExpiredNow[i])
  <2>1. \A k \in DOMAIN Resent : k \in DOMAIN Queued /\ Queued[k] = Resent[k]
    BY <1>4
  <2> QED BY <1>2, <2>1
<1> QED BY <1>4, <1>9, <1>10, <1>11, <1>12, <1>13, <1>14, <1>15 DEF a

\* The messages that leave: they are stamped, and otherwise what they were.
LEMMA GoneIs ==
    ASSUME TransmissionInv, NEW rto \in Rtos, NEW g, g = Gone(rto)
    PROVE  /\ Count \in 0 .. Len(Queued) /\ g \in Seq(Outgoing) /\ Len(g) = Count
           /\ \A i \in 1 .. Count : Alike(g[i], Queued[i]) /\ g[i].sentTime = now /\ g[i].rto > 0
<1>1. Queued \in Seq(Outgoing) /\ Len(Queued) \in Nat
  BY QueuedIs
<1>2. Count \in 0 .. Len(Queued)
  BY <1>1, LeavingIs DEF Count
<1>3. now \in Nat /\ rto \in Nat /\ rto > 0 /\ TimeoutLimit \in Nat
  BY InvFacts, TimesAssumption
<1>4. ASSUME NEW m \in Outgoing
      PROVE  LET s == Stamped(m, rto)
             IN  s \in Outgoing /\ Alike(s, m) /\ s.sentTime = now /\ s.rto > 0
  <2>1. PICK r : r = (IF m.rto = 0 THEN rto ELSE m.rto)
    OBVIOUS
  <2>2. PICK l : l = (IF m.rto = 0 THEN TimeoutLimit * rto ELSE m.limit)
    OBVIOUS
  <2>3. r \in Nat /\ r > 0
    BY <1>3, <2>1 DEF Outgoing
  <2>4. l \in Nat
    <3>1. TimeoutLimit * rto \in Nat
      BY <1>3
    <3>2. m.limit \in Nat
      BY DEF Outgoing
    <3> QED BY <2>2, <3>1, <3>2
  <2>5. Stamped(m, rto) = [m EXCEPT !.rto = r, !.limit = l, !.sentTime = now]
    BY <2>1, <2>2 DEF Stamped
  <2>6. [m EXCEPT !.rto = r, !.limit = l, !.sentTime = now] \in Outgoing
    BY <1>3, <2>3, <2>4 DEF Outgoing
  <2>7. LET s == [m EXCEPT !.rto = r, !.limit = l, !.sentTime = now]
        IN  Alike(s, m) /\ s.sentTime = now /\ s.rto > 0
    BY <2>3 DEF Outgoing, Alike
  <2> QED BY <2>5, <2>6, <2>7
<1>5. g = [i \in 1 .. Count |-> Stamped(Queued[i], rto)]
  BY DEF Gone
<1>6. \A i \in 1 .. Count : Queued[i] \in Outgoing
  BY <1>1, <1>2
<1>7. \A i \in 1 .. Count : /\ g[i] \in Outgoing /\ Alike(g[i], Queued[i])
                            /\ g[i].sentTime = now /\ g[i].rto > 0
  BY <1>4, <1>5, <1>6
<1>8. g \in Seq(Outgoing) /\ Len(g) = Count
  BY <1>2, <1>5, <1>7
<1> QED BY <1>2, <1>7, <1>8

\* What leaves keeps to the window, if some of it has data.
LEMMA GoneInWindow ==
    ASSUME TransmissionInv, NEW rto \in Rtos, NEW g, g = Gone(rto)
    PROVE  /\ DataOf(g) \in Nat
           /\ (\E i \in DOMAIN g : g[i].data # 0) => Free + DataOf(g) <= window
<1>1. /\ Count \in 0 .. Len(Queued) /\ g \in Seq(Outgoing) /\ Len(g) = Count
      /\ \A i \in 1 .. Count : Alike(g[i], Queued[i])
  BY GoneIs
<1>2. Queued \in Seq(Outgoing) /\ Len(Queued) \in Nat
  BY QueuedIs
<1>3. Free \in Nat /\ window \in Nat
  <2>1. window \in Windows
    BY InvFacts DEF TypeOK
  <2> QED BY <2>1, ExpiredIs, Constants
<1>4. \A j \in 1 .. Count : Leaves(Queued, j, Owed, Owed, Free)
  BY <1>2, LeavingIs DEF Count
<1>5. \A j \in 1 .. Count : Queued[j].data # 0 => Free + Data(Queued, j) <= window
  BY <1>4 DEF Leaves, InWindow
<1> DEFINE Some(k) == \E i \in 1 .. k : Queued[i].data # 0
           T == {k \in Nat : k <= Count /\ Some(k) => Free + Data(Queued, k) <= window}
<1>6. 0 \in T
  OBVIOUS
<1>7. ASSUME NEW j \in T PROVE j + 1 \in T
  <2> SUFFICES ASSUME j + 1 <= Count, Some(j + 1) PROVE Free + Data(Queued, j + 1) <= window
    OBVIOUS
  <2>1. j \in Nat /\ j <= Count /\ j + 1 \in 1 .. Count /\ j \in 0 .. (Len(Queued) - 1)
    BY <1>1, <1>2
  <2>2. CASE Queued[j + 1].data # 0
    BY <1>5, <2>1, <2>2
  <2>3. CASE Queued[j + 1].data = 0
    <3>1. Data(Queued, j + 1) = Data(Queued, j) + 0
      BY <1>2, <2>1, <2>3, DataStep
    <3>2. Data(Queued, j) \in Nat
      BY <1>2, <2>1, DataNatural
    <3>3. PICK i \in 1 .. (j + 1) : Queued[i].data # 0
      OBVIOUS
    <3>4. i \in 1 .. j
      BY <2>1, <2>3, <3>3
    <3>5. Free + Data(Queued, j) <= window
      BY <2>1, <3>3, <3>4
    <3> QED BY <3>1, <3>2, <3>5
  <2> QED BY <2>2, <2>3
<1> HIDE DEF T
<1>8. T = Nat
  BY <1>6, <1>7, SetInduction DEF T
<1>9. Count \in Nat /\ Count <= Count /\ Count <= Len(Queued)
  BY <1>1, <1>2
<1>10. Some(Count) => Free + Data(Queued, Count) <= window
  BY <1>8, <1>9 DEF T
<1>11. Data(g, Count) = Data(Queued, Count)
  <2>1. \A i \in 1 .. Count : g[i].data = Queued[i].data
    BY <1>1 DEF Alike
  <2> QED BY <1>1, <1>2, <1>9, <2>1, DataSame
<1>12. Data(Queued, Count) \in Nat
  BY <1>1, <1>2, DataNatural
<1>13. ASSUME NEW i \in DOMAIN g, g[i].data # 0 PROVE Some(Count)
  <2>1. i \in 1 .. Count
    BY <1>1
  <2>2. Queued[i].data # 0
    BY <1>1, <1>13, <2>1 DEF Alike
  <2> QED BY <2>1, <2>2
<1> HIDE DEF Some
<1> QED BY <1>1, <1>10, <1>11, <1>12, <1>13 DEF DataOf

\* The end of a queue.
LEMMA EndOf ==
    ASSUME NEW q \in Seq(Outgoing), NEW k \in 0 .. Len(q), NEW r, r = SubSeq(q, k + 1, Len(q))
    PROVE  /\ r \in Seq(Outgoing) /\ Len(r) = Len(q) - k
           /\ \A i \in DOMAIN r : k + i \in DOMAIN q /\ r[i] = q[k + i]
           /\ \A i \in DOMAIN q : i > k => i - k \in DOMAIN r /\ r[i - k] = q[i]
BY SMTT(30)

\* When the first k messages of a queue leave at the time t, the numbers stay single and in
\* their order: h are the messages that were sent before.
Departure(q, k, h, g, r, s, f, f2, top, t) ==
    /\ Len(g) = k /\ r = SubSeq(q, k + 1, Len(q)) /\ s = h \o g
    /\ \A i \in 1 .. k : Alike(g[i], q[i]) /\ g[i].sentTime = t
    /\ f2 = [n \in Ids |-> IF f[n] = 0 /\ \E i \in 1 .. k : q[i].id = n THEN t ELSE f[n]]

Orderly(q, h, f, top, t) ==
    /\ Distinct(h) /\ Distinct(q) /\ Apart(h, q) /\ AllFit(h, top) /\ AllFit(q, top)
    /\ AllLeft(h, f, t) /\ NewInOrder(q, f) /\ NewAreIn(q, top, f) /\ InOrder(f, top, t)

\* What leaves and what stays of such a queue are as orderly, at the times f2.
LEMMA DatagramOrder ==
    ASSUME NEW q \in Seq(Outgoing), NEW k \in 0 .. Len(q), NEW h \in Seq(Outgoing),
           NEW g \in Seq(Outgoing), NEW r, NEW s, NEW f \in [Ids -> Nat], NEW f2,
           NEW top \in Nat, NEW t \in Nat, t > 0,
           Departure(q, k, h, g, r, s, f, f2, top, t), Orderly(q, h, f, top, t)
    PROVE  /\ f2 \in [Ids -> Nat] /\ InOrder(f2, top, t)
           /\ s \in Seq(Outgoing) /\ Distinct(s) /\ AllFit(s, top) /\ AllLeft(s, f2, t)
           /\ r \in Seq(Outgoing) /\ Distinct(r) /\ AllFit(r, top) /\ Apart(s, r)
           /\ NewInOrder(r, f2) /\ NewAreIn(r, top, f2)
<1>0. /\ Len(g) = k /\ r = SubSeq(q, k + 1, Len(q)) /\ s = h \o g
      /\ \A i \in 1 .. k : Alike(g[i], q[i]) /\ g[i].sentTime = t
      /\ f2 = [n \in Ids |-> IF f[n] = 0 /\ \E i \in 1 .. k : q[i].id = n THEN t ELSE f[n]]
  BY DEF Departure
<1>o. /\ Distinct(h) /\ Distinct(q) /\ Apart(h, q) /\ AllFit(h, top) /\ AllFit(q, top)
      /\ AllLeft(h, f, t) /\ NewInOrder(q, f) /\ NewAreIn(q, top, f) /\ InOrder(f, top, t)
  BY DEF Orderly
<1>1. /\ r \in Seq(Outgoing) /\ Len(r) = Len(q) - k
      /\ \A i \in DOMAIN r : k + i \in DOMAIN q /\ r[i] = q[k + i]
      /\ \A i \in DOMAIN q : i > k => i - k \in DOMAIN r /\ r[i - k] = q[i]
  <2>1. r = SubSeq(q, k + 1, Len(q))
    BY <1>0
  <2> QED BY <2>1, EndOf
<1>2. /\ s \in Seq(Outgoing) /\ DOMAIN s = 1 .. (Len(h) + k) /\ Len(h) \in Nat
      /\ DOMAIN h = 1 .. Len(h) /\ DOMAIN q = 1 .. Len(q) /\ Len(q) \in Nat /\ k \in Nat
      /\ k <= Len(q)
      /\ \A i \in DOMAIN h : s[i] = h[i]
      /\ \A i \in 1 .. k : s[Len(h) + i] = g[i]
  <2>1. s = h \o g /\ Len(g) = k
    BY <1>0
  <2>2. /\ Len(h) \in Nat /\ DOMAIN h = 1 .. Len(h) /\ DOMAIN q = 1 .. Len(q)
        /\ Len(q) \in Nat /\ k \in Nat /\ k <= Len(q)
    OBVIOUS
  <2>3. s \in Seq(Outgoing) /\ Len(s) = Len(h) + Len(g)
    BY <2>1, ConcatProperties
  <2>4. /\ \A i \in 1 .. Len(h) : s[i] = h[i]
        /\ \A i \in 1 .. Len(g) : s[Len(h) + i] = g[i]
    BY <2>1
  <2>5. DOMAIN s = 1 .. Len(s)
    BY <2>3
  <2> QED BY <2>1, <2>2, <2>3, <2>4, <2>5
<1>i. \A i \in 1 .. k : i \in DOMAIN q /\ g[i].id = q[i].id
  BY <1>0, <1>2 DEF Alike
<1>d. \A i \in DOMAIN r : i \in Nat /\ i > 0
  BY <1>1
<1>3. ASSUME NEW i \in DOMAIN s
      PROVE  \/ i \in DOMAIN h /\ s[i] = h[i]
             \/ \E j \in 1 .. k : i = Len(h) + j /\ s[i] = g[j] /\ s[i].id = q[j].id
  <2>1. CASE i \in DOMAIN h
    BY <1>2, <2>1
  <2>2. CASE i \notin DOMAIN h
    <3>1. PICK j \in 1 .. k : i = Len(h) + j
      <4>1. i - Len(h) \in 1 .. k /\ i = Len(h) + (i - Len(h))
        BY <1>2, <2>2
      <4> QED BY <4>1
    <3>2. s[i] = g[j] /\ s[i].id = q[j].id
      BY <1>2, <1>i, <3>1
    <3> QED BY <3>1, <3>2
  <2> QED BY <2>1, <2>2
<1>4. /\ \A n \in Ids : f2[n] = IF f[n] = 0 /\ \E i \in 1 .. k : q[i].id = n THEN t ELSE f[n]
      /\ f2 \in [Ids -> Nat]
  BY <1>0
<1>5. \A i \in DOMAIN q : q[i].id \in Ids /\ q[i].id \in Nat /\ q[i].id <= top
  BY <1>o, Fields DEF Ids, AllFit
<1>6. \A i \in DOMAIN h : h[i].id \in Ids
  BY Fields
<1>7. \A n \in Ids : f[n] # 0 => f2[n] = f[n]
  BY <1>4
<1>8. \A i \in 1 .. k : i \in DOMAIN q /\ f2[q[i].id] # 0 /\ f2[q[i].id] <= t
  <2> SUFFICES ASSUME NEW i \in 1 .. k
               PROVE  i \in DOMAIN q /\ f2[q[i].id] # 0 /\ f2[q[i].id] <= t
    OBVIOUS
  <2>1. i \in DOMAIN q /\ q[i].id \in Ids
    BY <1>i, <1>5
  <2>2. f[q[i].id] <= t
    BY <1>o, <2>1 DEF InOrder
  <2>3. f2[q[i].id] = IF f[q[i].id] = 0 THEN t ELSE f[q[i].id]
    BY <1>4, <2>1
  <2> QED BY <2>1, <2>2, <2>3
<1>9. \A i \in DOMAIN q : i > k => f2[q[i].id] = f[q[i].id]
  <2> SUFFICES ASSUME NEW i \in DOMAIN q, i > k PROVE f2[q[i].id] = f[q[i].id]
    OBVIOUS
  <2>1. ~ \E j \in 1 .. k : q[j].id = q[i].id
    <3> SUFFICES ASSUME NEW j \in 1 .. k, q[j].id = q[i].id PROVE FALSE
      OBVIOUS
    <3>1. i = j
      BY <1>i, <1>o DEF Distinct
    <3> QED BY <1>2, <3>1
  <2> QED BY <1>4, <1>5, <2>1
<1>10. InOrder(f2, top, t)
  <2>1. ASSUME NEW n \in Ids PROVE f2[n] <= t /\ (n > top => f2[n] = 0)
    <3>1. f[n] <= t /\ (n > top => f[n] = 0)
      BY <1>o DEF InOrder
    <3>2. n > top => ~ \E i \in 1 .. k : q[i].id = n
      <4> SUFFICES ASSUME n > top, NEW i \in 1 .. k, q[i].id = n PROVE FALSE
        OBVIOUS
      <4>1. q[i].id \in Nat /\ q[i].id <= top
        BY <1>5, <1>i
      <4> QED BY <4>1
    <3>3. f2[n] \in {t, f[n]} /\ (n > top => f2[n] = f[n])
      BY <1>4, <3>2
    <3> QED BY <3>1, <3>3
  <2>2. ASSUME NEW i \in Ids, NEW j \in Ids, i < j, f2[j] # 0
        PROVE  f2[i] # 0 /\ f2[i] <= f2[j]
    <3>1. f[i] <= t /\ f[j] <= t /\ f[i] \in Nat /\ f[j] \in Nat
      BY <1>o DEF InOrder
    <3>2. CASE f[j] # 0
      <4>1. f[i] # 0 /\ f[i] <= f[j]
        BY <1>o, <2>2, <3>2 DEF InOrder
      <4> QED BY <1>7, <3>2, <4>1
    <3>3. CASE f[j] = 0
      <4>1. PICK b \in 1 .. k : q[b].id = j
        BY <1>4, <2>2, <3>3
      <4>2. f2[j] = t
        BY <1>4, <3>3, <4>1
      <4>3. CASE f[i] # 0
        BY <1>7, <3>1, <4>2, <4>3
      <4>4. CASE f[i] = 0
        <5>1. b \in DOMAIN q /\ j <= top
          BY <1>i, <1>5, <4>1
        <5>2. i <= top
          BY <2>2, <5>1 DEF Ids
        <5>3. PICK a \in DOMAIN q : q[a].id = i
          BY <1>o, <4>4, <5>2 DEF NewAreIn
        <5>4. ~(b < a)
          <6>1. SUFFICES ASSUME b < a PROVE FALSE
            OBVIOUS
          <6>2. q[b].id < q[a].id
            BY <1>o, <3>3, <4>1, <5>1, <6>1 DEF NewInOrder
          <6> QED BY <2>2, <4>1, <5>3, <6>2 DEF Ids
        <5>5. a \in 1 .. k
          BY <1>2, <5>4
        <5>6. f2[i] = t
          BY <1>4, <4>4, <5>3, <5>5
        <5> QED BY <4>2, <5>6
      <4> QED BY <4>3, <4>4
    <3> QED BY <3>2, <3>3
  <2> QED BY <1>o, <2>1, <2>2 DEF InOrder
<1>11. Distinct(s)
  <2> SUFFICES ASSUME NEW i \in DOMAIN s, NEW j \in DOMAIN s, s[i].id = s[j].id PROVE i = j
    BY DEF Distinct
  <2>1. CASE i \in DOMAIN h /\ s[i] = h[i] /\ j \in DOMAIN h /\ s[j] = h[j]
    BY <1>o, <2>1 DEF Distinct
  <2>2. ASSUME NEW a \in 1 .. k, i = Len(h) + a, s[i].id = q[a].id,
               NEW b \in 1 .. k, j = Len(h) + b, s[j].id = q[b].id
        PROVE  i = j
    BY <1>o, <1>8, <2>2 DEF Distinct
  <2>3. ASSUME NEW a \in 1 .. k, s[i].id = q[a].id, j \in DOMAIN h, s[j] = h[j] PROVE FALSE
    BY <1>o, <1>8, <2>3 DEF Apart
  <2>4. ASSUME NEW a \in 1 .. k, s[j].id = q[a].id, i \in DOMAIN h, s[i] = h[i] PROVE FALSE
    BY <1>o, <1>8, <2>4 DEF Apart
  <2> QED BY <1>3, <2>1, <2>2, <2>3, <2>4
<1>12. AllFit(s, top)
  <2> SUFFICES ASSUME NEW i \in DOMAIN s
               PROVE  /\ s[i].data <= FragmentLength /\ s[i].id <= top
                      /\ s[i].id = 1 => s[i].type = "CONNECT"
    BY DEF AllFit
  <2>1. CASE i \in DOMAIN h /\ s[i] = h[i]
    BY <1>o, <2>1 DEF AllFit
  <2>2. ASSUME NEW j \in 1 .. k, s[i] = g[j]
        PROVE  /\ s[i].data <= FragmentLength /\ s[i].id <= top
               /\ s[i].id = 1 => s[i].type = "CONNECT"
    <3>1. j \in DOMAIN q /\ s[i].id = q[j].id /\ s[i].data = q[j].data /\ s[i].type = q[j].type
      BY <1>0, <1>i, <2>2 DEF Alike
    <3> QED BY <1>o, <3>1 DEF AllFit
  <2> QED BY <1>3, <2>1, <2>2
<1>13. AllLeft(s, f2, t)
  <2> SUFFICES ASSUME NEW i \in DOMAIN s
               PROVE  f2[s[i].id] # 0 /\ f2[s[i].id] <= s[i].sentTime /\ s[i].sentTime <= t
    BY DEF AllLeft
  <2>1. CASE i \in DOMAIN h /\ s[i] = h[i]
    BY <1>o, <1>6, <1>7, <2>1 DEF AllLeft
  <2>2. ASSUME NEW j \in 1 .. k, s[i] = g[j], s[i].id = q[j].id
        PROVE  f2[s[i].id] # 0 /\ f2[s[i].id] <= s[i].sentTime /\ s[i].sentTime <= t
    <3>1. s[i].sentTime = t
      BY <1>0, <2>2
    <3> QED BY <1>8, <2>2, <3>1
  <2> QED BY <1>3, <2>1, <2>2
<1>14. Distinct(r) /\ AllFit(r, top)
  <2>1. Distinct(r)
    <3> SUFFICES ASSUME NEW i \in DOMAIN r, NEW j \in DOMAIN r, r[i].id = r[j].id PROVE i = j
      BY DEF Distinct
    <3>1. k + i = k + j
      BY <1>o, <1>1 DEF Distinct
    <3> QED BY <1>d, <1>2, <3>1, SMTT(30)
  <2>2. AllFit(r, top)
    BY <1>o, <1>1 DEF AllFit
  <2> QED BY <2>1, <2>2
<1>15. Apart(s, r)
  <2> SUFFICES ASSUME NEW i \in DOMAIN s, NEW j \in DOMAIN r, s[i].id = r[j].id PROVE FALSE
    BY DEF Apart
  <2>1. k + j \in DOMAIN q /\ s[i].id = q[k + j].id /\ k + j > k
    BY <1>1, <1>2, <1>d, SMTT(30)
  <2>2. CASE i \in DOMAIN h /\ s[i] = h[i]
    BY <1>o, <2>1, <2>2 DEF Apart
  <2>3. ASSUME NEW a \in 1 .. k, s[i].id = q[a].id PROVE FALSE
    <3>1. a = k + j
      BY <1>o, <1>8, <2>1, <2>3 DEF Distinct
    <3> QED BY <1>2, <1>d, <3>1, SMTT(30)
  <2> QED BY <1>3, <2>2, <2>3
<1>16. NewInOrder(r, f2)
  <2> SUFFICES ASSUME NEW i \in DOMAIN r, NEW j \in DOMAIN r, i < j, f2[r[i].id] = 0
               PROVE  f2[r[j].id] = 0 /\ r[i].id < r[j].id
    BY DEF NewInOrder
  <2>1. /\ k + i \in DOMAIN q /\ r[i] = q[k + i] /\ k + i > k
        /\ k + j \in DOMAIN q /\ r[j] = q[k + j] /\ k + j > k /\ k + i < k + j
    <3>1. /\ k + i \in DOMAIN q /\ r[i] = q[k + i]
          /\ k + j \in DOMAIN q /\ r[j] = q[k + j]
      BY <1>1
    <3>2. i \in Nat /\ i > 0 /\ j \in Nat /\ j > 0 /\ k \in Nat
      BY <1>2, <1>d
    <3>3. k + i > k /\ k + j > k /\ k + i < k + j
      BY <3>2, SMTT(30)
    <3> QED BY <3>1, <3>3
  <2>2. f[q[k + i].id] = 0
    BY <1>9, <2>1
  <2>3. f[q[k + j].id] = 0 /\ q[k + i].id < q[k + j].id
    BY <1>o, <2>1, <2>2 DEF NewInOrder
  <2> QED BY <1>9, <2>1, <2>3
<1>17. NewAreIn(r, top, f2)
  <2> SUFFICES ASSUME NEW n \in Ids, n <= top, f2[n] = 0 PROVE \E i \in DOMAIN r : r[i].id = n
    BY DEF NewAreIn
  <2>1. f[n] = 0
    BY <1>7
  <2>2. PICK a \in DOMAIN q : q[a].id = n
    BY <1>o, <2>1 DEF NewAreIn
  <2>3. ~(a \in 1 .. k)
    BY <1>0, <1>8, <2>2
  <2>4. a > k
    BY <1>2, <2>3
  <2> QED BY <1>1, <2>2, <2>4
<1> QED BY <1>1, <1>2, <1>4, <1>10, <1>11, <1>12, <1>13, <1>14, <1>15, <1>16, <1>17

\* What stays in the queue is its end, and perhaps one new message behind.
LEMMA LeftIs ==
    ASSUME TransmissionInv, NEW throttle, NEW rto \in Rtos, NEW quiet, NEW d,
           d = Filled(throttle, rto, quiet), d.seq <= MaxIds
    PROVE  /\ \E s \in Seq(Outgoing) :
                /\ NewOnes(s, seq) /\ d.left = Staying \o s
                /\ d.seq = seq + Len(s) /\ seq + Len(s) <= MaxIds
           /\ d.closes => /\ Staying = <<>> /\ d.sent = <<>> /\ d.rest = <<>>
                          /\ state = "DELAYING_DISCONNECT"
           /\ outU # <<>> /\ state = "DELAYING_DISCONNECT" /\ ~d.closes =>
                ~Drained(d.left, d.sent, d.rest)
<1>1. seq \in Nat /\ seq <= MaxIds /\ Queued \in Seq(Outgoing) /\ Count \in 0 .. Len(Queued)
  BY InvFacts, QueuedIs, GoneIs
<1>2. Staying \in Seq(Outgoing)
  BY <1>1, EndOf DEF Staying
<1> DEFINE u == Unreliable(Owed + Used(Queued, Count), Owed + Count, throttle)
<1>3. /\ d.sent = Held \o Gone(rto) /\ d.rest = u.rest
      /\ d.closes = (outU # <<>> /\ Closes(Stays(quiet), Held \o Gone(rto), u.rest))
      /\ d.left = (IF d.closes THEN Closing(seq + 1) ELSE Stays(quiet))
      /\ d.seq = (IF d.closes \/ Starves(quiet) THEN seq + 1 ELSE seq)
  BY FilledIs
<1> HIDE DEF u
<1>4. PICK ping : ping = <<New(seq + 1, "CONTROL", 0)>>
  OBVIOUS
<1>5. PICK none : none = <<>>
  OBVIOUS
<1>6. none \in Seq(Outgoing) /\ Len(none) = 0 /\ NewOnes(none, seq) /\ Staying \o none = Staying
  BY <1>2, <1>5 DEF NewOnes
<1>7. Stays(quiet) = Staying \o (IF Starves(quiet) THEN ping ELSE none)
  BY <1>4, <1>5 DEF Stays
<1>8. Starves(quiet) => ping \in Seq(Outgoing) /\ Len(ping) = 1 /\ NewOnes(ping, seq)
  <2>1. Starves(quiet) => seq < MaxIds
    BY DEF Starves
  <2> QED BY <1>1, <1>4, <2>1, OneNew
<1>9. CASE d.closes
  <2>1. Closes(Stays(quiet), d.sent, d.rest)
    BY <1>3, <1>9
  <2>2. /\ Stays(quiet) = <<>> /\ d.sent = <<>> /\ d.rest = <<>>
        /\ state = "DELAYING_DISCONNECT"
    BY <2>1 DEF Closes, Drained
  <2>3. ~Starves(quiet)
    BY <2>2 DEF Starves
  <2>4. Staying = <<>>
    BY <1>6, <1>7, <2>2, <2>3
  <2>5. PICK s : s = <<New(seq + 1, "DISCONNECT", 0)>>
    OBVIOUS
  <2>6. d.left = s /\ d.seq = seq + 1
    BY <1>3, <1>9, <2>5 DEF Closing
  <2>7. seq < MaxIds
    BY <1>1, <2>6, Constants
  <2>8. s \in Seq(Outgoing) /\ Len(s) = 1 /\ NewOnes(s, seq)
    BY <1>1, <2>5, <2>7, OneNew
  <2>9. Staying \o s = s
    BY <2>4, <2>8
  <2>10. d.seq = seq + Len(s) /\ seq + Len(s) <= MaxIds
    BY <1>1, <2>6, <2>7, <2>8, Constants
  <2> QED BY <1>9, <2>2, <2>4, <2>6, <2>8, <2>9, <2>10
<1>10. CASE ~d.closes
  <2>1. d.left = Stays(quiet) /\ d.seq = (IF Starves(quiet) THEN seq + 1 ELSE seq)
    BY <1>3, <1>10
  <2>2. ~(outU # <<>> /\ Closes(Stays(quiet), d.sent, d.rest))
    BY <1>3, <1>10
  <2>3. outU # <<>> /\ state = "DELAYING_DISCONNECT" => ~Drained(d.left, d.sent, d.rest)
    BY <2>1, <2>2 DEF Closes
  <2>4. \E s \in Seq(Outgoing) :
           /\ NewOnes(s, seq) /\ d.left = Staying \o s
           /\ d.seq = seq + Len(s) /\ seq + Len(s) <= MaxIds
    <3>1. CASE Starves(quiet)
      <4>1. d.left = Staying \o ping /\ d.seq = seq + 1 /\ Len(ping) = 1
        BY <1>7, <1>8, <2>1, <3>1
      <4>2. seq + 1 <= MaxIds
        BY <4>1
      <4> QED BY <1>8, <3>1, <4>1, <4>2
    <3>2. CASE ~Starves(quiet)
      <4>1. d.left = Staying \o none /\ d.seq = seq
        BY <1>7, <2>1, <3>2
      <4>2. seq = seq + Len(none)
        BY <1>1, <1>6
      <4> QED BY <1>1, <1>6, <4>1, <4>2
    <3> QED BY <3>1, <3>2
  <2> QED BY <1>10, <2>3, <2>4
<1> QED BY <1>9, <1>10

\* A message that was queued or had been sent is so after a datagram.
LEMMA StillThere ==
    ASSUME TransmissionInv, NEW rto \in Rtos, NEW m,
           \/ \E i \in DOMAIN sentR : sentR[i] = m
           \/ \E i \in DOMAIN outR : outR[i] = m
    PROVE  \/ \E i \in DOMAIN (Held \o Gone(rto)) : (Held \o Gone(rto))[i].id = m.id
           \/ \E i \in DOMAIN Staying : Staying[i].id = m.id
<1>1. /\ Held \in Seq(Outgoing)
      /\ \A i \in DOMAIN sentR : \/ \E j \in DOMAIN Held : Held[j] = sentR[i]
                                 \/ \E j \in DOMAIN ExpiredNow : ExpiredNow[j] = sentR[i]
  BY ExpiredIs
<1>2. /\ Queued \in Seq(Outgoing)
      /\ \A i \in DOMAIN outR : \E j \in DOMAIN Queued : Alike(Queued[j], outR[i])
      /\ \A i \in DOMAIN ExpiredNow : \E j \in DOMAIN Queued : Alike(Queued[j], ExpiredNow[i])
  BY QueuedIs
<1>3. PICK g : g = Gone(rto)
  OBVIOUS
<1>4. /\ Count \in 0 .. Len(Queued) /\ g \in Seq(Outgoing) /\ Len(g) = Count
      /\ \A i \in 1 .. Count : Alike(g[i], Queued[i])
  BY <1>3, GoneIs
<1>5. /\ \A i \in DOMAIN Queued : i > Count => i - Count \in DOMAIN Staying /\ Staying[i - Count] = Queued[i]
  BY <1>2, <1>4, EndOf DEF Staying
<1>6. PICK s : s = Held \o g
  OBVIOUS
<1>7. /\ DOMAIN s = 1 .. (Len(Held) + Len(g)) /\ Len(Held) \in Nat /\ Len(g) \in Nat
      /\ DOMAIN Held = 1 .. Len(Held)
      /\ \A i \in 1 .. Len(Held) : s[i] = Held[i]
      /\ \A i \in 1 .. Len(g) : s[Len(Held) + i] = g[i]
  <2>1. s \in Seq(Outgoing) /\ Len(s) = Len(Held) + Len(g)
    BY <1>1, <1>4, <1>6, ConcatProperties
  <2>2. /\ \A i \in 1 .. Len(Held) : s[i] = Held[i]
        /\ \A i \in 1 .. Len(g) : s[Len(Held) + i] = g[i]
    <3>1. \A i \in 1 .. Len(s) : s[i] = IF i <= Len(Held) THEN Held[i] ELSE g[i - Len(Held)]
      BY <1>1, <1>4, <1>6, ConcatProperties
    <3>2. Len(Held) \in Nat /\ Len(g) \in Nat
      BY <1>1, <1>4
    <3> QED BY <2>1, <3>1, <3>2, SMTT(30)
  <2>3. DOMAIN s = 1 .. Len(s) /\ Len(Held) \in Nat /\ Len(g) \in Nat /\ DOMAIN Held = 1 .. Len(Held)
    BY <1>1, <1>4, <2>1
  <2> QED BY <2>1, <2>2, <2>3
<1>8. CASE \E j \in DOMAIN Held : Held[j] = m
  <2>1. \E i \in DOMAIN s : s[i].id = m.id
    BY <1>7, <1>8
  <2> QED BY <1>3, <1>6, <2>1
<1>9. CASE \E j \in DOMAIN Queued : Alike(Queued[j], m)
  <2>1. PICK j \in DOMAIN Queued : Queued[j].id = m.id
    BY <1>9 DEF Alike
  <2>2. j \in Nat /\ j >= 1 /\ Count \in Nat
    BY <1>2, <1>4
  <2>3. CASE j > Count
    BY <1>5, <2>1, <2>3
  <2>4. CASE j <= Count
    <3>1. j \in 1 .. Count
      BY <2>2, <2>4
    <3>2. g[j].id = m.id
      BY <1>4, <2>1, <3>1 DEF Alike
    <3>3. Len(Held) + j \in DOMAIN s /\ s[Len(Held) + j] = g[j]
      BY <1>4, <1>7, <3>1
    <3>4. \E i \in DOMAIN s : s[i].id = m.id
      BY <3>2, <3>3
    <3> QED BY <1>3, <1>6, <3>4
  <2> QED BY <2>2, <2>3, <2>4
<1> QED BY <1>1, <1>2, <1>8, <1>9

\* What a datagram sends for the first time leaves now, and the rest stays as it was.
LEMMA FirstIs ==
    ASSUME TransmissionInv, NEW throttle, NEW rto \in Rtos, NEW quiet, NEW d,
           d = Filled(throttle, rto, quiet), Datagram(d)
    PROVE  first' = [n \in Ids |->
                       IF first[n] = 0 /\ \E i \in 1 .. Count : Queued[i].id = n
                       THEN now ELSE first[n]]
<1>1. PICK g : g = Gone(rto)
  OBVIOUS
<1>2. /\ Count \in 0 .. Len(Queued) /\ g \in Seq(Outgoing) /\ Len(g) = Count
      /\ \A i \in 1 .. Count : Alike(g[i], Queued[i])
  BY <1>1, GoneIs
<1>3. d.gone = g
  BY <1>1, FilledIs
<1>4. first' = [n \in Ids |-> IF first[n] = 0 /\ \E m \in Range(g) : m.id = n
                              THEN now ELSE first[n]]
  BY <1>3 DEF Datagram
<1>5. DOMAIN g = 1 .. Count /\ \A i \in 1 .. Count : g[i].id = Queued[i].id
  BY <1>2 DEF Alike
<1>6. Range(g) = {g[i] : i \in DOMAIN g}
  BY DEF Range
<1>7. \A n : (\E m \in Range(g) : m.id = n) <=> (\E i \in 1 .. Count : Queued[i].id = n)
  BY <1>5, <1>6
<1> QED BY <1>4, <1>7

\* The queues after a datagram are as sound as before.
LEMMA SentSound ==
    ASSUME TransmissionInv, NEW throttle, NEW rto \in Rtos, NEW quiet, NEW d,
           d = Filled(throttle, rto, quiet), Datagram(d)
    PROVE  /\ QueuesSound' /\ FirstSound' /\ first' \in [Ids -> Nat]
           /\ outR' \in Seq(Outgoing) /\ sentR' \in Seq(Outgoing) /\ seq' \in 0 .. MaxIds
           /\ \A i \in DOMAIN Staying : \E j \in DOMAIN outR' : outR'[j] = Staying[i]
<1>1. /\ outR' = d.left /\ sentR' = d.sent /\ seq' = d.seq /\ d.seq <= MaxIds /\ now' = now
  BY DEF Datagram
<1>2. PICK s \in Seq(Outgoing) :
         /\ NewOnes(s, seq) /\ d.left = Staying \o s
         /\ d.seq = seq + Len(s) /\ seq + Len(s) <= MaxIds
  BY <1>1, LeftIs
<1>3. PICK g : g = Gone(rto)
  OBVIOUS
<1>4. PICK r : r = Staying
  OBVIOUS
<1>5. /\ Count \in 0 .. Len(Queued) /\ g \in Seq(Outgoing) /\ Len(g) = Count
      /\ \A i \in 1 .. Count : Alike(g[i], Queued[i]) /\ g[i].sentTime = now
  BY <1>3, GoneIs
<1>6. d.sent = Held \o g
  <2>1. PICK u : u = Unreliable(Owed + Used(Queued, Count), Owed + Count, throttle)
    OBVIOUS
  <2>2. d.sent = Held \o Gone(rto)
    BY <2>1, FilledIs
  <2> QED BY <1>3, <2>2
<1>7. Departure(Queued, Count, Held, g, r, sentR', first, first', seq, now)
  <2>0. first' = [n \in Ids |->
                    IF first[n] = 0 /\ \E i \in 1 .. Count : Queued[i].id = n
                    THEN now ELSE first[n]]
    BY FirstIs
  <2>1. r = SubSeq(Queued, Count + 1, Len(Queued))
    BY <1>4 DEF Staying
  <2> QED BY <1>1, <1>5, <1>6, <2>0, <2>1 DEF Departure
<1>8. /\ seq \in Nat /\ seq > 0 /\ now \in Nat /\ now > 0 /\ first \in [Ids -> Nat]
      /\ InOrder(first, seq, now)
  BY InvFacts
<1>9. Held \in Seq(Outgoing) /\ Queued \in Seq(Outgoing)
  BY ExpiredIs, QueuedIs
<1>10. Orderly(Queued, Held, first, seq, now)
  BY <1>8, ExpiredIs, QueuedIs DEF Orderly
<1>11. /\ first' \in [Ids -> Nat] /\ InOrder(first', seq, now)
       /\ sentR' \in Seq(Outgoing) /\ Distinct(sentR') /\ AllFit(sentR', seq)
       /\ AllLeft(sentR', first', now)
       /\ r \in Seq(Outgoing) /\ Distinct(r) /\ AllFit(r, seq) /\ Apart(sentR', r)
       /\ NewInOrder(r, first') /\ NewAreIn(r, seq, first')
  BY <1>5, <1>7, <1>8, <1>9, <1>10, DatagramOrder
<1>12. outR' = r \o s /\ seq' = seq + Len(s) /\ seq + Len(s) <= MaxIds /\ Len(s) \in Nat
  BY <1>1, <1>2, <1>4
<1>13. /\ outR' \in Seq(Outgoing) /\ InOrder(first', seq', now)
       /\ Distinct(outR') /\ AllFit(outR', seq')
       /\ NewInOrder(outR', first') /\ NewAreIn(outR', seq', first')
  BY <1>2, <1>8, <1>11, <1>12, QueuedSound
<1>14. Apart(sentR', outR') /\ AllFit(sentR', seq')
  BY <1>2, <1>8, <1>11, <1>12, QueuedApart
<1>15. QueuesSound'
  BY <1>1, <1>11, <1>13, <1>14 DEF QueuesSound
<1>16. FirstSound'
  BY <1>1, <1>8, <1>12, <1>13 DEF FirstSound
<1>17. seq' \in 0 .. MaxIds
  BY <1>8, <1>12, Constants
<1>18. ASSUME NEW i \in DOMAIN r PROVE \E j \in DOMAIN outR' : outR'[j] = r[i]
  <2>1. i \in DOMAIN outR' /\ outR'[i] = r[i]
    BY <1>2, <1>11, <1>12, SMTT(30)
  <2> QED BY <2>1
<1> QED BY <1>4, <1>11, <1>13, <1>15, <1>16, <1>17, <1>18

\* A message that is pending stays so, and what left once, left.
LEMMA PendingStays ==
    ASSUME TransmissionInv, NEW throttle, NEW rto \in Rtos, NEW quiet, NEW d,
           d = Filled(throttle, rto, quiet), Datagram(d), NEW m \in Outgoing,
           \/ \E i \in DOMAIN sentR : sentR[i] = m
           \/ \E i \in DOMAIN outR : outR[i] = m
    PROVE  /\ \/ \E i \in DOMAIN sentR' : sentR'[i].id = m.id
              \/ \E i \in DOMAIN outR' : outR'[i].id = m.id
           /\ first[m.id] # 0 => first'[m.id] = first[m.id]
<1>1. sentR' = Held \o Gone(rto)
  BY FilledIs DEF Datagram
<1>2. \/ \E i \in DOMAIN sentR' : sentR'[i].id = m.id
      \/ \E i \in DOMAIN Staying : Staying[i].id = m.id
  BY <1>1, StillThere
<1>3. \A i \in DOMAIN Staying : \E j \in DOMAIN outR' : outR'[j] = Staying[i]
  BY SentSound
<1>4. first[m.id] # 0 => first'[m.id] = first[m.id]
  <2>1. m.id \in Ids
    BY Fields
  <2> QED BY <2>1, FirstIs
<1> QED BY <1>2, <1>3, <1>4

\* What a datagram leaves has its type.
LEMMA SentTypes ==
    ASSUME TransmissionInv, NEW throttle, NEW rto \in Rtos, NEW quiet, NEW d,
           d = Filled(throttle, rto, quiet), Datagram(d)
    PROVE  /\ outU' \in Seq(Datagrams) /\ Len(outU') <= Len(outU)
           /\ counter' \in 0 .. (ThrottleScale - 1)
           /\ acks' \in Nat /\ Owed \in Nat /\ Owed <= acks /\ earliest' \in Nat
           /\ Used(Queued, Count) \in Nat
<1>1. /\ outU \in Seq(Datagrams) /\ counter \in 0 .. (ThrottleScale - 1) /\ acks \in Nat
      /\ earliest \in Nat /\ Queued \in Seq(Outgoing) /\ Count \in 0 .. Len(Queued)
  BY InvFacts, QueuedIs, GoneIs
<1>2. Owed \in Nat /\ Owed <= acks
  BY <1>1, Constants DEF Owed, Smaller
<1>3. Used(Queued, Count) \in Nat
  <2>1. PICK f : f = [i \in DOMAIN Queued |-> SizeOf(Queued[i])]
    OBVIOUS
  <2>2. ASSUME NEW i \in 1 .. Count PROVE f[i] \in Nat
    <3>1. i \in DOMAIN Queued /\ f[i] = SizeOf(Queued[i])
      BY <1>1, <2>1
    <3>2. Queued[i].data \in Nat
      BY <1>1, <3>1, Fields
    <3> QED BY <3>1, <3>2 DEF SizeOf
  <2>3. Count \in Nat
    BY <1>1
  <2>4. Sum(f, Count) \in Nat
    BY <2>2, <2>3, SumNatural
  <2> QED BY <2>1, <2>4 DEF Used
<1>4. PICK u : u = Unreliable(Owed + Used(Queued, Count), Owed + Count, throttle)
  OBVIOUS
<1>5. Owed + Used(Queued, Count) \in Nat /\ Owed + Count \in Nat
  BY <1>1, <1>2, <1>3
<1>6. u.rest \in Seq(Datagrams) /\ u.counter \in 0 .. (ThrottleScale - 1) /\ Len(u.rest) <= Len(outU)
  BY <1>1, <1>4, <1>5, UnreliableIs
<1>7. /\ d.rest = u.rest /\ d.counter = u.counter
      /\ d.acks = (IF d.closes THEN 0 ELSE acks - Owed)
  BY <1>4, FilledIs
<1>8. outU' = d.rest /\ counter' = d.counter /\ acks' = d.acks /\ earliest' = EarliestNow
  BY DEF Datagram
<1>9. acks' \in Nat
  BY <1>1, <1>2, <1>7, <1>8
<1>10. EarliestNow \in Nat
  <2>1. CASE ExpiredNow # <<>>
    <3>1. ExpiredNow \in Seq(Outgoing)
      BY ExpiredIs
    <3>2. Head(ExpiredNow).sentTime \in Nat
      BY <2>1, <3>1, Fields
    <3> QED BY <1>1, <3>2 DEF EarliestNow
  <2>2. CASE ExpiredNow = <<>>
    BY <1>1, <2>2 DEF EarliestNow
  <2> QED BY <2>1, <2>2
<1> QED BY <1>2, <1>3, <1>6, <1>7, <1>8, <1>9, <1>10

\* The message whose time-out is remembered was sent, and is pending.
LEMMA EarliestSent ==
    ASSUME TransmissionInv, state # "GONE", EarliestNow # 0, ~stale,
           \A m \in Range(ExpiredNow) : m.type # "CONNECT"
    PROVE  \E m \in Outgoing :
             /\ \/ \E i \in DOMAIN sentR : sentR[i] = m
                \/ \E i \in DOMAIN outR : outR[i] = m
             /\ first[m.id] # 0 /\ first[m.id] <= EarliestNow /\ m.id # 1
<1>1. /\ sentR \in Seq(Outgoing) /\ outR \in Seq(Outgoing)
  BY InvFacts
<1>2. CASE earliest = 0 /\ ExpiredNow # <<>>
  <2>1. /\ ExpiredNow \in Seq(Outgoing) /\ AllLeft(ExpiredNow, first, now) /\ AllFit(ExpiredNow, seq)
    BY ExpiredIs
  <2>2. PICK m : m = ExpiredNow[1]
    OBVIOUS
  <2>3. 1 \in DOMAIN ExpiredNow /\ m \in Outgoing /\ Head(ExpiredNow) = m
    BY <1>2, <2>1, <2>2
  <2>4. first[m.id] # 0 /\ first[m.id] <= m.sentTime
    BY <2>1, <2>2, <2>3 DEF AllLeft
  <2>5. m.type # "CONNECT"
    BY <2>2, <2>3 DEF Range
  <2>6. m.id # 1
    BY <2>1, <2>2, <2>3, <2>5 DEF AllFit
  <2>7. \E i \in DOMAIN sentR : sentR[i] = m
    <3>1. ExpiredAt \in SUBSET DOMAIN sentR
      BY DEF ExpiredAt
    <3>2. \E i \in ExpiredAt : ExpiredNow[1] = sentR[i]
      BY <1>1, <2>3, <3>1, ThoseFacts DEF ExpiredNow
    <3> QED BY <2>2, <3>1, <3>2
  <2>8. EarliestNow = m.sentTime
    BY <1>2, <2>3 DEF EarliestNow
  <2> QED BY <2>3, <2>4, <2>6, <2>7, <2>8
<1>3. CASE ~(earliest = 0 /\ ExpiredNow # <<>>)
  <2>1. EarliestNow = earliest
    BY <1>3 DEF EarliestNow
  <2>2. Awaited(sentR, earliest, first) \/ Awaited(outR, earliest, first)
    BY <2>1 DEF TransmissionInv, EarliestIsMeant
  <2>3. CASE Awaited(sentR, earliest, first)
    <3>1. PICK i \in DOMAIN sentR : first[sentR[i].id] # 0 /\ first[sentR[i].id] <= earliest /\ sentR[i].id # 1
      BY <2>3 DEF Awaited
    <3>2. sentR[i] \in Outgoing
      BY <1>1
    <3> QED BY <2>1, <3>1, <3>2
  <2>4. CASE Awaited(outR, earliest, first)
    <3>1. PICK i \in DOMAIN outR : first[outR[i].id] # 0 /\ first[outR[i].id] <= earliest /\ outR[i].id # 1
      BY <2>4 DEF Awaited
    <3>2. outR[i] \in Outgoing
      BY <1>1
    <3> QED BY <2>1, <3>1, <3>2
  <2> QED BY <2>2, <2>3, <2>4
<1> QED BY <1>2, <1>3

\* A datagram keeps the invariant.
LEMMA SendKeeps == TransmissionInv /\ Send => TransmissionInv'
<1> SUFFICES ASSUME TransmissionInv, Send PROVE TransmissionInv'
  OBVIOUS
<1>1. PICK throttle \in Throttles, rto \in Rtos, quiet \in BOOLEAN :
         Datagram(Filled(throttle, rto, quiet))
  BY DEF Send
<1>2. PICK d : d = Filled(throttle, rto, quiet)
  OBVIOUS
<1>3. PICK g : g = Gone(rto)
  OBVIOUS
<1>4. PICK u : u = Unreliable(Owed + Used(Queued, Count), Owed + Count, throttle)
  OBVIOUS
<1>5. Datagram(d) /\ state # "GONE"
  BY <1>1, <1>2 DEF Send, Active
<1>6. /\ d.sent = Held \o g /\ d.transit = Free + DataOf(g)
  <2>1. d.sent = Held \o Gone(rto) /\ d.transit = Free + DataOf(Gone(rto))
    BY <1>2, <1>4, FilledIs
  <2> QED BY <1>3, <2>1
<1>7. /\ outR' = d.left /\ sentR' = d.sent /\ outU' = d.rest /\ inTransit' = d.transit
      /\ state' = (IF d.closes THEN "DISCONNECTING" ELSE state) /\ d.seq <= MaxIds
      /\ now' = now /\ answer' = answer /\ earliest' = EarliestNow
  BY <1>5 DEF Datagram
<1>8. /\ QueuesSound' /\ FirstSound' /\ first' \in [Ids -> Nat]
      /\ outR' \in Seq(Outgoing) /\ sentR' \in Seq(Outgoing) /\ seq' \in 0 .. MaxIds
      /\ \A i \in DOMAIN Staying : \E j \in DOMAIN outR' : outR'[j] = Staying[i]
  BY <1>2, <1>5, SentSound
<1>9. /\ Count \in 0 .. Len(Queued) /\ g \in Seq(Outgoing) /\ Len(g) = Count
      /\ \A i \in 1 .. Count : g[i].sentTime = now /\ g[i].rto > 0
  BY <1>3, GoneIs
<1>10. /\ Held \in Seq(Outgoing) /\ Free = DataOf(Held) /\ Free \in Nat
       /\ at # "flush" => \A j \in DOMAIN Held : ~Expired(Held[j])
  BY ExpiredIs
<1>11. TypeOK /\ DelayedCloseIsDue
  BY DEF TransmissionInv
<1>12. InTransitIsSent'
  <2>1. DataOf(sentR') = DataOf(Held) + DataOf(g)
    BY <1>6, <1>7, <1>9, <1>10, DataConcat
  <2> QED BY <1>6, <1>7, <1>10, <2>1 DEF InTransitIsSent
<1>13. TypeOK'
  <2>1. /\ outU' \in Seq(Datagrams) /\ counter' \in 0 .. (ThrottleScale - 1)
        /\ acks' \in Nat /\ earliest' \in Nat
    BY <1>2, <1>5, SentTypes
  <2>2. inTransit' \in Nat
    <3>1. DataOf(g) \in Nat
      BY <1>3, GoneInWindow
    <3> QED BY <1>6, <1>7, <1>10, <3>1
  <2>3. at' \in {"app", "send", "flush"} /\ window' \in Windows
    <3>1. window' \in Windows
      BY <1>5, <1>11 DEF Datagram, TypeOK
    <3>2. at' \in {"app", "send", "flush"}
      BY <1>5, Zenon DEF Datagram
    <3> QED BY <3>1, <3>2
  <2>4. polled' \in BOOLEAN /\ stale' \in BOOLEAN
    BY <1>5 DEF Datagram
  <2>5. state' \in {"CONNECTING", "CONNECTED", "DELAYING_DISCONNECT", "DISCONNECTING", "GONE", "CLOSED"}
    BY <1>7, <1>11 DEF TypeOK
  <2>6. now' \in Nat /\ answer' \in Nat
    BY <1>7, <1>11 DEF TypeOK
  <2> QED BY <1>8, <2>1, <2>2, <2>3, <2>4, <2>5, <2>6 DEF TypeOK
<1>14. DelayedCloseIsDue'
  <2> SUFFICES ASSUME state' = "DELAYING_DISCONNECT" PROVE ~Drained(outR', sentR', outU')
    BY DEF DelayedCloseIsDue, Drained
  <2>1. ~d.closes /\ state = "DELAYING_DISCONNECT"
    BY <1>7
  <2>2. CASE outU # <<>>
    <3>1. outU # <<>> /\ state = "DELAYING_DISCONNECT" /\ ~d.closes =>
             ~Drained(d.left, d.sent, d.rest)
      BY <1>2, <1>7, LeftIs
    <3> QED BY <1>7, <2>1, <2>2, <3>1
  <2>3. CASE outU = <<>>
    <3>1. outR # <<>> \/ sentR # <<>>
      BY <1>11, <2>1, <2>3 DEF DelayedCloseIsDue, Drained
    <3>2. \E m \in Outgoing : \/ \E i \in DOMAIN sentR : sentR[i] = m
                              \/ \E i \in DOMAIN outR : outR[i] = m
      <4>1. outR \in Seq(Outgoing) /\ sentR \in Seq(Outgoing)
        BY <1>11 DEF TypeOK
      <4>2. CASE outR # <<>>
        <5>1. 1 \in DOMAIN outR /\ outR[1] \in Outgoing
          BY <4>1, <4>2
        <5> QED BY <5>1
      <4>3. CASE sentR # <<>>
        <5>1. 1 \in DOMAIN sentR /\ sentR[1] \in Outgoing
          BY <4>1, <4>3
        <5> QED BY <5>1
      <4> QED BY <3>1, <4>2, <4>3
    <3>3. PICK m \in Outgoing : \/ \E i \in DOMAIN sentR : sentR[i] = m
                                \/ \E i \in DOMAIN outR : outR[i] = m
      BY <3>2
    <3>4. \/ \E i \in DOMAIN sentR' : sentR'[i].id = m.id
          \/ \E i \in DOMAIN outR' : outR'[i].id = m.id
      BY <1>2, <1>5, <3>3, PendingStays
    <3>5. sentR' # <<>> \/ outR' # <<>>
      BY <1>8, <3>4
    <3> QED BY <3>5 DEF Drained
  <2> QED BY <2>2, <2>3
<1>15. EarliestIsMeant'
  <2> SUFFICES ASSUME EarliestNow # 0, ~stale'
               PROVE  Awaited(sentR', EarliestNow, first') \/ Awaited(outR', EarliestNow, first')
    BY <1>7 DEF EarliestIsMeant
  <2>1. ~stale /\ \A m \in Range(ExpiredNow) : m.type # "CONNECT"
    BY <1>5 DEF Datagram
  <2>2. PICK m \in Outgoing :
          /\ \/ \E i \in DOMAIN sentR : sentR[i] = m
             \/ \E i \in DOMAIN outR : outR[i] = m
          /\ first[m.id] # 0 /\ first[m.id] <= EarliestNow /\ m.id # 1
    BY <1>5, <2>1, EarliestSent
  <2>3. /\ \/ \E i \in DOMAIN sentR' : sentR'[i].id = m.id
           \/ \E i \in DOMAIN outR' : outR'[i].id = m.id
        /\ first[m.id] # 0 => first'[m.id] = first[m.id]
    BY <1>2, <1>5, <2>2, PendingStays
  <2>4. first'[m.id] # 0 /\ first'[m.id] <= EarliestNow
    BY <2>2, <2>3
  <2> QED BY <2>2, <2>3, <2>4 DEF Awaited
<1>16. PassIsFresh'
  <2> SUFFICES ASSUME at' = "send", NEW i \in DOMAIN sentR'
               PROVE  ~(now - sentR'[i].sentTime >= sentR'[i].rto)
    BY <1>7 DEF PassIsFresh, Expired
  <2>0. at # "flush"
    BY <1>5 DEF Datagram
  <2>1. /\ Len(sentR') = Len(Held) + Len(g)
        /\ \A j \in 1 .. Len(sentR') :
              sentR'[j] = IF j <= Len(Held) THEN Held[j] ELSE g[j - Len(Held)]
    <3>1. PICK h : h = Held
      OBVIOUS
    <3>2. h \in Seq(Outgoing) /\ g \in Seq(Outgoing) /\ sentR' = h \o g
      BY <1>6, <1>7, <1>9, <1>10, <3>1
    <3>3. /\ Len(h \o g) = Len(h) + Len(g)
          /\ \A j \in 1 .. Len(h \o g) : (h \o g)[j] = IF j <= Len(h) THEN h[j] ELSE g[j - Len(h)]
      BY <3>2, ConcatProperties
    <3> QED BY <3>1, <3>2, <3>3
  <2>2. /\ Len(Held) \in Nat /\ Len(g) \in Nat /\ DOMAIN Held = 1 .. Len(Held)
        /\ DOMAIN sentR' = 1 .. Len(sentR')
    BY <1>8, <1>9, <1>10
  <2>3. CASE i <= Len(Held)
    <3>1. i \in DOMAIN Held /\ sentR'[i] = Held[i]
      BY <2>1, <2>2, <2>3
    <3> QED BY <1>10, <2>0, <3>1 DEF Expired
  <2>4. CASE ~(i <= Len(Held))
    <3>1. PICK j : j = i - Len(Held)
      OBVIOUS
    <3>2. j \in 1 .. Count /\ sentR'[i] = g[j]
      BY <1>9, <2>1, <2>2, <2>4, <3>1
    <3>3. g[j].sentTime = now /\ g[j].rto > 0 /\ g[j] \in Outgoing
      BY <1>9, <3>2
    <3>4. now \in Nat /\ g[j].rto \in Nat
      BY <1>11, <3>3, Fields DEF TypeOK
    <3> QED BY <3>2, <3>3, <3>4
  <2> QED BY <2>3, <2>4
<1> QED BY <1>8, <1>12, <1>13, <1>14, <1>15, <1>16 DEF TransmissionInv

\* Giving up keeps it.
LEMMA GiveUpKeeps == TransmissionInv /\ GiveUp => TransmissionInv'
<1> SUFFICES ASSUME TransmissionInv, GiveUp PROVE TransmissionInv'
  OBVIOUS
<1>1. /\ state' = "GONE" /\ earliest' = EarliestNow /\ at' = "app" /\ polled' = TRUE
      /\ UNCHANGED <<now, outR, sentR, outU, inTransit, window, counter, acks, seq, first, answer, stale>>
  BY DEF GiveUp
<1>2. TypeOK /\ InTransitIsSent /\ QueuesSound /\ FirstSound
  BY DEF TransmissionInv
<1>3. EarliestNow \in Nat
  <2>1. CASE ExpiredNow # <<>>
    <3>1. ExpiredNow \in Seq(Outgoing)
      BY ExpiredIs
    <3>2. Head(ExpiredNow).sentTime \in Nat
      BY <2>1, <3>1, Fields
    <3> QED BY <1>2, <3>2 DEF EarliestNow, TypeOK
  <2>2. CASE ExpiredNow = <<>>
    BY <1>2, <2>2 DEF EarliestNow, TypeOK
  <2> QED BY <2>1, <2>2
<1>4. polled' \in BOOLEAN
  BY <1>1
<1>5. TypeOK'
  BY <1>1, <1>2, <1>3, <1>4 DEF TypeOK
<1>6. InTransitIsSent' /\ QueuesSound' /\ FirstSound'
  BY <1>1, <1>2 DEF InTransitIsSent, QueuesSound, FirstSound
<1>7. DelayedCloseIsDue' /\ EarliestIsMeant' /\ PassIsFresh'
  BY <1>1 DEF DelayedCloseIsDue, EarliestIsMeant, PassIsFresh
<1> QED BY <1>5, <1>6, <1>7 DEF TransmissionInv

\* Every step keeps the invariant.
LEMMA StepKeeps == TransmissionInv /\ [Next]_vars => TransmissionInv'
<1> SUFFICES ASSUME TransmissionInv, [Next]_vars PROVE TransmissionInv'
  OBVIOUS
<1>1. CASE SendReliable
  BY <1>1, SendReliableKeeps
<1>2. CASE SendUnreliable
  BY <1>2, SendUnreliableKeeps
<1>3. CASE Control
  BY <1>3, ControlKeeps
<1>4. CASE CloseLater
  BY <1>4, CloseLaterKeeps
<1>5. CASE Send
  BY <1>5, SendKeeps
<1>6. CASE GiveUp
  BY <1>6, GiveUpKeeps
<1>7. CASE OweAck
  BY <1>7, OweAckKeeps
<1>8. CASE Validate
  BY <1>8, ValidateKeeps
<1>9. CASE Tick
  BY <1>9, TickKeeps
<1>10. ASSUME NEW i \in Ids, Acknowledge(i) PROVE TransmissionInv'
  BY <1>10, AcknowledgeKeeps
<1>11. CASE Flush
  BY <1>11, FlushKeeps
<1>12. CASE ConfigureBandwidth
  BY <1>12, ConfigureBandwidthKeeps
<1>13. CASE UNCHANGED vars
  BY <1>13 DEF vars, TransmissionInv, TypeOK, InTransitIsSent, DelayedCloseIsDue, Drained, QueuesSound,
               FirstSound, EarliestIsMeant, PassIsFresh, Expired
<1> QED BY <1>1, <1>2, <1>3, <1>4, <1>5, <1>6, <1>7, <1>8, <1>9, <1>10, <1>11, <1>12, <1>13 DEF Next

\* The inductive invariant holds in every state that can be reached.
THEOREM TransmissionInvHolds == Spec => []TransmissionInv
<1>1. Init => TransmissionInv
  BY InitKeeps
<1>2. TransmissionInv /\ [Next]_vars => TransmissionInv'
  BY StepKeeps
<1> QED BY <1>1, <1>2, PTL DEF Spec

\* The variables have their types, and no counter of data goes below zero: what is taken from
\* reliableDataInTransit for a time-out or an acknowledgement had been added to it.
THEOREM TypesHold == Spec => []TypeOK
<1>1. TransmissionInv => TypeOK
  BY DEF TransmissionInv
<1> QED BY <1>1, TransmissionInvHolds, PTL

\* reliableDataInTransit is the data of the messages in flight, for every sequence of
\* datagrams, time-outs, flushes and acknowledgements.
THEOREM TransitIsSent == Spec => []InTransitIsSent
<1>1. TransmissionInv => InTransitIsSent
  BY DEF TransmissionInv
<1> QED BY <1>1, TransmissionInvHolds, PTL

\* A message that is among the sent ones after a step and was not before left with a datagram.
LEMMA OnlySendAdds ==
    ASSUME TransmissionInv, Next, NEW m \in Range(sentR'), m \notin Range(sentR)
    PROVE  Send
<1>1. sentR \in Seq(Outgoing)
  BY InvFacts
<1>2. ASSUME UNCHANGED sentR PROVE FALSE
  BY <1>2
<1>3. ASSUME NEW i, sentR' = Disposed(i).sent PROVE FALSE
  <2>1. PICK k \in DOMAIN sentR' : m = sentR'[k]
    BY DEF Range
  <2>2. PICK P \in SUBSET DOMAIN sentR : sentR' = Those(sentR, P)
    <3>1. Disposed(i).sent = Those(sentR, DOMAIN sentR \ {j \in DOMAIN sentR : sentR[j].id = i})
      BY DEF Disposed
    <3> QED BY <1>3, <3>1
  <2>3. \E j \in P : Those(sentR, P)[k] = sentR[j]
    BY <1>1, <2>1, <2>2, ThoseFacts
  <2> QED BY <2>1, <2>2, <2>3 DEF Range
<1>4. CASE SendReliable \/ SendUnreliable \/ Control \/ CloseLater
  BY <1>2, <1>4 DEF SendReliable, SendUnreliable, Control, CloseLater
<1>5. CASE GiveUp \/ Flush \/ OweAck \/ ConfigureBandwidth \/ Tick
  BY <1>2, <1>5 DEF GiveUp, Flush, OweAck, ConfigureBandwidth, Tick
<1>6. CASE Validate
  <2>1. sentR' = Disposed(1).sent
    BY <1>6 DEF Validate
  <2> QED BY <1>3, <2>1
<1>7. ASSUME NEW i \in Ids, Acknowledge(i) PROVE FALSE
  <2>1. sentR' = Disposed(i).sent
    BY <1>7 DEF Acknowledge
  <2> QED BY <1>3, <2>1
<1> QED BY <1>4, <1>5, <1>6, <1>7 DEF Next

\* A datagram with reliable data keeps to the window of the moment, however often the peer set
\* it anew, whatever was in transit then, and for messages that are resent as for new ones.
THEOREM WindowKept == Spec => WindowIsKept
<1>1. ASSUME TransmissionInv, [Next]_vars
      PROVE  [(\E m \in Range(sentR') \ Range(sentR) : m.data # 0) => inTransit' <= window]_vars
  <2> SUFFICES ASSUME Next, NEW m \in Range(sentR') \ Range(sentR), m.data # 0
               PROVE  inTransit' <= window
    BY <1>1
  <2>1. Send
    BY <1>1, OnlySendAdds
  <2>2. PICK throttle \in Throttles, rto \in Rtos, quiet \in BOOLEAN :
           Datagram(Filled(throttle, rto, quiet))
    BY <2>1 DEF Send
  <2>3. PICK d : d = Filled(throttle, rto, quiet)
    OBVIOUS
  <2>4. PICK g : g = Gone(rto)
    OBVIOUS
  <2>5. PICK h : h = Held
    OBVIOUS
  <2>6. sentR' = h \o g /\ inTransit' = Free + DataOf(g)
    <3>1. d.sent = Held \o Gone(rto) /\ d.transit = Free + DataOf(Gone(rto))
      BY <2>3, FilledIs
    <3> QED BY <2>2, <2>3, <2>4, <2>5, <3>1 DEF Datagram
  <2>7. /\ h \in Seq(Outgoing) /\ g \in Seq(Outgoing)
        /\ \A j \in DOMAIN h : \E i \in DOMAIN sentR : sentR[i] = h[j]
    BY <1>1, <2>4, <2>5, ExpiredIs, GoneIs
  <2>8. PICK k \in DOMAIN sentR' : m = sentR'[k]
    BY DEF Range
  <2>9. \/ k \in DOMAIN h /\ m = h[k]
        \/ k - Len(h) \in DOMAIN g /\ m = g[k - Len(h)]
    BY <2>6, <2>7, <2>8
  <2>10. \E i \in DOMAIN g : g[i].data # 0
    <3>1. CASE k \in DOMAIN h /\ m = h[k]
      BY <2>7, <3>1 DEF Range
    <3> QED BY <2>9, <3>1
  <2> QED BY <1>1, <2>4, <2>6, <2>10, GoneInWindow
<1> QED BY <1>1, TransmissionInvHolds, PTL DEF Spec, WindowIsKept

\* A close that waits has something to wait for.
THEOREM CloseIsDue == Spec => []DelayedCloseIsDue
<1>1. TransmissionInv => DelayedCloseIsDue
  BY DEF TransmissionInv
<1> QED BY <1>1, TransmissionInvHolds, PTL

\* The messages that are pending are the sent ones, then the queued ones.
LEMMA PendingIs ==
    ASSUME sentR \in Seq(Outgoing), outR \in Seq(Outgoing), NEW p, p = Pending
    PROVE  /\ p \in Seq(Outgoing) /\ DOMAIN p = 1 .. (Len(sentR) + Len(outR))
           /\ Len(sentR) \in Nat /\ Len(outR) \in Nat
           /\ \A i \in DOMAIN sentR : i \in DOMAIN p /\ p[i] = sentR[i]
           /\ \A i \in DOMAIN outR : Len(sentR) + i \in DOMAIN p /\ p[Len(sentR) + i] = outR[i]
           /\ \A i \in DOMAIN p : \/ i \in DOMAIN sentR /\ p[i] = sentR[i]
                                  \/ /\ i - Len(sentR) \in DOMAIN outR /\ i > Len(sentR)
                                     /\ p[i] = outR[i - Len(sentR)]
BY SMTT(30) DEF Pending

\* Every message is queued once, and messages leave in the order of their numbers.
THEOREM MessagesLeaveInOrder == Spec => []LeavesInOrder
<1>1. ASSUME TransmissionInv PROVE LeavesInOrder
  <2>1. /\ sentR \in Seq(Outgoing) /\ outR \in Seq(Outgoing)
        /\ Distinct(sentR) /\ Distinct(outR) /\ Apart(sentR, outR) /\ InOrder(first, seq, now)
    BY <1>1, InvFacts
  <2>2. PICK p : p = Pending
    OBVIOUS
  <2>3. \A i \in DOMAIN p : \/ i \in DOMAIN sentR /\ p[i] = sentR[i]
                            \/ /\ i - Len(sentR) \in DOMAIN outR /\ i > Len(sentR)
                               /\ p[i] = outR[i - Len(sentR)]
    BY <2>1, <2>2, PendingIs
  <2>4. DOMAIN p \subseteq Int /\ Len(sentR) \in Nat
    BY <2>1, <2>2, PendingIs
  <2>5. ASSUME NEW i \in DOMAIN p, NEW j \in DOMAIN p, p[i].id = p[j].id PROVE i = j
    <3>1. CASE i \in DOMAIN sentR /\ p[i] = sentR[i]
      <4>1. CASE j \in DOMAIN sentR /\ p[j] = sentR[j]
        BY <2>1, <2>5, <3>1, <4>1 DEF Distinct
      <4>2. CASE j - Len(sentR) \in DOMAIN outR /\ p[j] = outR[j - Len(sentR)]
        BY <2>1, <2>5, <3>1, <4>2 DEF Apart
      <4> QED BY <2>3, <4>1, <4>2
    <3>2. CASE i - Len(sentR) \in DOMAIN outR /\ p[i] = outR[i - Len(sentR)]
      <4>1. CASE j \in DOMAIN sentR /\ p[j] = sentR[j]
        BY <2>1, <2>5, <3>2, <4>1 DEF Apart
      <4>2. CASE j - Len(sentR) \in DOMAIN outR /\ p[j] = outR[j - Len(sentR)]
        <5>1. i - Len(sentR) = j - Len(sentR)
          BY <2>1, <2>5, <3>2, <4>2 DEF Distinct
        <5> QED BY <2>4, <5>1
      <4> QED BY <2>3, <4>1, <4>2
    <3> QED BY <2>3, <3>1, <3>2
  <2>6. IsInjective([i \in DOMAIN p |-> p[i].id])
    BY <2>5 DEF IsInjective
  <2>7. \A i, j \in Ids : i < j /\ first[j] # 0 => first[i] # 0 /\ first[i] <= first[j]
    BY <2>1 DEF InOrder
  <2> QED BY <2>2, <2>6, <2>7 DEF LeavesInOrder
<1> QED BY <1>1, TransmissionInvHolds, PTL

-----------------------------------------------------------------------------
(* The end of a pass.                                                      *)

\* The first message of a queue finds room in an empty datagram.
LEMMA FirstFits ==
    ASSUME NEW q \in Seq(Outgoing), q # <<>>, NEW top, AllFit(q, top), NEW transit,
           window \in Windows
    PROVE  /\ RoomForHeader(q, 1, 0, 0) /\ RoomForData(q, 1, 0)
           /\ transit = 0 => InWindow(q, 1, transit)
<1>1. 1 \in DOMAIN q /\ Len(q) \in Nat /\ Len(q) > 0
  OBVIOUS
<1>2. q[1].data \in Nat /\ q[1].data <= FragmentLength
  BY <1>1, Fields DEF AllFit
<1>3. FragmentLength = Mtu - 2 /\ Mtu \in Nat /\ Mtu > 2 /\ MaxPerDatagram >= 1 /\ Mtu <= window
      /\ window \in Nat /\ MaxPerDatagram \in Nat
  BY Constants DEF FragmentLength
<1>4. SizeOf(q[1]) - q[1].data \in 1 .. 2 /\ SizeOf(q[1]) \in Nat /\ SizeOf(q[1]) <= Mtu
  BY <1>2, <1>3, SMTT(30) DEF SizeOf
<1>5. Used(q, 0) = 0 /\ Used(q, 1) = SizeOf(q[1])
  <2>1. PICK f : f = [i \in DOMAIN q |-> SizeOf(q[i])]
    OBVIOUS
  <2>2. Sum(f, 0) = 0 /\ Sum(f, 0 + 1) = Sum(f, 0) + f[0 + 1]
    BY SumStep
  <2>3. f[1] = SizeOf(q[1])
    BY <1>1, <2>1
  <2>4. Used(q, 0) = Sum(f, 0) /\ Used(q, 1) = Sum(f, 1)
    BY <2>1 DEF Used
  <2> QED BY <1>4, <2>2, <2>3, <2>4
<1>6. Data(q, 1) = q[1].data
  <2>1. 0 \in 0 .. (Len(q) - 1)
    BY <1>1
  <2>2. Data(q, 0) = 0 /\ Data(q, 0 + 1) = Data(q, 0) + q[0 + 1].data
    BY <2>1, DataStep
  <2> QED BY <1>2, <2>2
<1>7. RoomForHeader(q, 1, 0, 0)
  <2>1. Used(q, 1 - 1) = 0
    BY <1>5
  <2>2. 0 + 1 <= MaxPerDatagram
    BY <1>3
  <2>3. 0 + 0 + SizeOf(q[1]) - q[1].data <= Mtu
    BY <1>2, <1>3, <1>4
  <2> QED BY <2>1, <2>2, <2>3 DEF RoomForHeader
<1>8. RoomForData(q, 1, 0)
  BY <1>3, <1>4, <1>5 DEF RoomForData
<1>9. transit = 0 => InWindow(q, 1, transit)
  BY <1>2, <1>3, <1>6 DEF InWindow
<1> QED BY <1>7, <1>8, <1>9

\* A datagram of a pass that goes on takes a message, or an acknowledgement.
LEMMA DatagramTakes ==
    ASSUME TransmissionInv, at # "app", NEW throttle, NEW rto \in Rtos, NEW quiet, NEW d,
           d = Filled(throttle, rto, quiet), Datagram(d), d.more
    PROVE  Backlog' < Backlog
<1>1. /\ outR \in Seq(Outgoing) /\ outU \in Seq(Datagrams) /\ acks \in Nat
      /\ counter \in 0 .. (ThrottleScale - 1)
  BY InvFacts
<1>2. Queued \in Seq(Outgoing) /\ AllFit(Queued, seq) /\ Len(Queued) = Len(outR)
  <2>1. ExpiredNow = <<>>
    <3>1. at = "flush" \/ \A i \in DOMAIN sentR : ~Expired(sentR[i])
      BY DEF TransmissionInv, PassIsFresh, TypeOK
    <3> QED BY <3>1, ExpiredIs
  <2>2. Len(Resent) = 0
    BY <2>1, ResentIs
  <2> QED BY <1>1, <2>2, QueuedIs
<1>3. Count \in 0 .. Len(Queued) /\ Len(Queued) \in Nat /\ Len(outU) \in Nat
  BY <1>1, <1>2, GoneIs
<1>4. /\ outU' \in Seq(Datagrams) /\ Len(outU') <= Len(outU) /\ Len(outU') \in Nat
      /\ Owed \in Nat /\ Owed <= acks /\ Used(Queued, Count) \in Nat
  BY SentTypes
<1>5. PICK u : u = Unreliable(Owed + Used(Queued, Count), Owed + Count, throttle)
  OBVIOUS
<1>6. /\ d.closes = (outU # <<>> /\ Closes(Stays(quiet), Held \o Gone(rto), u.rest))
      /\ d.left = (IF d.closes THEN Closing(seq + 1) ELSE Stays(quiet))
      /\ d.rest = u.rest /\ d.acks = (IF d.closes THEN 0 ELSE acks - Owed)
      /\ d.more = (CASE outU # <<>> -> u.rest # <<>>
                     [] outU = <<>> /\ Queued # <<>> ->
                          ReliableRemain(Queued, Owed, Owed, Free)
                     [] outU = <<>> /\ Queued = <<>> -> Owed < acks)
  <2>1. d.closes = (outU # <<>> /\ Closes(Stays(quiet), Held \o Gone(rto), u.rest))
    BY <1>5, FilledIs
  <2>2. d.left = (IF d.closes THEN Closing(seq + 1) ELSE Stays(quiet))
    BY <1>5, FilledIs
  <2>3. d.rest = u.rest /\ d.acks = (IF d.closes THEN 0 ELSE acks - Owed)
    BY <1>5, FilledIs
  <2>4. d.more = (CASE outU # <<>> -> u.rest # <<>>
                    [] outU = <<>> /\ Queued # <<>> ->
                         ReliableRemain(Queued, Owed, Owed, Free)
                    [] outU = <<>> /\ Queued = <<>> -> Owed < acks)
    BY <1>5, FilledIs
  <2> QED BY <2>1, <2>2, <2>3, <2>4
<1>7. outR' = d.left /\ outU' = d.rest /\ acks' = d.acks
  BY DEF Datagram
<1>8. ~d.closes
  <2> SUFFICES ASSUME d.closes PROVE FALSE
    OBVIOUS
  <2>1. outU # <<>> /\ u.rest = <<>>
    BY <1>6 DEF Closes, Drained
  <2> QED BY <1>6, <2>1
<1>9. outR' = Stays(quiet) /\ acks' = acks - Owed /\ outU' = u.rest
  BY <1>6, <1>7, <1>8
<1>10. Staying \in Seq(Outgoing) /\ Len(Staying) = Len(outR) - Count
  BY <1>2, <1>3, EndOf DEF Staying
<1>11. ~Starves(quiet) => Len(outR') = Len(outR) - Count
  BY <1>9, <1>10 DEF Stays
<1>12. Starves(quiet) => Len(outR') = Len(outR) - Count + 1
  <2> SUFFICES ASSUME Starves(quiet) PROVE Len(outR') = Len(outR) - Count + 1
    OBVIOUS
  <2>1. PICK m : m = New(seq + 1, "CONTROL", 0)
    OBVIOUS
  <2>2. outR' = Append(Staying, m)
    BY <1>9, <1>10, <2>1 DEF Stays
  <2>3. Len(Append(Staying, m)) = Len(Staying) + 1
    BY <1>10
  <2> QED BY <1>10, <2>2, <2>3
<1>13. Count < Len(Queued) => ~Leaves(Queued, Count + 1, Owed, Owed, Free)
  BY <1>2, LeavingIs DEF Count
<1>14. Queued # <<>> => /\ Len(Queued) > 0 /\ RoomForHeader(Queued, 1, 0, 0) /\ RoomForData(Queued, 1, 0)
                        /\ Free = 0 => InWindow(Queued, 1, Free)
  <2>1. Queued # <<>> => Len(Queued) > 0
    BY <1>2
  <2>2. window \in Windows
    BY InvFacts DEF TypeOK
  <2> QED BY <1>2, <2>1, <2>2, FirstFits
<1>15. CASE Starves(quiet)
  <2>1. Queued # <<>> /\ Count = 0 /\ Held = <<>>
    BY <1>15 DEF Starves
  <2>2. Free = 0
    <3>1. Free = DataOf(Held) /\ Held \in Seq(Outgoing)
      BY ExpiredIs
    <3>2. Len(Held) = 0
      BY <2>1
    <3> QED BY <3>1, <3>2, NoData
  <2>3. Owed # 0
    <3> SUFFICES ASSUME Owed = 0 PROVE FALSE
      OBVIOUS
    <3>1. Leaves(Queued, 1, 0, 0, Free)
      BY <1>14, <2>1, <2>2 DEF Leaves
    <3>2. ~Leaves(Queued, 0 + 1, 0, 0, Free)
      BY <1>13, <1>14, <2>1
    <3> QED BY <3>1, <3>2
  <2>4. Len(outR') = Len(outR) + 1
    BY <1>1, <1>12, <1>15, <2>1
  <2>5. Len(outR') + Len(outU') + 2 * acks' < Len(outR) + Len(outU) + 2 * acks
    <3>1. PICK a : a = Len(outR)
      OBVIOUS
    <3>2. PICK b : b = Len(outU)
      OBVIOUS
    <3>3. PICK c : c = Len(outU')
      OBVIOUS
    <3>4. a \in Nat /\ b \in Nat /\ c \in Nat /\ c <= b
      BY <1>1, <1>3, <1>4, <3>1, <3>2, <3>3
    <3>5. (a + 1) + c + 2 * (acks - Owed) < a + b + 2 * acks
      BY <1>1, <1>4, <2>3, <3>4
    <3> QED BY <1>9, <2>4, <3>1, <3>2, <3>3, <3>5
  <2> QED BY <2>5 DEF Backlog
<1>16. CASE ~Starves(quiet)
  <2>1. Len(outR') = Len(outR) - Count
    BY <1>11, <1>16
  <2>2. Count > 0 \/ Owed > 0 \/ Len(outU') < Len(outU)
    <3> SUFFICES ASSUME Count = 0, Owed = 0, ~(Len(outU') < Len(outU)) PROVE FALSE
      BY <1>3, <1>4
    <3>1. CASE outU # <<>>
      <4>1. Used(Queued, 0) = 0
        <5>1. PICK f : f = [i \in DOMAIN Queued |-> SizeOf(Queued[i])]
          OBVIOUS
        <5>2. Sum(f, 0) = 0
          BY SumStep
        <5> QED BY <5>1, <5>2 DEF Used
      <4>2. u = Unreliable(0, 0, throttle)
        <5>1. Owed + Used(Queued, Count) = 0 /\ Owed + Count = 0
          BY <4>1
        <5> QED BY <1>5, <5>1
      <4>3. Len(u.rest) < Len(outU)
        BY <1>1, <3>1, <4>2, UnreliableIs
      <4> QED BY <1>9, <4>3
    <3>2. CASE outU = <<>> /\ Queued # <<>>
      <4>1. ReliableRemain(Queued, 0, 0, Free)
        BY <1>6, <3>2
      <4>2. Leaving(Queued, 0, 0, Free) = 0
        BY DEF Count
      <4>3. ~RoomForHeader(Queued, 0 + 1, 0, 0) \/ InWindow(Queued, 0 + 1, Free)
        BY <4>1, <4>2 DEF ReliableRemain
      <4>4. ~Leaves(Queued, 0 + 1, 0, 0, Free)
        BY <1>13, <1>14, <3>2
      <4> QED BY <1>14, <3>2, <4>3, <4>4 DEF Leaves
    <3>3. CASE outU = <<>> /\ Queued = <<>>
      <4>1. 0 < acks
        BY <1>6, <3>3
      <4>2. Smaller(MaxPerDatagram, Mtu) > 0 /\ Smaller(MaxPerDatagram, Mtu) \in Nat
        BY Constants DEF Smaller
      <4>3. Owed > 0
        BY <1>1, <4>1, <4>2 DEF Owed, Smaller
      <4> QED BY <4>3
    <3> QED BY <3>1, <3>2, <3>3
  <2>3. Len(outR') + Len(outU') + 2 * acks' < Len(outR) + Len(outU) + 2 * acks
    <3>1. PICK a : a = Len(outR)
      OBVIOUS
    <3>2. PICK b : b = Len(outU)
      OBVIOUS
    <3>3. PICK c : c = Len(outU')
      OBVIOUS
    <3>4. a \in Nat /\ b \in Nat /\ c \in Nat /\ c <= b /\ Count \in Nat
      BY <1>1, <1>3, <1>4, <3>1, <3>2, <3>3
    <3>5. Count > 0 \/ Owed > 0 \/ c < b
      BY <2>2, <3>2, <3>3
    <3>6. (a - Count) + c + 2 * (acks - Owed) < a + b + 2 * acks
      BY <1>1, <1>4, <3>4, <3>5
    <3> QED BY <1>9, <2>1, <3>1, <3>2, <3>3, <3>6
  <2> QED BY <2>3 DEF Backlog
<1> QED BY <1>15, <1>16

\* A sending pass ends: each datagram that asks for another one left less to do.
THEOREM PassesEnd == Spec => PassEnds
<1>1. ASSUME TransmissionInv, [Next]_vars
      PROVE  [at # "app" /\ at' = at => Backlog' < Backlog]_vars
  <2> SUFFICES ASSUME Next, at # "app", at' = at PROVE Backlog' < Backlog
    BY <1>1
  <2>1. Send
    BY DEF Next, SendReliable, SendUnreliable, Control, CloseLater, GiveUp, Flush, OweAck, Validate,
           ConfigureBandwidth, Tick, Acknowledge
  <2>2. PICK throttle \in Throttles, rto \in Rtos, quiet \in BOOLEAN :
           Datagram(Filled(throttle, rto, quiet))
    BY <2>1 DEF Send
  <2>3. PICK d : d = Filled(throttle, rto, quiet)
    OBVIOUS
  <2>4. Datagram(d)
    BY <2>2, <2>3
  <2>5. d.more
    BY <2>4 DEF Datagram
  <2> QED BY <1>1, <2>3, <2>4, <2>5, DatagramTakes
<1> QED BY <1>1, TransmissionInvHolds, PTL DEF Spec, PassEnds

-----------------------------------------------------------------------------
(* Giving up.                                                              *)

\* Only giving up makes a peer gone.
LEMMA OnlyGivenUp ==
    ASSUME TypeOK, Next, state # "GONE", state' = "GONE"
    PROVE  GiveUp
<1>1. CASE Send
  <2>1. PICK throttle \in Throttles, rto \in Rtos, quiet \in BOOLEAN :
           Datagram(Filled(throttle, rto, quiet))
    BY <1>1 DEF Send
  <2>2. PICK d : d = Filled(throttle, rto, quiet)
    OBVIOUS
  <2>3. state' \in {"DISCONNECTING", state}
    BY <2>1, <2>2 DEF Datagram
  <2> QED BY <2>3
<1>2. CASE SendReliable \/ SendUnreliable \/ Control \/ Flush \/ OweAck \/ ConfigureBandwidth \/ Tick
  BY <1>2 DEF SendReliable, SendUnreliable, Control, Flush, OweAck, ConfigureBandwidth, Tick
<1>3. CASE CloseLater
  BY <1>3 DEF CloseLater
<1>4. CASE Validate
  BY <1>4 DEF Validate
<1>5. ASSUME NEW i \in Ids, Acknowledge(i) PROVE FALSE
  <2>1. state' \in {"DISCONNECTING", "CLOSED", state}
    BY <1>5 DEF Acknowledge
  <2> QED BY <2>1
<1> QED BY <1>1, <1>2, <1>3, <1>4, <1>5 DEF Next

\* A peer is given up only if a message has been without an answer for MinTimeout: what
\* earliestTimeout dates from is still pending, except after a CONNECT that expired.
THEOREM SilenceGivesUp == Spec => GivenUpForSilence
<1> DEFINE Unanswered ==
             \E i \in DOMAIN Pending :
                first[Pending[i].id] # 0 /\ now - first[Pending[i].id] >= MinTimeout
<1>1. ASSUME TransmissionInv, GiveUp, state # "GONE", ~stale PROVE Unanswered
  <2>1. PICK p : p = Pending
    OBVIOUS
  <2>2. /\ sentR \in Seq(Outgoing) /\ outR \in Seq(Outgoing) /\ now \in Nat /\ earliest \in Nat
        /\ first \in [Ids -> Nat]
    BY <1>1, InvFacts
  <2>3. /\ \A i \in DOMAIN sentR : i \in DOMAIN p /\ p[i] = sentR[i]
        /\ \A i \in DOMAIN outR : Len(sentR) + i \in DOMAIN p /\ p[Len(sentR) + i] = outR[i]
    BY <2>1, <2>2, PendingIs
  <2>4. ExpiredNow \in Seq(Outgoing) /\ AllLeft(ExpiredNow, first, now)
    BY <1>1, ExpiredIs
  <2>5. ExpiredNow # <<>> /\ EarliestNow \in Nat /\ now - EarliestNow >= MinTimeout
    <3>1. PICK i \in DOMAIN ExpiredNow :
             now - EarliestNow >= MaxTimeout \/ now - EarliestNow >= MinTimeout
      BY <1>1 DEF GiveUp, GivesUp
    <3>2. ExpiredNow # <<>>
      BY <2>4, <3>1
    <3>3. Head(ExpiredNow).sentTime \in Nat
      BY <2>4, <3>2, Fields
    <3>4. EarliestNow \in Nat
      BY <2>2, <3>3 DEF EarliestNow
    <3> QED BY <2>2, <3>1, <3>2, <3>4, TimesAssumption
  <2>6. \E m \in Outgoing : /\ \/ \E i \in DOMAIN sentR : sentR[i] = m
                               \/ \E i \in DOMAIN outR : outR[i] = m
                            /\ first[m.id] # 0 /\ first[m.id] <= EarliestNow
    <3>1. CASE earliest = 0
      <4>1. PICK m : m = ExpiredNow[1]
        OBVIOUS
      <4>2. 1 \in DOMAIN ExpiredNow /\ m \in Outgoing /\ Head(ExpiredNow) = m
        BY <2>4, <2>5, <4>1
      <4>3. first[m.id] # 0 /\ first[m.id] <= m.sentTime
        BY <2>4, <4>1, <4>2 DEF AllLeft
      <4>4. ExpiredAt \in SUBSET DOMAIN sentR
        BY DEF ExpiredAt
      <4>5. \E i \in ExpiredAt : ExpiredNow[1] = sentR[i]
        BY <2>2, <4>2, <4>4, ThoseFacts DEF ExpiredNow
      <4>6. EarliestNow = m.sentTime
        BY <2>5, <3>1, <4>2 DEF EarliestNow
      <4> QED BY <4>1, <4>2, <4>3, <4>4, <4>5, <4>6
    <3>2. CASE earliest # 0
      <4>1. EarliestNow = earliest
        BY <3>2 DEF EarliestNow
      <4>2. Awaited(sentR, earliest, first) \/ Awaited(outR, earliest, first)
        BY <1>1, <3>2 DEF TransmissionInv, EarliestIsMeant
      <4>3. \A i \in DOMAIN sentR : sentR[i] \in Outgoing
        BY <2>2
      <4>4. \A i \in DOMAIN outR : outR[i] \in Outgoing
        BY <2>2
      <4> QED BY <4>1, <4>2, <4>3, <4>4 DEF Awaited
    <3> QED BY <3>1, <3>2
  <2>7. PICK m \in Outgoing : /\ \/ \E i \in DOMAIN sentR : sentR[i] = m
                                 \/ \E i \in DOMAIN outR : outR[i] = m
                              /\ first[m.id] # 0 /\ first[m.id] <= EarliestNow
    BY <2>6
  <2>8. first[m.id] \in Nat
    BY <2>2, Fields
  <2>9. now - first[m.id] >= MinTimeout
    BY <2>2, <2>5, <2>7, <2>8, TimesAssumption
  <2>10. PICK i \in DOMAIN p : p[i] = m
    BY <2>3, <2>7
  <2>11. first[p[i].id] # 0 /\ now - first[p[i].id] >= MinTimeout
    BY <2>7, <2>9, <2>10
  <2> QED BY <2>1, <2>11
<1>2. ASSUME TransmissionInv, [Next]_vars
      PROVE  [state # "GONE" /\ state' = "GONE" => stale \/ Unanswered]_vars
  <2> SUFFICES ASSUME Next, state # "GONE", state' = "GONE", ~stale PROVE Unanswered
    BY <1>2
  <2>1. GiveUp
    BY <1>2, OnlyGivenUp DEF TransmissionInv
  <2> QED BY <1>1, <1>2, <2>1
<1> QED BY <1>2, TransmissionInvHolds, PTL DEF Spec, GivenUpForSilence

-----------------------------------------------------------------------------
(* More about sums, and about turns.                                       *)

\* A sum of integers is one.
LEMMA SumInteger ==
    ASSUME NEW f, NEW k \in Nat, \A i \in 1 .. k : f[i] \in Int
    PROVE  Sum(f, k) \in Int
<1> DEFINE T == {i \in Nat : i <= k => Sum(f, i) \in Int}
<1>1. 0 \in T
  BY SumStep
<1>2. ASSUME NEW i \in T PROVE i + 1 \in T
  <2> SUFFICES ASSUME i + 1 <= k PROVE Sum(f, i + 1) \in Int
    OBVIOUS
  <2>1. Sum(f, i) \in Int /\ i + 1 \in 1 .. k
    OBVIOUS
  <2>2. Sum(f, i + 1) = Sum(f, i) + f[i + 1]
    BY SumStep
  <2> QED BY <2>1, <2>2
<1> HIDE DEF T
<1>3. T = Nat
  BY <1>1, <1>2, SetInduction DEF T
<1> QED BY <1>3 DEF T

\* A sum of nothing.
LEMMA SumZero ==
    ASSUME NEW f, NEW k \in Nat, \A i \in 1 .. k : f[i] = 0
    PROVE  Sum(f, k) = 0
<1> DEFINE T == {i \in Nat : i <= k => Sum(f, i) = 0}
<1>1. 0 \in T
  BY SumStep
<1>2. ASSUME NEW i \in T PROVE i + 1 \in T
  <2> SUFFICES ASSUME i + 1 <= k PROVE Sum(f, i + 1) = 0
    OBVIOUS
  <2>1. Sum(f, i) = 0 /\ i + 1 \in 1 .. k
    OBVIOUS
  <2>2. Sum(f, i + 1) = Sum(f, i) + f[i + 1]
    BY SumStep
  <2> QED BY <2>1, <2>2
<1> HIDE DEF T
<1>3. T = Nat
  BY <1>1, <1>2, SetInduction DEF T
<1> QED BY <1>3 DEF T

\* Products with a sum of two numbers.
LEMMA Distributes ==
    \A a, x, y \in Int : a * (x + y) = a * x + a * y /\ a * x \in Int
OBVIOUS

\* If each number of one sum is bounded by those of two others, each with its weight, so
\* is the sum.
LEMMA SumWeighted ==
    ASSUME NEW f, NEW g, NEW h, NEW k \in Nat, NEW a \in Int, NEW b \in Int, NEW e \in Int,
           \A i \in 1 .. k : f[i] \in Int /\ g[i] \in Int /\ h[i] \in Int,
           \A i \in 1 .. k : a * f[i] <= b * g[i] + e * h[i]
    PROVE  a * Sum(f, k) <= b * Sum(g, k) + e * Sum(h, k)
<1> DEFINE T == {i \in Nat : i <= k => a * Sum(f, i) <= b * Sum(g, i) + e * Sum(h, i)}
<1>1. 0 \in T
  <2>1. Sum(f, 0) = 0 /\ Sum(g, 0) = 0 /\ Sum(h, 0) = 0
    BY SumStep
  <2>2. a * 0 <= b * 0 + e * 0
    OBVIOUS
  <2> QED BY <2>1, <2>2
<1>2. ASSUME NEW i \in T PROVE i + 1 \in T
  <2> SUFFICES ASSUME i + 1 <= k
               PROVE  a * Sum(f, i + 1) <= b * Sum(g, i + 1) + e * Sum(h, i + 1)
    OBVIOUS
  <2>0. i \in Nat /\ i + 1 \in 1 .. k
    OBVIOUS
  <2>1. a * Sum(f, i) <= b * Sum(g, i) + e * Sum(h, i)
    BY <2>0
  <2>2. /\ Sum(f, i + 1) = Sum(f, i) + f[i + 1]
        /\ Sum(g, i + 1) = Sum(g, i) + g[i + 1]
        /\ Sum(h, i + 1) = Sum(h, i) + h[i + 1]
    BY <2>0, SumStep
  <2>3. a * f[i + 1] <= b * g[i + 1] + e * h[i + 1]
    BY <2>0
  <2> HIDE DEF T
  <2>4. \A j \in 1 .. i : f[j] \in Int /\ g[j] \in Int /\ h[j] \in Int
    BY <2>0
  <2>5. PICK x \in Int, y \in Int, z \in Int :
          x = Sum(f, i) /\ y = Sum(g, i) /\ z = Sum(h, i)
    BY <2>0, <2>4, SumInteger
  <2>6. PICK u \in Int, v \in Int, w \in Int : u = f[i + 1] /\ v = g[i + 1] /\ w = h[i + 1]
    BY <2>0
  <2>7. a * x <= b * y + e * z /\ a * u <= b * v + e * w
    BY <2>1, <2>3, <2>5, <2>6
  <2>8. /\ a * (x + u) = a * x + a * u /\ b * (y + v) = b * y + b * v
        /\ e * (z + w) = e * z + e * w
        /\ {a * x, a * u, b * y, b * v, e * z, e * w} \subseteq Int
    BY Distributes
  <2>9. a * (x + u) <= b * (y + v) + e * (z + w)
    BY <2>7, <2>8
  <2> QED BY <2>2, <2>5, <2>6, <2>9
<1> HIDE DEF T
<1>3. T = Nat
  BY <1>1, <1>2, SetInduction DEF T
<1> QED BY <1>3 DEF T

\* If no number of one sum is greater than that of another, neither is the sum.
LEMMA SumBelow ==
    ASSUME NEW f, NEW g, NEW k \in Nat, \A i \in 1 .. k : f[i] \in Int /\ g[i] \in Int,
           \A i \in 1 .. k : f[i] <= g[i]
    PROVE  Sum(f, k) <= Sum(g, k)
<1>1. Sum(f, k) \in Int /\ Sum(g, k) \in Int
  BY SumInteger
<1>2. \A i \in 1 .. k : 1 * f[i] <= 1 * g[i] + 0 * g[i]
  OBVIOUS
<1>3. 1 * Sum(f, k) <= 1 * Sum(g, k) + 0 * Sum(g, k)
  <2>1. 1 \in Int /\ 0 \in Int
    OBVIOUS
  <2>2. \A i \in 1 .. k : f[i] \in Int /\ g[i] \in Int /\ g[i] \in Int
    OBVIOUS
  <2> QED BY <1>2, <2>1, <2>2, SumWeighted, Zenon
<1> QED BY <1>1, <1>3

\* When one number of a sum changes, the sum changes by as much.
LEMMA SumChange ==
    ASSUME NEW f, NEW g, NEW k \in Nat, \A i \in 1 .. k : f[i] \in Int /\ g[i] \in Int,
           NEW c \in 1 .. k, \A i \in 1 .. k : i # c => g[i] = f[i]
    PROVE  Sum(g, k) = Sum(f, k) + (g[c] - f[c])
<1> DEFINE T == {i \in Nat : i <= k =>
                   Sum(g, i) = Sum(f, i) + (IF c <= i THEN g[c] - f[c] ELSE 0)}
<1>1. 0 \in T
  <2>1. Sum(f, 0) = 0 /\ Sum(g, 0) = 0
    BY SumStep
  <2> QED BY <2>1
<1>2. ASSUME NEW i \in T PROVE i + 1 \in T
  <2> SUFFICES ASSUME i + 1 <= k
               PROVE  Sum(g, i + 1) = Sum(f, i + 1) + (IF c <= i + 1 THEN g[c] - f[c] ELSE 0)
    OBVIOUS
  <2>0. i \in Nat /\ i + 1 \in 1 .. k
    OBVIOUS
  <2>1. Sum(g, i) = Sum(f, i) + (IF c <= i THEN g[c] - f[c] ELSE 0)
    BY <2>0
  <2> HIDE DEF T
  <2>2. Sum(f, i + 1) = Sum(f, i) + f[i + 1] /\ Sum(g, i + 1) = Sum(g, i) + g[i + 1]
    BY <2>0, SumStep
  <2>3. \A j \in 1 .. i : f[j] \in Int /\ g[j] \in Int
    BY <2>0
  <2>4. PICK x \in Int, y \in Int : x = Sum(f, i) /\ y = Sum(g, i)
    BY <2>0, <2>3, SumInteger
  <2>5. f[i + 1] \in Int /\ g[i + 1] \in Int /\ f[c] \in Int /\ g[c] \in Int
    BY <2>0
  <2>6. CASE c = i + 1
    BY <2>0, <2>1, <2>2, <2>4, <2>5, <2>6
  <2>7. CASE c # i + 1
    <3>1. g[i + 1] = f[i + 1] /\ (c <= i <=> c <= i + 1)
      BY <2>0, <2>7
    <3> QED BY <2>1, <2>2, <2>4, <2>5, <3>1
  <2> QED BY <2>6, <2>7
<1> HIDE DEF T
<1>3. T = Nat
  BY <1>1, <1>2, SetInduction DEF T
<1> QED BY <1>3 DEF T

\* No number of a sum of natural numbers is greater than the sum.
LEMMA SumTerm ==
    ASSUME NEW f, NEW k \in Nat, \A i \in 1 .. k : f[i] \in Nat, NEW c \in 1 .. k
    PROVE  f[c] <= Sum(f, k)
<1> DEFINE g == [i \in 1 .. k |-> IF i = c THEN 0 ELSE f[i]]
<1>1. \A i \in 1 .. k : g[i] \in Nat /\ (i # c => g[i] = f[i])
  OBVIOUS
<1>2. g[c] = 0
  OBVIOUS
<1> HIDE DEF g
<1>3. Sum(g, k) = Sum(f, k) + (g[c] - f[c])
  <2>1. \A i \in 1 .. k : f[i] \in Int /\ g[i] \in Int
    BY <1>1
  <2> QED BY <1>1, <2>1, SumChange
<1>4. Sum(g, k) \in Nat /\ Sum(f, k) \in Nat
  BY <1>1, SumNatural
<1> QED BY <1>2, <1>3, <1>4

\* What is counted one by one is a cardinality.
LEMMA SumCounts ==
    ASSUME NEW k \in Nat, NEW S \in SUBSET (1 .. k)
    PROVE  Sum([i \in 1 .. k |-> IF i \in S THEN 1 ELSE 0], k) = Cardinality(S)
<1> DEFINE f == [i \in 1 .. k |-> IF i \in S THEN 1 ELSE 0]
           P(i) == S \cap (1 .. i)
           T == {i \in Nat : i <= k => Sum(f, i) = Cardinality(P(i))}
<1>1. 0 \in T
  <2>1. P(0) = {}
    OBVIOUS
  <2>2. Cardinality(P(0)) = 0
    BY <2>1, FS_EmptySet
  <2> HIDE DEF P, f
  <2>3. Sum(f, 0) = 0
    BY SumStep
  <2> QED BY <2>2, <2>3
<1>2. ASSUME NEW i \in T PROVE i + 1 \in T
  <2> SUFFICES ASSUME i + 1 <= k PROVE Sum(f, i + 1) = Cardinality(P(i + 1))
    OBVIOUS
  <2>0. i \in Nat /\ i + 1 \in 1 .. k
    OBVIOUS
  <2>1. Sum(f, i) = Cardinality(P(i))
    BY <2>0
  <2>2. f[i + 1] = IF i + 1 \in S THEN 1 ELSE 0
    BY <2>0
  <2>3. P(i + 1) = IF i + 1 \in S THEN P(i) \union {i + 1} ELSE P(i)
    BY <2>0
  <2>4. IsFiniteSet(P(i)) /\ i + 1 \notin P(i)
    <3>1. IsFiniteSet(1 .. i)
      BY <2>0, FS_Interval
    <3>2. P(i) \subseteq 1 .. i
      OBVIOUS
    <3>3. IsFiniteSet(P(i))
      BY <3>1, <3>2, FS_Subset
    <3> QED BY <2>0, <3>3
  <2> HIDE DEF P, f, T
  <2>5. Sum(f, i + 1) = Sum(f, i) + f[i + 1]
    BY <2>0, SumStep
  <2>6. Cardinality(P(i)) \in Nat /\ Cardinality(P(i) \union {i + 1}) = Cardinality(P(i)) + 1
    BY <2>4, FS_AddElement, FS_CardinalityType
  <2> QED BY <2>1, <2>2, <2>3, <2>5, <2>6
<1>3. P(k) = S
  OBVIOUS
<1> HIDE DEF T
<1>4. T = Nat
  BY <1>1, <1>2, SetInduction DEF T
<1> HIDE DEF f, P
<1>5. Sum(f, k) = Cardinality(P(k))
  BY <1>4 DEF T
<1> QED BY <1>3, <1>5 DEF f

\* The function that a loop of k turns defines: it begins with a, and g says what a turn does.
Looping(f, a, g, k) == f = [i \in 0 .. k |-> IF i = 0 THEN a ELSE g[<<f[i - 1], i>>]]

\* There is one, and its values are those that turns lead to.
LEMMA LoopDefined ==
    ASSUME NEW D, NEW a \in D, NEW g \in [D \X Nat -> D], NEW k \in Nat
    PROVE  \E f \in [0 .. k -> D] : Looping(f, a, g, k)
<1> DEFINE T == {m \in Nat : \E f \in [0 .. m -> D] : Looping(f, a, g, m)}
<1>1. 0 \in T
  <2> DEFINE f == [i \in 0 .. 0 |-> a]
  <2>1. Looping(f, a, g, 0)
    BY DEF Looping
  <2>2. f \in [0 .. 0 -> D]
    OBVIOUS
  <2> HIDE DEF f
  <2> QED BY <2>1, <2>2
<1>2. ASSUME NEW m \in T PROVE m + 1 \in T
  <2>1. PICK f \in [0 .. m -> D] : Looping(f, a, g, m)
    OBVIOUS
  <2> DEFINE h == [i \in 0 .. (m + 1) |-> IF i <= m THEN f[i] ELSE g[<<f[m], i>>]]
  <2>2. \A i \in 0 .. m : f[i] = IF i = 0 THEN a ELSE g[<<f[i - 1], i>>]
    BY <2>1 DEF Looping
  <2>3. \A i \in 0 .. (m + 1) : h[i] = IF i = 0 THEN a ELSE g[<<h[i - 1], i>>]
    <3> SUFFICES ASSUME NEW i \in 0 .. (m + 1)
                 PROVE  h[i] = IF i = 0 THEN a ELSE g[<<h[i - 1], i>>]
      OBVIOUS
    <3>1. CASE i <= m
      <4>1. h[i] = f[i] /\ (i # 0 => h[i - 1] = f[i - 1])
        BY <3>1
      <4>2. f[i] = IF i = 0 THEN a ELSE g[<<f[i - 1], i>>]
        BY <2>2, <3>1
      <4> QED BY <4>1, <4>2
    <3>2. CASE i = m + 1
      <4>1. h[i] = g[<<f[m], i>>] /\ h[i - 1] = f[m] /\ i # 0
        BY <3>2
      <4> QED BY <4>1
    <3> QED BY <3>1, <3>2
  <2>4. h \in [0 .. (m + 1) -> D]
    <3>1. \A i \in 0 .. (m + 1) : h[i] \in D
      <4> SUFFICES ASSUME NEW i \in 0 .. (m + 1) PROVE h[i] \in D
        OBVIOUS
      <4>1. f[m] \in D /\ (i <= m => f[i] \in D)
        OBVIOUS
      <4>2. g[<<f[m], i>>] \in D
        <5>1. <<f[m], i>> \in D \X Nat
          BY <4>1
        <5> QED BY <5>1
      <4> QED BY <4>1, <4>2
    <3> QED BY <3>1
  <2>5. h = [i \in 0 .. (m + 1) |-> h[i]]
    OBVIOUS
  <2> HIDE DEF h
  <2>6. Looping(h, a, g, m + 1)
    BY <2>3, <2>5, Zenon DEF Looping
  <2> QED BY <2>4, <2>6
<1> HIDE DEF T
<1>3. T = Nat
  BY <1>1, <1>2, SetInduction DEF T
<1> QED BY <1>3 DEF T

\* What holds at first, and is kept by each turn, holds at last.
LEMMA LoopKeeps ==
    ASSUME NEW D, NEW f, NEW k \in Nat, f[0] \in D, \A i \in 1 .. k : f[i - 1] \in D => f[i] \in D
    PROVE  f[k] \in D
<1> DEFINE T == {i \in Nat : i <= k => f[i] \in D}
<1>1. 0 \in T
  OBVIOUS
<1>2. ASSUME NEW i \in T PROVE i + 1 \in T
  <2> SUFFICES ASSUME i + 1 <= k PROVE f[i + 1] \in D
    OBVIOUS
  <2>1. i + 1 \in 1 .. k /\ (i + 1) - 1 = i /\ f[i] \in D
    OBVIOUS
  <2> QED BY <2>1
<1> HIDE DEF T
<1>3. T = Nat
  BY <1>1, <1>2, SetInduction DEF T
<1> QED BY <1>3 DEF T

-----------------------------------------------------------------------------
(* The pass over the clients: words and quotients.                         *)

\* The constants are positive numbers.
LEMMA BandConstants ==
    /\ ClientCount \in Nat \ {0} /\ BandWord \in Nat /\ BandWord >= 2
    /\ BandScale \in Nat \ {0} /\ BandScale < BandWord /\ Second \in Nat \ {0}
    /\ Slots = 1 .. ClientCount /\ BandDay \in Nat
BY CountAssumption, ClockAssumption, RateAssumption DEF Slots

\* A remainder is a word and not greater than the number; of a word it is the word.
LEMMA Worded ==
    \A x \in Nat : x % BandWord \in BandWords /\ x % BandWord <= x
                   /\ (x < BandWord => x % BandWord = x)
<1> SUFFICES ASSUME NEW x \in Nat
             PROVE  x % BandWord \in BandWords /\ x % BandWord <= x
                    /\ (x < BandWord => x % BandWord = x)
  OBVIOUS
<1> QED BY BandConstants DEF BandWords

\* A difference of words is a word; without a wrap it is the difference.
LEMMA MinusIs ==
    \A x, y \in BandWords : Minus(x, y) \in BandWords /\ (y <= x => Minus(x, y) = x - y)
<1> SUFFICES ASSUME NEW x \in BandWords, NEW y \in BandWords
             PROVE  Minus(x, y) \in BandWords /\ (y <= x => Minus(x, y) = x - y)
  OBVIOUS
<1>1. x \in Int /\ y \in Int /\ x < BandWord /\ 0 <= y
  BY BandConstants DEF BandWords
<1>2. (x - y) % BandWord \in BandWords
  BY <1>1, BandConstants DEF BandWords
<1>3. ASSUME y <= x PROVE (x - y) % BandWord = x - y
  <2>1. PICK d \in Nat : d = x - y /\ d < BandWord
    <3>1. x - y \in Nat /\ x - y < BandWord
      BY <1>1, <1>3, BandConstants
    <3> QED BY <3>1
  <2> QED BY <2>1, Worded
<1> QED BY <1>2, <1>3 DEF Minus

\* A quotient is the greatest number whose product is not greater.
LEMMA Quotient ==
    \A x \in Nat, b \in Nat \ {0} : /\ x \div b \in Nat /\ x \div b <= x
                                    /\ b * (x \div b) <= x /\ x < b * ((x \div b) + 1)
                                    /\ (b <= x => x \div b > 0)
<1> SUFFICES ASSUME NEW x \in Nat, NEW b \in Nat \ {0}
             PROVE  /\ x \div b \in Nat /\ x \div b <= x
                    /\ b * (x \div b) <= x /\ x < b * ((x \div b) + 1)
                    /\ (b <= x => x \div b > 0)
  OBVIOUS
<1> DEFINE q == x \div b
<1>1. q \in Int /\ b * q <= x /\ x < b * q + b
  OBVIOUS
<1> HIDE DEF q
<1>2. q \in Nat
  <2>1. ASSUME q <= -1 PROVE FALSE
    <3>1. b * q <= b * (-1)
      BY <1>1, <2>1
    <3> QED BY <1>1, <3>1
  <2> QED BY <1>1, <2>1
<1>3. q <= b * q
  BY <1>2
<1>4. b * (q + 1) = b * q + b
  BY <1>2
<1>5. ASSUME b <= x, q = 0 PROVE FALSE
  BY <1>1, <1>5
<1>6. b * q \in Nat
  BY <1>2
<1> QED BY <1>1, <1>2, <1>3, <1>4, <1>5, <1>6 DEF q

\* Products grow with their factors.
LEMMA ProductsGrow ==
    \A a \in Nat, x, y \in Int : x <= y => a * x <= a * y
<1> SUFFICES ASSUME NEW a \in Nat, NEW x \in Int, NEW y \in Int, x <= y PROVE a * x <= a * y
  OBVIOUS
<1>1. PICK d \in Nat : y = x + d
  <2>1. y - x \in Nat /\ y = x + (y - x)
    OBVIOUS
  <2> QED BY <2>1
<1>2. a * (x + d) = a * x + a * d /\ a * d \in Nat
  OBVIOUS
<1> QED BY <1>1, <1>2

\* Of two products with one factor, the smaller has the smaller other factor.
LEMMA FactorsGrow ==
    \A a \in Nat \ {0}, x, y \in Int : (a * x < a * y => x < y) /\ (a * x <= a * y => x <= y)
<1> SUFFICES ASSUME NEW a \in Nat \ {0}, NEW x \in Int, NEW y \in Int
             PROVE  (a * x < a * y => x < y) /\ (a * x <= a * y => x <= y)
  OBVIOUS
<1>1. ASSUME y <= x PROVE a * y <= a * x
  BY <1>1, ProductsGrow
<1>2. ASSUME y + 1 <= x PROVE a * y < a * x
  <2>1. a * (y + 1) <= a * x
    BY <1>2, ProductsGrow
  <2>2. a * (y + 1) = a * y + a
    OBVIOUS
  <2> QED BY <2>1, <2>2
<1>3. a * x \in Int /\ a * y \in Int
  OBVIOUS
<1> QED BY <1>1, <1>2, <1>3

\* The data of the clients, less the part of those with a limit of their own.
DataLeft(L) ==
    [c \in Slots |-> IF c \notin Up THEN 0
                     ELSE IF c \in L THEN client[c].data - ClientBandwidth ELSE client[c].data]

\* The parts of those with a limit of their own.
OwnParts(L) == [c \in Slots |-> IF c \in L THEN ClientBandwidth ELSE 0]

\* The data of the others.
Open(L) == [c \in Slots |-> IF c \in Up \ L THEN client[c].data ELSE 0]

Tally == [bw : BandWords, data : BandWords, throttle : 0 .. BandScale, adjust : BOOLEAN,
          limited : SUBSET Up, fault : BOOLEAN]

\* While nothing overflowed, the totals are what they stand for, and the throttle lets
\* through no more than the bandwidth that is left.
Exact(t) ==
    /\ ~t.fault
    /\ t.data = Sum(DataLeft(t.limited), ClientCount)
    /\ t.bw = Budget - Sum(OwnParts(t.limited), ClientCount)
    /\ t.throttle * Sum(Open(t.limited), ClientCount) <= BandScale * t.bw

Tallies ==
    {t \in Tally : /\ \A c \in t.limited : client[c].data > ClientBandwidth
                   /\ Due /\ ~Overflows => Exact(t)}

\* What a pass starts from has its types.
LEMMA PassTypes ==
    ASSUME BandTypeOK
    PROVE  /\ Elapsed \in BandWords /\ ClientBandwidth \in BandWords /\ Budget \in BandWords
           /\ DataSum \in Nat /\ DataTotal \in BandWords
           /\ \A c \in Slots : /\ client[c].data \in BandWords /\ client[c].outBw \in BandWords
                               /\ client[c].inBw \in BandWords
           /\ Up \subseteq Slots /\ BandWords \subseteq Nat
<1>1. \A c \in Slots : client[c] \in Client
  BY DEF BandTypeOK
<1>2. \A c \in Slots : /\ client[c].data \in BandWords /\ client[c].outBw \in BandWords
                       /\ client[c].inBw \in BandWords
  BY <1>1 DEF Client
<1>3. BandWords \subseteq Nat /\ Up \subseteq Slots
  BY DEF BandWords, Up
<1>4. Elapsed \in BandWords
  BY MinusIs DEF BandTypeOK, Elapsed
<1>5. \A x, y \in Nat : Times(x, y) \in BandWords /\ Times(x, y) \div Second \in BandWords
  <2> SUFFICES ASSUME NEW x \in Nat, NEW y \in Nat
               PROVE  Times(x, y) \in BandWords /\ Times(x, y) \div Second \in BandWords
    OBVIOUS
  <2>1. x * y \in Nat
    OBVIOUS
  <2>2. Times(x, y) \in BandWords
    BY <2>1, Worded DEF Times
  <2>3. PICK w \in Nat : w = Times(x, y) /\ w < BandWord
    BY <2>2, BandConstants DEF BandWords
  <2>4. w \div Second \in Nat /\ w \div Second <= w
    BY <2>3, Quotient, BandConstants
  <2>5. w \div Second \in BandWords
    BY <2>3, <2>4, BandConstants DEF BandWords
  <2> QED BY <2>2, <2>3, <2>5
<1>6. inBw \in Nat /\ outBw \in Nat /\ Elapsed \in Nat
  BY <1>3, <1>4 DEF BandTypeOK
<1>7. ClientBandwidth \in BandWords
  BY <1>5, <1>6 DEF ClientBandwidth
<1>8. Budget \in BandWords
  <2>1. BandWord - 1 \in BandWords
    BY BandConstants DEF BandWords
  <2> QED BY <1>5, <1>6, <2>1 DEF Budget
<1>9. DataSum \in Nat
  <2> DEFINE f == [c \in Slots |-> IF c \in Up THEN client[c].data ELSE 0]
  <2>1. \A c \in 1 .. ClientCount : f[c] \in Nat
    BY <1>2, <1>3, BandConstants
  <2> HIDE DEF f
  <2>2. Sum(f, ClientCount) \in Nat
    BY <2>1, SumNatural, BandConstants
  <2> QED BY <2>2 DEF DataSum, f
<1>10. DataTotal \in BandWords
  BY <1>9, Worded DEF DataTotal
<1> QED BY <1>2, <1>3, <1>4, <1>7, <1>8, <1>9, <1>10

\* The numbers that the sums of a pass are made of.
LEMMA Summands ==
    ASSUME BandTypeOK, NEW L \in SUBSET Up, \A c \in L : client[c].data > ClientBandwidth
    PROVE  \A c \in 1 .. ClientCount :
             /\ DataLeft(L)[c] \in Nat /\ OwnParts(L)[c] \in Nat /\ Open(L)[c] \in Nat
             /\ Open(L)[c] <= DataLeft(L)[c]
             /\ c \in L => DataLeft(L)[c] > 0
<1> SUFFICES ASSUME NEW c \in Slots
             PROVE  /\ DataLeft(L)[c] \in Nat /\ OwnParts(L)[c] \in Nat /\ Open(L)[c] \in Nat
                    /\ Open(L)[c] <= DataLeft(L)[c]
                    /\ c \in L => DataLeft(L)[c] > 0
  BY BandConstants
<1>1. PICK d \in Nat, b \in Nat : d = client[c].data /\ b = ClientBandwidth
  BY PassTypes
<1>2. c \in L => c \in Up /\ d > b
  BY <1>1
<1>3. /\ DataLeft(L)[c] = IF c \notin Up THEN 0 ELSE IF c \in L THEN d - b ELSE d
      /\ OwnParts(L)[c] = IF c \in L THEN b ELSE 0
      /\ Open(L)[c] = IF c \in Up \ L THEN d ELSE 0
  BY <1>1 DEF DataLeft, OwnParts, Open
<1> QED BY <1>2, <1>3

\* Their sums are natural numbers.
LEMMA SumsNatural ==
    ASSUME BandTypeOK, NEW L \in SUBSET Up, \A c \in L : client[c].data > ClientBandwidth
    PROVE  /\ Sum(DataLeft(L), ClientCount) \in Nat
           /\ Sum(OwnParts(L), ClientCount) \in Nat
           /\ Sum(Open(L), ClientCount) \in Nat
           /\ Sum(Open(L), ClientCount) <= Sum(DataLeft(L), ClientCount)
<1>1. ClientCount \in Nat
  BY BandConstants
<1>2. /\ \A c \in 1 .. ClientCount : DataLeft(L)[c] \in Nat
      /\ \A c \in 1 .. ClientCount : OwnParts(L)[c] \in Nat
      /\ \A c \in 1 .. ClientCount : Open(L)[c] \in Nat
      /\ \A c \in 1 .. ClientCount : Open(L)[c] <= DataLeft(L)[c]
  BY Summands
<1>3. \A c \in 1 .. ClientCount : Open(L)[c] \in Int /\ DataLeft(L)[c] \in Int
  BY <1>2
<1> QED BY <1>1, <1>2, <1>3, SumNatural, SumBelow

\* A pass without an overflow works on the sum of all data, and has something to give away.
LEMMA WithoutOverflow ==
    ASSUME BandTypeOK, ~Overflows
    PROVE  /\ DataSum < BandWord /\ DataTotal = DataSum
           /\ \A x \in Nat : x <= DataSum => BandScale * x < BandWord
           /\ \A c \in Up : client[c].data <= DataSum
           /\ Due => Budget > 0
<1>1. PICK D \in Nat : D = DataSum
  BY PassTypes
<1>2. ~(D * BandScale >= BandWord)
  BY <1>1 DEF Overflows
<1>3. \A x \in Nat : x <= D => BandScale * x < BandWord
  <2> SUFFICES ASSUME NEW x \in Nat, x <= D PROVE BandScale * x < BandWord
    OBVIOUS
  <2>1. BandScale * x <= BandScale * D /\ BandScale * D = D * BandScale
    BY ProductsGrow, BandConstants
  <2>2. BandScale * x \in Nat /\ D * BandScale \in Nat /\ BandWord \in Nat
    BY BandConstants
  <2> QED BY <1>2, <2>1, <2>2
<1>4. D < BandWord
  <2>1. D <= BandScale * D /\ BandScale * D < BandWord
    BY <1>3, BandConstants
  <2>2. BandScale * D \in Nat
    BY BandConstants
  <2> QED BY <2>1, <2>2, BandConstants
<1>5. DataTotal = D
  BY <1>1, <1>4, Worded DEF DataTotal
<1>6. ASSUME NEW c \in Up PROVE client[c].data <= D
  <2> DEFINE f == [i \in Slots |-> IF i \in Up THEN client[i].data ELSE 0]
  <2>1. \A i \in 1 .. ClientCount : f[i] \in Nat
    BY PassTypes, BandConstants
  <2>2. c \in 1 .. ClientCount /\ f[c] = client[c].data
    BY PassTypes, BandConstants
  <2> HIDE DEF f
  <2>3. f[c] <= Sum(f, ClientCount)
    BY <2>1, <2>2, SumTerm, BandConstants
  <2>4. Sum(f, ClientCount) = D
    BY <1>1 DEF DataSum, f
  <2> QED BY <2>2, <2>3, <2>4
<1>7. ASSUME Due PROVE Budget > 0
  <2>1. CASE outBw = 0
    BY <2>1, BandConstants DEF Budget
  <2>2. CASE outBw # 0
    <3>1. PICK e \in Nat, o \in Nat \ {0} : e = Elapsed /\ o = outBw
      BY <2>2, PassTypes DEF BandTypeOK
    <3>2. e >= Second /\ o * e < BandWord
      <4>1. o * e \in Nat
        OBVIOUS
      <4>2. ~(o * e >= BandWord)
        BY <3>1 DEF Overflows
      <4> QED BY <1>7, <3>1, <4>1, <4>2, BandConstants DEF Due
    <3>3. o * e \in Nat /\ e <= o * e
      OBVIOUS
    <3>4. Times(o, e) = o * e
      BY <3>2, <3>3, Worded DEF Times
    <3>5. (o * e) \div Second > 0
      <4>1. Second <= o * e
        BY <3>2, <3>3, BandConstants
      <4> QED BY <3>3, <4>1, Quotient, BandConstants
    <3> QED BY <2>2, <3>1, <3>4, <3>5 DEF Budget
  <2> QED BY <2>1, <2>2
<1> QED BY <1>1, <1>3, <1>4, <1>5, <1>6, <1>7

\* The part of a client that exceeds is smaller than its data, and what the throttle lets
\* through of them.
LEMMA ExceedsBy ==
    ASSUME BandTypeOK, NEW t \in Tally, NEW c \in Slots, Exceeds(t, c)
    PROVE  /\ c \in Up \ t.limited /\ client[c].data > ClientBandwidth
           /\ BandScale * ClientBandwidth < t.throttle * client[c].data
<1>1. PICK d \in Nat, b \in Nat, h \in Nat :
        d = client[c].data /\ b = ClientBandwidth /\ h = t.throttle /\ h <= BandScale
  <2>1. t.throttle \in 0 .. BandScale
    BY DEF Tally
  <2> QED BY <2>1, PassTypes, BandConstants
<1>2. c \in Up \ t.limited /\ Times(h, d) \div BandScale > b
  BY <1>1 DEF Exceeds
<1>3. h * d \in Nat
  BY <1>1
<1>4. PICK x \in Nat : x = Times(h, d) /\ x <= h * d
  <2>1. (h * d) % BandWord \in BandWords /\ (h * d) % BandWord <= h * d
    BY <1>3, Worded
  <2> QED BY <2>1, PassTypes DEF Times
<1>5. PICK q \in Nat : q = x \div BandScale /\ BandScale * q <= x /\ q > b
  BY <1>2, <1>4, Quotient, BandConstants
<1>6. BandScale * b < BandScale * q
  <2>1. BandScale * (b + 1) <= BandScale * q
    BY <1>5, ProductsGrow, BandConstants
  <2>2. BandScale * (b + 1) = BandScale * b + BandScale /\ BandScale * b \in Nat
    BY BandConstants
  <2>3. BandScale * q \in Nat
    BY BandConstants
  <2> QED BY <2>1, <2>2, <2>3, BandConstants
<1>7. BandScale * b < h * d
  <2>1. BandScale * q \in Nat /\ BandScale * b \in Nat
    BY BandConstants
  <2> QED BY <1>3, <1>4, <1>5, <1>6, <2>1
<1>8. b < d
  <2>1. d * h <= d * BandScale
    BY <1>1, ProductsGrow, BandConstants
  <2>2. d * h = h * d /\ d * BandScale = BandScale * d
    BY <1>1, BandConstants
  <2>3. BandScale * b \in Nat /\ BandScale * d \in Nat
    BY BandConstants
  <2>4. BandScale * b < BandScale * d
    BY <1>3, <1>7, <2>1, <2>2, <2>3
  <2> QED BY <2>4, FactorsGrow, BandConstants
<1> QED BY <1>1, <1>2, <1>7, <1>8

\* What changes in the sums when c gets a limit of its own.
LEMMA OneMoreLimited ==
    ASSUME BandTypeOK, NEW L \in SUBSET Up, \A i \in L : client[i].data > ClientBandwidth,
           NEW c \in Up \ L, client[c].data > ClientBandwidth
    PROVE  /\ Sum(DataLeft(L \union {c}), ClientCount) = Sum(DataLeft(L), ClientCount) - ClientBandwidth
           /\ Sum(OwnParts(L \union {c}), ClientCount) = Sum(OwnParts(L), ClientCount) + ClientBandwidth
           /\ Sum(Open(L \union {c}), ClientCount) = Sum(Open(L), ClientCount) - client[c].data
           /\ client[c].data <= Sum(DataLeft(L), ClientCount)
           /\ client[c].data <= Sum(Open(L), ClientCount)
<1> DEFINE K == L \union {c}
<1>1. K \in SUBSET Up /\ \A i \in K : client[i].data > ClientBandwidth
  OBVIOUS
<1>2. c \in 1 .. ClientCount /\ c \in Slots /\ ClientCount \in Nat
  BY PassTypes, BandConstants
<1>3. PICK d \in Nat, b \in Nat : d = client[c].data /\ b = ClientBandwidth
  BY <1>2, PassTypes
<1>4. /\ \A i \in 1 .. ClientCount : DataLeft(L)[i] \in Nat /\ DataLeft(K)[i] \in Nat
      /\ \A i \in 1 .. ClientCount : OwnParts(L)[i] \in Nat /\ OwnParts(K)[i] \in Nat
      /\ \A i \in 1 .. ClientCount : Open(L)[i] \in Nat /\ Open(K)[i] \in Nat
  <2> HIDE DEF K
  <2> QED BY <1>1, Summands
<1>5. /\ DataLeft(L)[c] = d /\ DataLeft(K)[c] = d - b
      /\ OwnParts(L)[c] = 0 /\ OwnParts(K)[c] = b
      /\ Open(L)[c] = d /\ Open(K)[c] = 0
  BY <1>2, <1>3 DEF DataLeft, OwnParts, Open
<1>6. \A i \in 1 .. ClientCount : i # c =>
        DataLeft(K)[i] = DataLeft(L)[i] /\ OwnParts(K)[i] = OwnParts(L)[i] /\ Open(K)[i] = Open(L)[i]
  <2> SUFFICES ASSUME NEW i \in Slots, i # c
               PROVE  /\ DataLeft(K)[i] = DataLeft(L)[i] /\ OwnParts(K)[i] = OwnParts(L)[i]
                      /\ Open(K)[i] = Open(L)[i]
    BY BandConstants
  <2>1. i \in K <=> i \in L
    OBVIOUS
  <2> HIDE DEF K
  <2> QED BY <2>1 DEF DataLeft, OwnParts, Open
<1> HIDE DEF K
<1>7. Sum(DataLeft(K), ClientCount) = Sum(DataLeft(L), ClientCount) + ((d - b) - d)
  <2>1. \A i \in 1 .. ClientCount : DataLeft(L)[i] \in Int /\ DataLeft(K)[i] \in Int
    BY <1>4
  <2>2. \A i \in 1 .. ClientCount : i # c => DataLeft(K)[i] = DataLeft(L)[i]
    BY <1>6
  <2> QED BY <1>2, <1>5, <2>1, <2>2, SumChange
<1>8. Sum(OwnParts(K), ClientCount) = Sum(OwnParts(L), ClientCount) + (b - 0)
  <2>1. \A i \in 1 .. ClientCount : OwnParts(L)[i] \in Int /\ OwnParts(K)[i] \in Int
    BY <1>4
  <2>2. \A i \in 1 .. ClientCount : i # c => OwnParts(K)[i] = OwnParts(L)[i]
    BY <1>6
  <2> QED BY <1>2, <1>5, <2>1, <2>2, SumChange
<1>9. Sum(Open(K), ClientCount) = Sum(Open(L), ClientCount) + (0 - d)
  <2>1. \A i \in 1 .. ClientCount : Open(L)[i] \in Int /\ Open(K)[i] \in Int
    BY <1>4
  <2>2. \A i \in 1 .. ClientCount : i # c => Open(K)[i] = Open(L)[i]
    BY <1>6
  <2> QED BY <1>2, <1>5, <2>1, <2>2, SumChange
<1>10. d <= Sum(DataLeft(L), ClientCount) /\ d <= Sum(Open(L), ClientCount)
  <2>1. /\ \A i \in 1 .. ClientCount : DataLeft(L)[i] \in Nat
        /\ \A i \in 1 .. ClientCount : Open(L)[i] \in Nat
    BY <1>4
  <2> QED BY <1>2, <1>5, <2>1, SumTerm
<1>11. PICK x \in Nat, y \in Nat, z \in Nat :
         /\ x = Sum(DataLeft(L), ClientCount) /\ y = Sum(OwnParts(L), ClientCount)
         /\ z = Sum(Open(L), ClientCount)
  BY SumsNatural
<1>12. x + ((d - b) - d) = x - b /\ y + (b - 0) = y + b /\ z + (0 - d) = z - d
  OBVIOUS
<1> QED BY <1>3, <1>7, <1>8, <1>9, <1>10, <1>11, <1>12 DEF K

\* Giving a client a limit of its own takes its part from the bandwidth and from the data,
\* neither of which wraps.
LEMMA TakenExact ==
    ASSUME BandTypeOK, NEW t \in Tallies, NEW c \in Slots, Exceeds(t, c), Due, ~Overflows,
           NEW u \in Tally,
           /\ u.limited = t.limited \union {c} /\ u.fault = t.fault /\ u.throttle = t.throttle
           /\ u.bw = Minus(t.bw, ClientBandwidth) /\ u.data = Minus(t.data, ClientBandwidth)
    PROVE  Exact(u)
<1>1. t \in Tally /\ t.limited \in SUBSET Up /\ \A i \in t.limited : client[i].data > ClientBandwidth
  BY DEF Tallies, Tally
<1>2. Exact(t)
  BY DEF Tallies
<1>3. /\ c \in Up \ t.limited /\ client[c].data > ClientBandwidth
      /\ BandScale * ClientBandwidth < t.throttle * client[c].data
  BY <1>1, ExceedsBy
<1> DEFINE L == t.limited
           K == t.limited \union {c}
<1>4. /\ Sum(DataLeft(K), ClientCount) = Sum(DataLeft(L), ClientCount) - ClientBandwidth
      /\ Sum(OwnParts(K), ClientCount) = Sum(OwnParts(L), ClientCount) + ClientBandwidth
      /\ Sum(Open(K), ClientCount) = Sum(Open(L), ClientCount) - client[c].data
      /\ client[c].data <= Sum(DataLeft(L), ClientCount)
      /\ client[c].data <= Sum(Open(L), ClientCount)
  BY <1>1, <1>3, OneMoreLimited
<1> HIDE DEF L, K
<1>5. PICK d \in Nat, b \in BandWords, h \in Nat, w \in BandWords, e \in BandWords, m \in Nat :
        /\ d = client[c].data /\ b = ClientBandwidth /\ h = t.throttle
        /\ w = t.bw /\ e = t.data /\ m = Budget
  <2>1. t.throttle \in 0 .. BandScale /\ t.bw \in BandWords /\ t.data \in BandWords
    BY <1>1 DEF Tally
  <2>2. client[c].data \in Nat /\ ClientBandwidth \in BandWords /\ Budget \in Nat
    BY PassTypes
  <2> QED BY <2>1, <2>2, BandConstants
<1>6. PICK x \in Nat, y \in Nat, z \in Nat :
        /\ x = Sum(DataLeft(L), ClientCount) /\ y = Sum(OwnParts(L), ClientCount)
        /\ z = Sum(Open(L), ClientCount)
  BY <1>1, SumsNatural DEF L
<1>7. b \in Nat /\ w \in Nat /\ e \in Nat
  BY <1>5, PassTypes
<1>8. e = x /\ w = m - y /\ h * z <= BandScale * w /\ ~t.fault
  BY <1>2, <1>5, <1>6 DEF Exact, L
<1>9. b < d /\ d <= x /\ d <= z /\ BandScale * b < h * d
  BY <1>3, <1>4, <1>5, <1>6
<1>10. u.data = e - b
  <2>1. b <= e
    BY <1>7, <1>8, <1>9
  <2> QED BY <1>5, <2>1, MinusIs
<1>11. h * d <= h * z /\ h * d \in Nat /\ h * z \in Nat /\ BandScale * b \in Nat /\ BandScale * w \in Nat
  <2>1. h * d <= h * z
    BY <1>9, ProductsGrow
  <2> QED BY <1>7, <2>1, BandConstants
<1>12. b < w
  <2>1. BandScale * b < BandScale * w
    BY <1>8, <1>9, <1>11
  <2> QED BY <1>7, <2>1, FactorsGrow, BandConstants
<1>13. u.bw = w - b
  <2>1. b <= w
    BY <1>7, <1>12
  <2> QED BY <1>5, <2>1, MinusIs
<1>14. h * (z - d) <= BandScale * (w - b)
  <2>1. h * (z - d) = h * z - h * d
    OBVIOUS
  <2>2. BandScale * (w - b) = BandScale * w - BandScale * b
    BY <1>7, BandConstants
  <2> QED BY <1>8, <1>9, <1>11, <2>1, <2>2
<1>15. u.data = Sum(DataLeft(K), ClientCount)
  BY <1>4, <1>5, <1>6, <1>8, <1>10
<1>16. u.bw = Budget - Sum(OwnParts(K), ClientCount)
  <2>1. Sum(OwnParts(K), ClientCount) = y + b
    BY <1>4, <1>5, <1>6
  <2>2. w - b = m - (y + b)
    BY <1>7, <1>8
  <2> QED BY <1>5, <1>13, <2>1, <2>2
<1>17. u.throttle * Sum(Open(K), ClientCount) <= BandScale * u.bw
  <2>1. Sum(Open(K), ClientCount) = z - d
    BY <1>4, <1>5, <1>6
  <2> QED BY <1>5, <1>13, <1>14, <2>1
<1>18. u.limited = K /\ ~u.fault
  BY <1>8 DEF K
<1> QED BY <1>15, <1>16, <1>17, <1>18 DEF Exact

\* A turn of the inner loop keeps all this.
LEMMA ConsideredKeeps ==
    ASSUME BandTypeOK, NEW t \in Tallies, NEW c \in Slots
    PROVE  Considered(t, c) \in Tallies
<1>1. t \in Tally /\ \A i \in t.limited : client[i].data > ClientBandwidth
  BY DEF Tallies
<1>2. CASE ~Exceeds(t, c)
  BY <1>2 DEF Considered
<1>3. CASE Exceeds(t, c)
  <2> DEFINE u == BandTaken(t, c)
  <2>1. c \in Up \ t.limited /\ client[c].data > ClientBandwidth
    BY <1>1, <1>3, ExceedsBy
  <2>2. /\ t.bw \in BandWords /\ t.data \in BandWords /\ ClientBandwidth \in BandWords
        /\ t.limited \in SUBSET Up
    BY <1>1, PassTypes DEF Tally
  <2>3. PICK w \in BandWords, e \in BandWords, K \in SUBSET Up :
          /\ w = Minus(t.bw, ClientBandwidth) /\ e = Minus(t.data, ClientBandwidth)
          /\ K = t.limited \union {c}
    BY <2>1, <2>2, MinusIs
  <2>4. u = [t EXCEPT !.adjust = TRUE, !.limited = K, !.bw = w, !.data = e]
    BY <2>3 DEF BandTaken
  <2> HIDE DEF u
  <2>5. /\ u \in Tally /\ u.limited = K /\ u.fault = t.fault /\ u.throttle = t.throttle
        /\ u.bw = w /\ u.data = e
    BY <1>1, <2>4 DEF Tally
  <2>6. \A i \in u.limited : client[i].data > ClientBandwidth
    BY <1>1, <2>1, <2>3, <2>5
  <2>7. Due /\ ~Overflows => Exact(u)
    BY <1>3, <2>3, <2>5, TakenExact
  <2>8. Considered(t, c) = u
    BY <1>3 DEF Considered, u
  <2> QED BY <2>5, <2>6, <2>7, <2>8 DEF Tallies
<1> QED BY <1>2, <1>3

\* The throttle of a pass of the outer loop lets through no more than what is left.
LEMMA ThrottleFits ==
    ASSUME BandTypeOK, NEW t \in Tally, ~(t.data >= t.bw /\ t.data = 0)
    PROVE  /\ ThrottleFor(t) \in 0 .. BandScale
           /\ t.data * BandScale < BandWord => ThrottleFor(t) * t.data <= BandScale * t.bw
<1>1. PICK w \in Nat, e \in Nat : w = t.bw /\ e = t.data
  BY PassTypes DEF Tally
<1>2. CASE e < w
  <2>1. ThrottleFor(t) = BandScale
    BY <1>1, <1>2 DEF ThrottleFor
  <2>2. BandScale * e <= BandScale * w
    BY <1>2, ProductsGrow, BandConstants
  <2> QED BY <1>1, <2>1, <2>2, BandConstants
<1>3. CASE ~(e < w)
  <2>1. e # 0 /\ w <= e
    BY <1>1, <1>3
  <2>2. PICK x \in Nat : x = w * BandScale
    <3>1. w * BandScale \in Nat
      BY BandConstants
    <3> QED BY <3>1
  <2>3. PICK y \in Nat : y = Times(w, BandScale) /\ y <= x /\ (x < BandWord => y = x)
    <3>1. x % BandWord \in BandWords /\ x % BandWord <= x /\ (x < BandWord => x % BandWord = x)
      BY Worded
    <3> QED BY <2>2, <3>1, PassTypes DEF Times
  <2>4. PICK q \in Nat : q = y \div e /\ e * q <= y
    BY <2>1, Quotient
  <2>5. ThrottleFor(t) = q
    BY <1>1, <1>3, <2>3, <2>4 DEF ThrottleFor
  <2>6. PICK z \in Nat : z = e * BandScale /\ z = BandScale * e
    <3>1. e * BandScale \in Nat /\ e * BandScale = BandScale * e
      BY BandConstants
    <3> QED BY <3>1
  <2>7. x <= z
    <3>1. BandScale * w <= BandScale * e /\ BandScale * w = w * BandScale
      BY <2>1, ProductsGrow, BandConstants
    <3> QED BY <2>2, <2>6, <3>1
  <2>8. q <= BandScale
    <3>1. e * q \in Nat /\ e * q <= e * BandScale
      BY <2>3, <2>4, <2>6, <2>7
    <3> QED BY <2>1, <3>1, FactorsGrow, BandConstants
  <2>9. q * e <= BandScale * w
    <3>1. q * e = e * q /\ BandScale * w = w * BandScale
      BY BandConstants
    <3>2. e * q \in Nat
      OBVIOUS
    <3> QED BY <2>2, <2>3, <2>4, <3>1, <3>2
  <2> QED BY <1>1, <2>5, <2>8, <2>9, BandConstants
<1> QED BY <1>2, <1>3

\* Without an overflow no pass divides by zero: the data of a client that got a limit are
\* more than its part, and the first pass has some bandwidth.
LEMMA NeverByZero ==
    ASSUME BandTypeOK, NEW t \in Tallies, Due, ~Overflows
    PROVE  ~(t.data >= t.bw /\ t.data = 0)
<1> SUFFICES ASSUME t.data >= t.bw, t.data = 0 PROVE FALSE
  OBVIOUS
<1>1. t \in Tally /\ t.limited \in SUBSET Up /\ \A i \in t.limited : client[i].data > ClientBandwidth
  BY DEF Tallies, Tally
<1>2. Exact(t)
  BY DEF Tallies
<1> DEFINE L == t.limited
<1>3. Sum(DataLeft(L), ClientCount) = 0
  BY <1>2 DEF Exact
<1>4. L = {}
  <2> SUFFICES ASSUME NEW c \in L PROVE FALSE
    OBVIOUS
  <2>1. c \in 1 .. ClientCount
    BY <1>1, PassTypes, BandConstants
  <2>2. \A i \in 1 .. ClientCount : DataLeft(L)[i] \in Nat
    BY <1>1, Summands
  <2>3. DataLeft(L)[c] > 0
    BY <1>1, <2>1, Summands
  <2> HIDE DEF L
  <2>4. DataLeft(L)[c] <= Sum(DataLeft(L), ClientCount)
    BY <2>1, <2>2, SumTerm, BandConstants
  <2>5. PICK x \in Nat : x = DataLeft(L)[c]
    BY <2>1, <2>2
  <2> QED BY <1>3, <2>3, <2>4, <2>5
<1>5. Sum(OwnParts(L), ClientCount) = 0
  <2>1. \A i \in 1 .. ClientCount : OwnParts(L)[i] = 0
    BY <1>4, BandConstants DEF OwnParts
  <2> HIDE DEF L
  <2> QED BY <2>1, SumZero, BandConstants
<1>6. Budget > 0
  BY WithoutOverflow
<1>7. PICK y \in Nat, m \in Nat, w \in Nat :
        y = Sum(OwnParts(L), ClientCount) /\ m = Budget /\ w = t.bw
  <2>1. Sum(OwnParts(L), ClientCount) \in Nat
    BY <1>1, SumsNatural
  <2>2. Budget \in Nat /\ t.bw \in Nat
    BY <1>1, PassTypes DEF Tally
  <2> QED BY <2>1, <2>2
<1>8. w = m - y
  BY <1>2, <1>7 DEF Exact
<1> QED BY <1>5, <1>6, <1>7, <1>8

\* So does the beginning of a pass.
LEMMA BeginsKeep ==
    ASSUME BandTypeOK, NEW t \in Tallies, ~(t.data >= t.bw /\ t.data = 0)
    PROVE  [t EXCEPT !.adjust = FALSE, !.throttle = ThrottleFor(t)] \in Tallies
<1>1. t \in Tally /\ t.limited \in SUBSET Up /\ \A i \in t.limited : client[i].data > ClientBandwidth
  BY DEF Tallies, Tally
<1>2. PICK h \in 0 .. BandScale :
        h = ThrottleFor(t) /\ (t.data * BandScale < BandWord => h * t.data <= BandScale * t.bw)
  BY <1>1, ThrottleFits
<1> DEFINE u == [t EXCEPT !.adjust = FALSE, !.throttle = h]
<1>3. /\ u \in Tally /\ u.limited = t.limited /\ u.fault = t.fault /\ u.throttle = h
      /\ u.bw = t.bw /\ u.data = t.data
  BY <1>1 DEF Tally
<1> HIDE DEF u
<1>4. ASSUME Due, ~Overflows PROVE Exact(u)
  <2>1. Exact(t)
    BY <1>4 DEF Tallies
  <2> DEFINE L == t.limited
  <2>2. PICK x \in Nat, z \in Nat, y \in Nat :
          /\ x = Sum(DataLeft(L), ClientCount) /\ z = Sum(Open(L), ClientCount) /\ z <= x
          /\ y = Sum(OwnParts(L), ClientCount)
    BY <1>1, SumsNatural
  <2> HIDE DEF L
  <2>3. PICK w \in Nat : w = t.bw
    BY <1>1, PassTypes DEF Tally
  <2>4. t.data = x
    BY <2>1, <2>2 DEF Exact, L
  <2>5. x <= DataSum
    <3>1. \A i \in 1 .. ClientCount :
            DataLeft(L)[i] <= [c \in Slots |-> IF c \in Up THEN client[c].data ELSE 0][i]
      <4> SUFFICES ASSUME NEW i \in Slots
                   PROVE  DataLeft(L)[i] <= [c \in Slots |-> IF c \in Up THEN client[c].data ELSE 0][i]
        BY BandConstants
      <4>1. PICK d \in Nat, b \in Nat : d = client[i].data /\ b = ClientBandwidth
        BY PassTypes
      <4>2. DataLeft(L)[i] = IF i \notin Up THEN 0 ELSE IF i \in L THEN d - b ELSE d
        BY <4>1 DEF DataLeft
      <4> QED BY <4>1, <4>2
    <3> DEFINE f == [c \in Slots |-> IF c \in Up THEN client[c].data ELSE 0]
    <3>2. \A i \in 1 .. ClientCount : DataLeft(L)[i] \in Int /\ f[i] \in Int
      <4>1. \A i \in 1 .. ClientCount : DataLeft(L)[i] \in Nat
        BY <1>1, Summands DEF L
      <4>2. \A i \in 1 .. ClientCount : f[i] \in Nat
        BY PassTypes, BandConstants
      <4> QED BY <4>1, <4>2
    <3>3. \A i \in 1 .. ClientCount : DataLeft(L)[i] <= f[i]
      BY <3>1
    <3> HIDE DEF f
    <3>4. Sum(DataLeft(L), ClientCount) <= Sum(f, ClientCount)
      BY <3>2, <3>3, SumBelow, BandConstants
    <3> QED BY <2>2, <3>4 DEF DataSum, f
  <2>6. x * BandScale < BandWord
    <3>1. BandScale * x < BandWord /\ BandScale * x = x * BandScale
      BY <1>4, <2>5, WithoutOverflow, BandConstants
    <3> QED BY <3>1
  <2>7. h * x <= BandScale * w
    BY <1>2, <2>3, <2>4, <2>6
  <2>8. h * z <= BandScale * w
    <3>1. h \in Nat /\ h * z <= h * x
      BY <2>2, ProductsGrow, BandConstants
    <3>2. h * z \in Nat /\ h * x \in Nat /\ BandScale * w \in Nat
      BY <3>1, BandConstants
    <3> QED BY <2>7, <3>1, <3>2
  <2> QED BY <1>3, <2>1, <2>2, <2>3, <2>8 DEF Exact, L
<1>5. [t EXCEPT !.adjust = FALSE, !.throttle = ThrottleFor(t)] = u
  BY <1>2 DEF u
<1> QED BY <1>1, <1>3, <1>4, <1>5 DEF Tallies

\* The function that the inner loop defines, from what a pass begins with.
Considering(f, a) ==
    f = [c \in 0 .. ClientCount |-> IF c = 0 THEN a ELSE Considered(f[c - 1], c)]

\* The inner loop keeps all this.
LEMMA InnerKeeps ==
    ASSUME BandTypeOK, NEW a \in Tallies
    PROVE  (CHOOSE f : Considering(f, a))[ClientCount] \in Tallies
<1> DEFINE g == [p \in Tallies \X Nat |->
                   IF p[2] \in Slots THEN Considered(p[1], p[2]) ELSE p[1]]
<1>1. g \in [Tallies \X Nat -> Tallies]
  <2> SUFFICES ASSUME NEW p \in Tallies \X Nat
               PROVE  (IF p[2] \in Slots THEN Considered(p[1], p[2]) ELSE p[1]) \in Tallies
    OBVIOUS
  <2>1. p[1] \in Tallies
    OBVIOUS
  <2> QED BY <2>1, ConsideredKeeps
<1>2. PICK f \in [0 .. ClientCount -> Tallies] : Looping(f, a, g, ClientCount)
  <2> HIDE DEF g
  <2> QED BY <1>1, LoopDefined, BandConstants
<1>3. \A c \in 1 .. ClientCount : g[<<f[c - 1], c>>] = Considered(f[c - 1], c)
  <2> SUFFICES ASSUME NEW c \in Slots PROVE g[<<f[c - 1], c>>] = Considered(f[c - 1], c)
    BY BandConstants
  <2>1. c \in Nat /\ c - 1 \in 0 .. ClientCount
    BY BandConstants
  <2>2. f[c - 1] \in Tallies
    BY <2>1
  <2>3. <<f[c - 1], c>> \in Tallies \X Nat
    BY <2>1, <2>2
  <2> QED BY <2>3
<1> HIDE DEF g
<1>4. Considering(f, a)
  <2>1. \A c \in 0 .. ClientCount : c # 0 => c \in 1 .. ClientCount
    OBVIOUS
  <2>2. [c \in 0 .. ClientCount |-> IF c = 0 THEN a ELSE g[<<f[c - 1], c>>]]
        = [c \in 0 .. ClientCount |-> IF c = 0 THEN a ELSE Considered(f[c - 1], c)]
    BY <1>3, <2>1, Zenon
  <2> QED BY <1>2, <2>2, Zenon DEF Looping, Considering
<1> DEFINE h == CHOOSE e : Considering(e, a)
<1>5. Considering(h, a)
  BY <1>4
<1> HIDE DEF h
<1>6. h[0] \in Tallies /\ \A c \in 1 .. ClientCount : h[c] = Considered(h[c - 1], c)
  <2>1. \A c \in 0 .. ClientCount : h[c] = IF c = 0 THEN a ELSE Considered(h[c - 1], c)
    BY <1>5 DEF Considering
  <2>2. 0 \in 0 .. ClientCount /\ \A c \in 1 .. ClientCount : c # 0 /\ c \in 0 .. ClientCount
    BY BandConstants
  <2> QED BY <2>1, <2>2
<1>7. \A c \in 1 .. ClientCount : h[c - 1] \in Tallies => h[c] \in Tallies
  BY <1>6, ConsideredKeeps, BandConstants
<1>8. h[ClientCount] \in Tallies
  BY <1>6, <1>7, LoopKeeps, BandConstants
<1> QED BY <1>8 DEF h

\* A pass of the outer loop keeps it.
LEMMA RoundKeeps ==
    ASSUME BandTypeOK, NEW t \in Tallies
    PROVE  Round(t) \in Tallies
<1> DEFINE a == [t EXCEPT !.adjust = FALSE, !.throttle = ThrottleFor(t)]
<1>1. CASE ~t.adjust \/ t.fault \/ t.limited = Up
  BY <1>1 DEF Round
<1>2. CASE ~(~t.adjust \/ t.fault \/ t.limited = Up) /\ t.data >= t.bw /\ t.data = 0
  <2>1. Round(t) = [t EXCEPT !.fault = TRUE]
    BY <1>2 DEF Round
  <2>2. t \in Tally /\ \A i \in t.limited : client[i].data > ClientBandwidth
    BY DEF Tallies
  <2>3. Round(t) \in Tally /\ Round(t).limited = t.limited
    BY <2>1, <2>2 DEF Tally
  <2>4. ~(Due /\ ~Overflows)
    BY <1>2, NeverByZero
  <2> QED BY <2>2, <2>3, <2>4 DEF Tallies
<1>3. CASE ~(~t.adjust \/ t.fault \/ t.limited = Up) /\ ~(t.data >= t.bw /\ t.data = 0)
  <2>1. a \in Tallies
    BY <1>3, BeginsKeep
  <2>2. Round(t) = (CHOOSE f : Considering(f, a))[ClientCount]
    BY <1>3 DEF Round, Considering
  <2> HIDE DEF a
  <2> QED BY <2>1, <2>2, InnerKeeps
<1> QED BY <1>1, <1>2, <1>3

\* The function that the outer loop defines.
Rounding(f) ==
    f = [k \in 0 .. (ClientCount + 1) |->
           IF k = 0
           THEN [bw |-> Budget, data |-> DataTotal, throttle |-> 0, adjust |-> TRUE,
                 limited |-> {}, fault |-> FALSE]
           ELSE Round(f[k - 1])]

\* What the outer loop begins with.
LEMMA FirstTally ==
    ASSUME BandTypeOK
    PROVE  [bw |-> Budget, data |-> DataTotal, throttle |-> 0, adjust |-> TRUE,
            limited |-> {}, fault |-> FALSE] \in Tallies
<1> DEFINE a == [bw |-> Budget, data |-> DataTotal, throttle |-> 0, adjust |-> TRUE,
                 limited |-> {}, fault |-> FALSE]
<1>1. /\ a.bw = Budget /\ a.data = DataTotal /\ a.throttle = 0 /\ a.limited = {} /\ ~a.fault
  OBVIOUS
<1>2. a \in Tally
  <2>1. Budget \in BandWords /\ DataTotal \in BandWords /\ 0 \in 0 .. BandScale
    BY PassTypes, BandConstants
  <2> QED BY <2>1 DEF Tally
<1> HIDE DEF a
<1>3. ASSUME ~Overflows PROVE Exact(a)
  <2>1. Sum(DataLeft({}), ClientCount) = DataSum
    <3> DEFINE f == [c \in Slots |-> IF c \in Up THEN client[c].data ELSE 0]
    <3>1. \A c \in 1 .. ClientCount : DataLeft({})[c] = f[c]
      BY BandConstants DEF DataLeft
    <3> HIDE DEF f
    <3>2. Sum(DataLeft({}), ClientCount) = Sum(f, ClientCount)
      BY <3>1, SumSame, BandConstants
    <3> QED BY <3>2 DEF DataSum, f
  <2>2. Sum(OwnParts({}), ClientCount) = 0
    <3>1. \A c \in 1 .. ClientCount : OwnParts({})[c] = 0
      BY BandConstants DEF OwnParts
    <3> QED BY <3>1, SumZero, BandConstants
  <2>3. PICK z \in Nat, m \in Nat : z = Sum(Open({}), ClientCount) /\ m = Budget
    <3>1. Sum(Open({}), ClientCount) \in Nat
      BY SumsNatural
    <3> QED BY <3>1, PassTypes
  <2>4. m = m - 0 /\ 0 * z <= BandScale * m
    BY BandConstants
  <2>5. DataTotal = DataSum
    BY <1>3, WithoutOverflow
  <2> QED BY <1>1, <2>1, <2>2, <2>3, <2>4, <2>5 DEF Exact
<1>4. a \in Tallies
  BY <1>1, <1>2, <1>3 DEF Tallies
<1> QED BY <1>4 DEF a

\* What the outer loop ends with.
LEMMA RoundsKeep ==
    ASSUME BandTypeOK
    PROVE  Rounds \in Tallies
<1> DEFINE a == [bw |-> Budget, data |-> DataTotal, throttle |-> 0, adjust |-> TRUE,
                 limited |-> {}, fault |-> FALSE]
           N == ClientCount + 1
           g == [p \in Tallies \X Nat |-> Round(p[1])]
<1>1. a \in Tallies
  BY FirstTally
<1>2. N \in Nat
  BY BandConstants
<1>3. g \in [Tallies \X Nat -> Tallies]
  <2> SUFFICES ASSUME NEW p \in Tallies \X Nat PROVE Round(p[1]) \in Tallies
    OBVIOUS
  <2>1. p[1] \in Tallies
    OBVIOUS
  <2> QED BY <2>1, RoundKeeps
<1> HIDE DEF a, N
<1>4. PICK f \in [0 .. N -> Tallies] : Looping(f, a, g, N)
  <2> HIDE DEF g
  <2> QED BY <1>1, <1>2, <1>3, LoopDefined
<1>5. \A c \in 1 .. N : g[<<f[c - 1], c>>] = Round(f[c - 1])
  <2> SUFFICES ASSUME NEW c \in 1 .. N PROVE g[<<f[c - 1], c>>] = Round(f[c - 1])
    OBVIOUS
  <2>1. c \in Nat /\ c - 1 \in 0 .. N
    BY <1>2
  <2>2. f[c - 1] \in Tallies
    BY <2>1
  <2>3. <<f[c - 1], c>> \in Tallies \X Nat
    BY <2>1, <2>2
  <2> QED BY <2>3
<1> HIDE DEF g
<1>6. Rounding(f)
  <2>1. \A c \in 0 .. N : c # 0 => c \in 1 .. N
    BY <1>2
  <2>2. [c \in 0 .. N |-> IF c = 0 THEN a ELSE g[<<f[c - 1], c>>]]
        = [c \in 0 .. N |-> IF c = 0 THEN a ELSE Round(f[c - 1])]
    BY <1>5, <2>1, Zenon
  <2>3. f = [c \in 0 .. N |-> IF c = 0 THEN a ELSE Round(f[c - 1])]
    BY <1>4, <2>2, Zenon DEF Looping
  <2> QED BY <2>3, Zenon DEF Rounding, a, N
<1> DEFINE h == CHOOSE e : Rounding(e)
<1>7. Rounding(h)
  BY <1>6
<1>8. Rounds = h[N]
  BY DEF Rounds, Rounding, N
<1> HIDE DEF h
<1>9. h[0] \in Tallies /\ \A c \in 1 .. N : h[c] = Round(h[c - 1])
  <2>1. h = [c \in 0 .. N |-> IF c = 0 THEN a ELSE Round(h[c - 1])]
    BY <1>7, Zenon DEF Rounding, a, N
  <2>2. \A c \in 0 .. N : h[c] = IF c = 0 THEN a ELSE Round(h[c - 1])
    BY <2>1
  <2>3. 0 \in 0 .. N /\ \A c \in 1 .. N : c # 0 /\ c \in 0 .. N
    BY <1>2
  <2> QED BY <1>1, <2>2, <2>3
<1>10. \A c \in 1 .. N : h[c - 1] \in Tallies => h[c] \in Tallies
  BY <1>9, RoundKeeps
<1>11. h[N] \in Tallies
  BY <1>2, <1>9, <1>10, LoopKeeps
<1> QED BY <1>8, <1>11

-----------------------------------------------------------------------------
(* The division of the incoming bandwidth.                                 *)

\* The bandwidths of those that leave the rest to the others.
OutOf(V) == [c \in Slots |-> IF c \in V THEN client[c].outBw ELSE 0]

\* What the peers use when each is told l.
Uses(l) ==
    [c \in Slots |-> IF c \notin Up THEN 0
                     ELSE IF client[c].outBw < l THEN client[c].outBw ELSE l]

Split == [bw : BandWords, limit : BandWords, adjust : BOOLEAN, served : SUBSET Up]

\* The bandwidth that is left is what those who left the rest do not use, and the share
\* fits: as that of each of the others into what is left, and as that of all.
Even(s) ==
    /\ s.bw + Sum(OutOf(s.served), ClientCount) = inBw
    /\ Sum(Uses(s.limit), ClientCount) <= inBw
    /\ s.limit * Cardinality(Up \ s.served) <= s.bw

Splits == {s \in Split : Even(s)}

\* The numbers that the sums of the division are made of.
LEMMA Divided ==
    ASSUME BandTypeOK
    PROVE  /\ \A V : \A c \in 1 .. ClientCount : OutOf(V)[c] \in Nat
           /\ \A l \in BandWords : \A c \in 1 .. ClientCount : Uses(l)[c] \in Nat
           /\ \A V : Sum(OutOf(V), ClientCount) \in Nat
           /\ \A l \in BandWords : Sum(Uses(l), ClientCount) \in Nat
           /\ \A V : IsFiniteSet(Up \ V) /\ Cardinality(Up \ V) \in Nat
<1>1. \A V : \A c \in 1 .. ClientCount : OutOf(V)[c] \in Nat
  BY PassTypes, BandConstants DEF OutOf
<1>2. \A l \in BandWords : \A c \in 1 .. ClientCount : Uses(l)[c] \in Nat
  BY PassTypes, BandConstants DEF Uses
<1>3. ASSUME NEW V PROVE IsFiniteSet(Up \ V) /\ Cardinality(Up \ V) \in Nat
  <2>1. IsFiniteSet(1 .. ClientCount)
    BY FS_Interval, BandConstants
  <2>2. Up \ V \subseteq 1 .. ClientCount
    BY PassTypes, BandConstants
  <2> QED BY <2>1, <2>2, FS_Subset, FS_CardinalityType
<1>4. ASSUME NEW V PROVE Sum(OutOf(V), ClientCount) \in Nat
  BY <1>1, SumNatural, BandConstants
<1>5. ASSUME NEW l \in BandWords PROVE Sum(Uses(l), ClientCount) \in Nat
  BY <1>2, SumNatural, BandConstants
<1> QED BY <1>1, <1>2, <1>3, <1>4, <1>5

\* A turn of the inner loop keeps the shares even: no bandwidth is taken that is not there.
LEMMA AskedKeeps ==
    ASSUME BandTypeOK, NEW s \in Splits, NEW c \in Slots
    PROVE  Asked(s, c) \in Splits
<1>1. s \in Split /\ Even(s)
  BY DEF Splits
<1>2. CASE ~UsesLess(s, c)
  BY <1>2 DEF Asked
<1>3. CASE UsesLess(s, c)
  <2> DEFINE V == s.served
             K == s.served \union {c}
  <2>1. c \in Up \ V /\ (client[c].outBw = 0 \/ client[c].outBw < s.limit)
    BY <1>3 DEF UsesLess
  <2>2. K \in SUBSET Up
    BY <1>1, <2>1 DEF Split
  <2>3. Sum(OutOf(K), ClientCount) = Sum(OutOf(V), ClientCount) + (client[c].outBw - 0)
    <3>1. c \in 1 .. ClientCount /\ OutOf(K)[c] = client[c].outBw /\ OutOf(V)[c] = 0
      BY <2>1, BandConstants DEF OutOf
    <3>2. \A i \in 1 .. ClientCount : i # c => OutOf(K)[i] = OutOf(V)[i]
      BY BandConstants DEF OutOf
    <3> HIDE DEF K, V
    <3>3. \A i \in 1 .. ClientCount : OutOf(V)[i] \in Int /\ OutOf(K)[i] \in Int
      <4>1. \A i \in 1 .. ClientCount : OutOf(V)[i] \in Nat
        BY Divided
      <4>2. \A i \in 1 .. ClientCount : OutOf(K)[i] \in Nat
        BY Divided
      <4> QED BY <4>1, <4>2
    <3>4. ClientCount \in Nat
      BY BandConstants
    <3> QED BY <3>1, <3>2, <3>3, <3>4, SumChange
  <2>4. Cardinality(Up \ K) = Cardinality(Up \ V) - 1
    <3>1. Up \ K = (Up \ V) \ {c}
      OBVIOUS
    <3> HIDE DEF K, V
    <3>2. IsFiniteSet(Up \ V)
      BY Divided
    <3> QED BY <2>1, <3>1, <3>2, FS_RemoveElement
  <2>5. PICK n \in Nat, x \in Nat, i \in Nat :
          n = Cardinality(Up \ V) /\ x = Sum(OutOf(V), ClientCount) /\ i = inBw
    <3>1. Cardinality(Up \ V) \in Nat /\ Sum(OutOf(V), ClientCount) \in Nat
      BY Divided
    <3>2. inBw \in Nat
      BY PassTypes DEF BandTypeOK
    <3> QED BY <3>1, <3>2
  <2>6. PICK w \in BandWords, l \in BandWords, o \in BandWords :
          w = s.bw /\ l = s.limit /\ o = client[c].outBw
    BY <1>1, PassTypes DEF Split
  <2>7. w \in Nat /\ l \in Nat /\ o \in Nat
    BY <2>6, PassTypes
  <2> HIDE DEF K
  <2>8. n >= 1
    <3>1. Cardinality(Up \ K) \in Nat
      BY Divided
    <3>2. PICK m \in Nat : m = Cardinality(Up \ K)
      BY <3>1
    <3>3. m = n - 1
      BY <2>4, <2>5, <3>2
    <3> QED BY <3>3
  <2>9. l * n <= w /\ w + x = i
    BY <1>1, <2>5, <2>6 DEF Even
  <2>10. l <= l * n /\ l * (n - 1) = l * n - l /\ l * n \in Nat
    <3>1. l * 1 <= l * n
      BY <2>7, <2>8, ProductsGrow
    <3> QED BY <2>7, <2>8, <3>1
  <2>11. o <= w /\ l * (n - 1) <= w - o
    BY <2>1, <2>6, <2>7, <2>9, <2>10
  <2>12. PICK v \in BandWords : v = Minus(s.bw, client[c].outBw) /\ v = w - o
    BY <2>6, <2>11, MinusIs
  <2> DEFINE u == Served(s, c)
  <2>13. u = [s EXCEPT !.adjust = TRUE, !.served = K, !.bw = v]
    BY <2>12 DEF Served, K
  <2> HIDE DEF u, V
  <2>14. u \in Split /\ u.served = K /\ u.bw = v /\ u.limit = l
    BY <1>1, <2>2, <2>6, <2>13 DEF Split
  <2>15. v + (x + (o - 0)) = i
    BY <2>5, <2>7, <2>9, <2>12
  <2>16. u.bw + Sum(OutOf(u.served), ClientCount) = inBw
    BY <2>3, <2>5, <2>6, <2>14, <2>15
  <2>17. u.limit * Cardinality(Up \ u.served) <= u.bw
    BY <2>4, <2>5, <2>11, <2>12, <2>14
  <2>18. Sum(Uses(u.limit), ClientCount) <= inBw
    BY <1>1, <2>6, <2>14 DEF Even
  <2>19. Asked(s, c) = u
    BY <1>3 DEF Asked, u
  <2> QED BY <2>14, <2>16, <2>17, <2>18, <2>19 DEF Splits, Even
<1> QED BY <1>2, <1>3

\* A pass of the outer loop begins with the share that fits.
LEMMA ShareFits ==
    ASSUME BandTypeOK, NEW s \in Splits, s.served # Up
    PROVE  [s EXCEPT !.adjust = FALSE, !.limit = s.bw \div Cardinality(Up \ s.served)] \in Splits
<1> DEFINE V == s.served
<1>1. s \in Split /\ Even(s) /\ V \in SUBSET Up
  BY DEF Splits, Split
<1>2. PICK n \in Nat \ {0} : n = Cardinality(Up \ V)
  <2>1. IsFiniteSet(Up \ V) /\ Cardinality(Up \ V) \in Nat
    BY Divided
  <2>2. Up \ V # {}
    BY <1>1
  <2>3. Cardinality(Up \ V) # 0
    BY <2>1, <2>2, FS_EmptySet
  <2> QED BY <2>1, <2>3
<1>3. PICK w \in Nat : w = s.bw /\ w < BandWord
  BY <1>1, PassTypes, BandConstants DEF Split, BandWords
<1>4. PICK l \in Nat : l = w \div n /\ l <= w /\ n * l <= w
  BY Quotient
<1>5. l \in BandWords
  BY <1>3, <1>4, BandConstants DEF BandWords
<1>6. PICK x \in Nat, i \in Nat : x = Sum(OutOf(V), ClientCount) /\ i = inBw
  <2>1. Sum(OutOf(V), ClientCount) \in Nat /\ inBw \in Nat
    BY Divided, PassTypes DEF BandTypeOK
  <2> QED BY <2>1
<1>7. w + x = i
  BY <1>1, <1>3, <1>6 DEF Even
<1> DEFINE one == [c \in 1 .. ClientCount |-> IF c \in Up \ V THEN 1 ELSE 0]
<1>8. Sum(one, ClientCount) = n
  <2>1. Up \ V \in SUBSET (1 .. ClientCount) /\ ClientCount \in Nat
    BY PassTypes, BandConstants
  <2> QED BY <1>2, <2>1, SumCounts
<1>9. \A c \in 1 .. ClientCount : 1 * Uses(l)[c] <= 1 * OutOf(V)[c] + l * one[c]
  <2> SUFFICES ASSUME NEW c \in Slots
               PROVE  1 * Uses(l)[c] <= 1 * OutOf(V)[c] + l * one[c]
    BY BandConstants
  <2>1. PICK o \in Nat : o = client[c].outBw
    BY PassTypes
  <2>2. Uses(l)[c] = IF c \notin Up THEN 0 ELSE IF o < l THEN o ELSE l
    BY <2>1 DEF Uses
  <2>3. OutOf(V)[c] = IF c \in V THEN o ELSE 0
    BY <2>1 DEF OutOf
  <2>4. one[c] = IF c \in Up \ V THEN 1 ELSE 0
    BY BandConstants
  <2> HIDE DEF one, V
  <2>5. CASE c \in V
    <3>1. Uses(l)[c] <= o /\ OutOf(V)[c] = o /\ one[c] = 0 /\ Uses(l)[c] \in Nat
      BY <2>2, <2>3, <2>4, <2>5
    <3> QED BY <3>1
  <2>6. CASE c \in Up \ V
    <3>1. Uses(l)[c] <= l /\ OutOf(V)[c] = 0 /\ one[c] = 1 /\ Uses(l)[c] \in Nat
      BY <2>2, <2>3, <2>4, <2>6
    <3> QED BY <3>1
  <2>7. CASE c \notin Up
    <3>1. Uses(l)[c] = 0 /\ OutOf(V)[c] \in Nat /\ one[c] = 0
      BY <2>2, <2>3, <2>4, <2>7
    <3> QED BY <3>1
  <2> QED BY <1>1, <2>5, <2>6, <2>7
<1>10. 1 * Sum(Uses(l), ClientCount) <= 1 * Sum(OutOf(V), ClientCount) + l * Sum(one, ClientCount)
  <2>1. \A c \in 1 .. ClientCount : Uses(l)[c] \in Int /\ OutOf(V)[c] \in Int /\ one[c] \in Int
    <3>1. /\ \A c \in 1 .. ClientCount : Uses(l)[c] \in Nat
          /\ \A c \in 1 .. ClientCount : OutOf(V)[c] \in Nat
      BY <1>5, Divided
    <3>2. \A c \in 1 .. ClientCount : one[c] \in Nat
      OBVIOUS
    <3> HIDE DEF one
    <3> QED BY <3>1, <3>2
  <2>2. 1 \in Int /\ l \in Int /\ ClientCount \in Nat
    BY BandConstants
  <2> HIDE DEF one
  <2> QED BY <1>9, <2>1, <2>2, SumWeighted, Zenon
<1> HIDE DEF one
<1>11. Sum(Uses(l), ClientCount) <= i
  <2>1. PICK y \in Nat : y = Sum(Uses(l), ClientCount)
    BY <1>5, Divided
  <2>2. 1 * y <= 1 * x + l * n
    BY <1>6, <1>8, <1>10, <2>1
  <2>3. l * n = n * l /\ n * l \in Nat
    OBVIOUS
  <2> QED BY <1>4, <1>7, <2>1, <2>2, <2>3
<1> DEFINE u == [s EXCEPT !.adjust = FALSE, !.limit = l]
<1>12. u \in Split /\ u.served = V /\ u.bw = w /\ u.limit = l
  BY <1>1, <1>3, <1>5 DEF Split
<1>13. u = [s EXCEPT !.adjust = FALSE, !.limit = s.bw \div Cardinality(Up \ s.served)]
  BY <1>2, <1>3, <1>4
<1> HIDE DEF u, V
<1>14. Even(u)
  <2>1. l * n = n * l
    OBVIOUS
  <2> QED BY <1>2, <1>4, <1>6, <1>7, <1>11, <1>12, <2>1 DEF Even
<1>15. u \in Splits
  BY <1>12, <1>14 DEF Splits
<1> QED BY <1>13, <1>15

\* The function that the inner loop of the division defines.
Asking(f, a) == f = [c \in 0 .. ClientCount |-> IF c = 0 THEN a ELSE Asked(f[c - 1], c)]

\* The inner loop keeps the shares even.
LEMMA AskingKeeps ==
    ASSUME BandTypeOK, NEW a \in Splits
    PROVE  (CHOOSE f : Asking(f, a))[ClientCount] \in Splits
<1> DEFINE g == [p \in Splits \X Nat |-> IF p[2] \in Slots THEN Asked(p[1], p[2]) ELSE p[1]]
<1>1. g \in [Splits \X Nat -> Splits]
  <2> SUFFICES ASSUME NEW p \in Splits \X Nat
               PROVE  (IF p[2] \in Slots THEN Asked(p[1], p[2]) ELSE p[1]) \in Splits
    OBVIOUS
  <2>1. p[1] \in Splits
    OBVIOUS
  <2> QED BY <2>1, AskedKeeps
<1>2. PICK f \in [0 .. ClientCount -> Splits] : Looping(f, a, g, ClientCount)
  <2> HIDE DEF g
  <2> QED BY <1>1, LoopDefined, BandConstants
<1>3. \A c \in 1 .. ClientCount : g[<<f[c - 1], c>>] = Asked(f[c - 1], c)
  <2> SUFFICES ASSUME NEW c \in Slots PROVE g[<<f[c - 1], c>>] = Asked(f[c - 1], c)
    BY BandConstants
  <2>1. c \in Nat /\ c - 1 \in 0 .. ClientCount
    BY BandConstants
  <2>2. f[c - 1] \in Splits
    BY <2>1
  <2>3. <<f[c - 1], c>> \in Splits \X Nat
    BY <2>1, <2>2
  <2> QED BY <2>3
<1> HIDE DEF g
<1>4. Asking(f, a)
  <2>1. \A c \in 0 .. ClientCount : c # 0 => c \in 1 .. ClientCount
    OBVIOUS
  <2>2. [c \in 0 .. ClientCount |-> IF c = 0 THEN a ELSE g[<<f[c - 1], c>>]]
        = [c \in 0 .. ClientCount |-> IF c = 0 THEN a ELSE Asked(f[c - 1], c)]
    BY <1>3, <2>1, Zenon
  <2> QED BY <1>2, <2>2, Zenon DEF Looping, Asking
<1> DEFINE h == CHOOSE e : Asking(e, a)
<1>5. Asking(h, a)
  BY <1>4
<1> HIDE DEF h
<1>6. h[0] \in Splits /\ \A c \in 1 .. ClientCount : h[c] = Asked(h[c - 1], c)
  <2>1. \A c \in 0 .. ClientCount : h[c] = IF c = 0 THEN a ELSE Asked(h[c - 1], c)
    BY <1>5 DEF Asking
  <2>2. 0 \in 0 .. ClientCount /\ \A c \in 1 .. ClientCount : c # 0 /\ c \in 0 .. ClientCount
    BY BandConstants
  <2> QED BY <2>1, <2>2
<1>7. \A c \in 1 .. ClientCount : h[c - 1] \in Splits => h[c] \in Splits
  BY <1>6, AskedKeeps, BandConstants
<1>8. h[ClientCount] \in Splits
  BY <1>6, <1>7, LoopKeeps, BandConstants
<1> QED BY <1>8 DEF h

\* A pass of the outer loop keeps them even.
LEMMA DivisionKeeps ==
    ASSUME BandTypeOK, NEW s \in Splits
    PROVE  Division(s) \in Splits
<1> DEFINE a == [s EXCEPT !.adjust = FALSE, !.limit = s.bw \div Cardinality(Up \ s.served)]
<1>1. CASE ~s.adjust \/ s.served = Up
  BY <1>1 DEF Division
<1>2. CASE ~(~s.adjust \/ s.served = Up)
  <2>1. a \in Splits
    BY <1>2, ShareFits
  <2>2. Division(s) = (CHOOSE f : Asking(f, a))[ClientCount]
    BY <1>2 DEF Division, Asking
  <2> HIDE DEF a
  <2> QED BY <2>1, <2>2, AskingKeeps
<1> QED BY <1>1, <1>2

\* The function that the outer loop of the division defines.
Dividing(f) ==
    f = [k \in 0 .. (ClientCount + 1) |->
           IF k = 0 THEN [bw |-> inBw, limit |-> 0, adjust |-> inBw # 0, served |-> {}]
           ELSE Division(f[k - 1])]

\* What the peers use together of the share they are told fits the incoming bandwidth.
LEMMA ShareIs ==
    ASSUME BandTypeOK
    PROVE  Share \in BandWords /\ Sum(Uses(Share), ClientCount) <= inBw
<1> DEFINE a == [bw |-> inBw, limit |-> 0, adjust |-> inBw # 0, served |-> {}]
           N == ClientCount + 1
           g == [p \in Splits \X Nat |-> Division(p[1])]
<1>1. a \in Splits
  <2>1. a.bw = inBw /\ a.limit = 0 /\ a.served = {}
    OBVIOUS
  <2>2. a \in Split
    <3>1. inBw \in BandWords /\ 0 \in BandWords
      BY BandConstants DEF BandTypeOK, BandWords
    <3> QED BY <3>1 DEF Split
  <2> HIDE DEF a
  <2>3. Sum(OutOf({}), ClientCount) = 0
    <3>1. \A c \in 1 .. ClientCount : OutOf({})[c] = 0
      BY BandConstants DEF OutOf
    <3> QED BY <3>1, SumZero, BandConstants
  <2>4. Sum(Uses(0), ClientCount) = 0
    <3>1. \A c \in 1 .. ClientCount : Uses(0)[c] = 0
      <4> SUFFICES ASSUME NEW c \in Slots PROVE Uses(0)[c] = 0
        BY BandConstants
      <4>1. client[c].outBw \in Nat
        BY PassTypes
      <4> QED BY <4>1 DEF Uses
    <3> QED BY <3>1, SumZero, BandConstants
  <2>5. PICK i \in Nat, n \in Nat : i = inBw /\ n = Cardinality(Up \ {})
    <3>1. inBw \in Nat /\ Cardinality(Up \ {}) \in Nat
      BY Divided, PassTypes DEF BandTypeOK
    <3> QED BY <3>1
  <2>6. i + 0 = i /\ 0 <= i /\ 0 * n <= i
    OBVIOUS
  <2>7. Even(a)
    BY <2>1, <2>3, <2>4, <2>5, <2>6 DEF Even
  <2> QED BY <2>2, <2>7 DEF Splits
<1>2. N \in Nat
  BY BandConstants
<1>3. g \in [Splits \X Nat -> Splits]
  <2> SUFFICES ASSUME NEW p \in Splits \X Nat PROVE Division(p[1]) \in Splits
    OBVIOUS
  <2>1. p[1] \in Splits
    OBVIOUS
  <2> QED BY <2>1, DivisionKeeps
<1> HIDE DEF a, N
<1>4. PICK f \in [0 .. N -> Splits] : Looping(f, a, g, N)
  <2> HIDE DEF g
  <2> QED BY <1>1, <1>2, <1>3, LoopDefined
<1>5. \A c \in 1 .. N : g[<<f[c - 1], c>>] = Division(f[c - 1])
  <2> SUFFICES ASSUME NEW c \in 1 .. N PROVE g[<<f[c - 1], c>>] = Division(f[c - 1])
    OBVIOUS
  <2>1. c \in Nat /\ c - 1 \in 0 .. N
    BY <1>2
  <2>2. f[c - 1] \in Splits
    BY <2>1
  <2>3. <<f[c - 1], c>> \in Splits \X Nat
    BY <2>1, <2>2
  <2> QED BY <2>3
<1> HIDE DEF g
<1>6. Dividing(f)
  <2>1. \A c \in 0 .. N : c # 0 => c \in 1 .. N
    BY <1>2
  <2>2. [c \in 0 .. N |-> IF c = 0 THEN a ELSE g[<<f[c - 1], c>>]]
        = [c \in 0 .. N |-> IF c = 0 THEN a ELSE Division(f[c - 1])]
    BY <1>5, <2>1, Zenon
  <2>3. f = [c \in 0 .. N |-> IF c = 0 THEN a ELSE Division(f[c - 1])]
    BY <1>4, <2>2, Zenon DEF Looping
  <2> QED BY <2>3, Zenon DEF Dividing, a, N
<1> DEFINE h == CHOOSE e : Dividing(e)
<1>7. Dividing(h)
  BY <1>6
<1>8. Share = h[N].limit
  BY DEF Share, Dividing, N
<1> HIDE DEF h
<1>9. h[0] \in Splits /\ \A c \in 1 .. N : h[c] = Division(h[c - 1])
  <2>1. h = [c \in 0 .. N |-> IF c = 0 THEN a ELSE Division(h[c - 1])]
    BY <1>7, Zenon DEF Dividing, a, N
  <2>2. \A c \in 0 .. N : h[c] = IF c = 0 THEN a ELSE Division(h[c - 1])
    BY <2>1
  <2>3. 0 \in 0 .. N /\ \A c \in 1 .. N : c # 0 /\ c \in 0 .. N
    BY <1>2
  <2> QED BY <1>1, <2>2, <2>3
<1>10. \A c \in 1 .. N : h[c - 1] \in Splits => h[c] \in Splits
  BY <1>9, DivisionKeeps
<1>11. h[N] \in Splits
  BY <1>2, <1>9, <1>10, LoopKeeps
<1>12. h[N].limit \in BandWords /\ Sum(Uses(h[N].limit), ClientCount) <= inBw
  BY <1>11 DEF Splits, Split, Even
<1> QED BY <1>8, <1>12

-----------------------------------------------------------------------------
(* The types of the pass, and its limits.                                  *)

\* A limit of its own is within the scale, and lets through no more than the client's part.
LEMMA OwnLimitIs ==
    ASSUME BandTypeOK, NEW c \in Slots, client[c].data > ClientBandwidth
    PROVE  /\ OwnLimit(c) \in 0 .. BandScale
           /\ OwnLimit(c) > 1 => OwnLimit(c) * client[c].data <= BandScale * ClientBandwidth
<1>1. PICK d \in Nat \ {0}, b \in Nat : d = client[c].data /\ b = ClientBandwidth /\ b < d
  <2>1. client[c].data \in Nat /\ ClientBandwidth \in Nat
    BY PassTypes
  <2>2. client[c].data # 0
    BY <2>1
  <2> QED BY <2>1, <2>2
<1>2. PICK x \in Nat : x = b * BandScale /\ x = BandScale * b
  <2>1. b * BandScale \in Nat /\ b * BandScale = BandScale * b
    BY BandConstants
  <2> QED BY <2>1
<1>3. PICK y \in Nat : y = Times(b, BandScale) /\ y <= x
  <2>1. x % BandWord \in BandWords /\ x % BandWord <= x
    BY Worded
  <2> QED BY <1>2, <2>1, PassTypes DEF Times
<1>4. PICK n \in Nat : n = y \div d /\ d * n <= y
  BY <1>1, Quotient
<1>5. n <= BandScale
  <2>1. BandScale * b <= BandScale * d /\ BandScale * d = d * BandScale
    BY <1>1, ProductsGrow, BandConstants
  <2>2. d * n \in Nat /\ d * BandScale \in Nat
    BY BandConstants
  <2>3. d * n <= d * BandScale
    BY <1>2, <1>3, <1>4, <2>1, <2>2
  <2> QED BY <2>3, FactorsGrow, BandConstants
<1>6. OwnLimit(c) = IF n = 0 THEN 1 ELSE n
  BY <1>1, <1>3, <1>4 DEF OwnLimit
<1>7. n * d <= BandScale * b
  <2>1. n * d = d * n /\ d * n \in Nat
    OBVIOUS
  <2> QED BY <1>2, <1>3, <1>4, <2>1
<1> QED BY <1>1, <1>5, <1>6, <1>7, BandConstants

\* What a pass makes of a client.
LEMMA ThrottledIs ==
    ASSUME BandTypeOK, NEW r \in Tallies, NEW c \in Slots
    PROVE  LET u == Throttled(c, r)
           IN  /\ u \in Client /\ u.state = client[c].state /\ u.late = client[c].late
               /\ u.limit = (IF c \notin Up THEN client[c].limit
                             ELSE IF c \in r.limited THEN OwnLimit(c) ELSE r.throttle)
               /\ u.told = (IF c \in Up /\ reconf THEN Share ELSE client[c].told)
               /\ u.able = (IF c \in Up /\ reconf THEN client[c].outBw ELSE client[c].able)
<1>1. r \in Tally /\ \A i \in r.limited : client[i].data > ClientBandwidth
  BY DEF Tallies
<1>2. client[c] \in Client
  BY DEF BandTypeOK
<1>3. PICK l \in 0 .. BandScale :
        l = IF c \notin Up THEN client[c].limit
            ELSE IF c \in r.limited THEN OwnLimit(c) ELSE r.throttle
  <2>1. client[c].limit \in 0 .. BandScale /\ r.throttle \in 0 .. BandScale
    BY <1>1, <1>2 DEF Client, Tally
  <2>2. c \in r.limited => OwnLimit(c) \in 0 .. BandScale
    BY <1>1, OwnLimitIs
  <2> QED BY <2>1, <2>2
<1>4. PICK t \in BandWords \union {NotTold} :
        t = IF c \in Up /\ reconf THEN Share ELSE client[c].told
  <2>1. Share \in BandWords /\ client[c].told \in BandWords \union {NotTold}
    BY <1>2, ShareIs DEF Client
  <2> QED BY <2>1
<1>5. PICK a \in BandWords : a = IF c \in Up /\ reconf THEN client[c].outBw ELSE client[c].able
  <2>1. client[c].outBw \in BandWords /\ client[c].able \in BandWords
    BY <1>2 DEF Client
  <2> QED BY <2>1
<1>6. 0 \in BandWords
  BY BandConstants DEF BandWords
<1> DEFINE u == [client[c] EXCEPT !.limit = l, !.told = t, !.able = a, !.data = 0]
<1>7. Throttled(c, r) = u
  BY <1>3, <1>4, <1>5, Zenon DEF Throttled
<1>8. /\ u \in Client /\ u.state = client[c].state /\ u.late = client[c].late
      /\ u.limit = l /\ u.told = t /\ u.able = a
  BY <1>2, <1>6 DEF Client
<1> HIDE DEF u
<1> QED BY <1>3, <1>4, <1>5, <1>7, <1>8

\* A slot that nobody uses is a slot.
LEMMA FreeIs ==
    /\ FreeClient \in Client /\ FreeClient.state = "free" /\ FreeClient.told = NotTold
    /\ \A i, o \in BandWords, s \in {"pending", "up"} :
         /\ [FreeClient EXCEPT !.state = s, !.inBw = i, !.outBw = o] \in Client
         /\ [FreeClient EXCEPT !.state = s, !.inBw = i, !.outBw = o].told = NotTold
<1>1. 0 \in BandWords /\ BandScale \in 0 .. BandScale
  BY BandConstants DEF BandWords
<1>2. FreeClient \in Client /\ FreeClient.state = "free" /\ FreeClient.told = NotTold
  BY <1>1 DEF FreeClient, Client
<1> QED BY <1>2 DEF Client

\* What an action makes of the slot c is a client of a host.
Becomes(c, r) == c \in Slots /\ r \in Client /\ client' = [client EXCEPT ![c] = r]

\* The actions about one slot, and what they leave in it.
LEMMA SlotActions ==
    ASSUME BandTypeOK, NEW c \in Slots
    PROVE  /\ \A rates \in PeerRates, sink \in Sinks : Connects(c, rates, sink) =>
                \E r \in Client : Becomes(c, r) /\ r.told = NotTold
           /\ Announced(c) =>
                \E r \in Client : /\ Becomes(c, r) /\ client[c].state = "pending"
                                  /\ r.told = client[c].told /\ r.late /\ r.state = "up"
           /\ \A n \in Amounts : DataSent(c, n) =>
                \E r \in Client : /\ Becomes(c, r) /\ r.told = client[c].told
                                  /\ r.able = client[c].able /\ r.late = client[c].late
                                  /\ r.state = client[c].state
           /\ \A rates \in PeerRates : Reports(c, rates) =>
                \E r \in Client : /\ Becomes(c, r) /\ r.told = client[c].told
                                  /\ r.able = client[c].able /\ r.late = client[c].late
                                  /\ r.state = client[c].state
           /\ CloseBegins(c) => \E r \in Client : Becomes(c, r) /\ r.state = "closing"
           /\ Ends(c) \/ Destroys(c) => Becomes(c, FreeClient)
<1>1. client[c] \in Client /\ client \in [Slots -> Client]
  BY DEF BandTypeOK
<1>2. ASSUME NEW rates \in PeerRates, NEW sink \in Sinks, Connects(c, rates, sink)
      PROVE  \E r \in Client : Becomes(c, r) /\ r.told = NotTold
  <2>1. rates[1] \in BandWords /\ rates[2] \in BandWords
    BY RateAssumption DEF BandWords
  <2> DEFINE r == [FreeClient EXCEPT !.state = IF sink THEN "up" ELSE "pending",
                                     !.inBw = rates[1], !.outBw = rates[2]]
  <2>2. r \in Client /\ r.told = NotTold
    <3>1. PICK s \in {"pending", "up"} : s = IF sink THEN "up" ELSE "pending"
      OBVIOUS
    <3>2. r = [FreeClient EXCEPT !.state = s, !.inBw = rates[1], !.outBw = rates[2]]
      BY <3>1
    <3> HIDE DEF r
    <3> QED BY <2>1, <3>2, FreeIs
  <2>3. client' = [client EXCEPT ![c] = r]
    BY <1>2 DEF Connects
  <2> HIDE DEF r
  <2> QED BY <2>2, <2>3 DEF Becomes
<1>3. ASSUME Announced(c)
      PROVE  \E r \in Client : /\ Becomes(c, r) /\ client[c].state = "pending"
                               /\ r.told = client[c].told /\ r.late /\ r.state = "up"
  <2> DEFINE r == [client[c] EXCEPT !.state = "up", !.late = TRUE]
  <2>1. r \in Client /\ r.told = client[c].told /\ r.late /\ r.state = "up"
    BY <1>1 DEF Client
  <2>2. client' = [client EXCEPT ![c] = r] /\ client[c].state = "pending"
    BY <1>1, <1>3 DEF Announced
  <2> HIDE DEF r
  <2> QED BY <2>1, <2>2 DEF Becomes
<1>4. ASSUME NEW n \in Amounts, DataSent(c, n)
      PROVE  \E r \in Client : /\ Becomes(c, r) /\ r.told = client[c].told
                               /\ r.able = client[c].able /\ r.late = client[c].late
                               /\ r.state = client[c].state
  <2>1. PICK m \in BandWords : m = Plus(client[c].data, n)
    <3>1. client[c].data \in Nat /\ n \in Nat
      BY PassTypes, RateAssumption
    <3>2. client[c].data + n \in Nat
      BY <3>1
    <3> QED BY <3>2, Worded DEF Plus
  <2> DEFINE r == [client[c] EXCEPT !.data = m]
  <2>2. /\ r \in Client /\ r.told = client[c].told /\ r.able = client[c].able
        /\ r.late = client[c].late /\ r.state = client[c].state
    BY <1>1 DEF Client
  <2>3. client' = [client EXCEPT ![c] = r]
    BY <1>1, <1>4, <2>1 DEF DataSent
  <2> HIDE DEF r
  <2> QED BY <2>2, <2>3 DEF Becomes
<1>5. ASSUME NEW rates \in PeerRates, Reports(c, rates)
      PROVE  \E r \in Client : /\ Becomes(c, r) /\ r.told = client[c].told
                               /\ r.able = client[c].able /\ r.late = client[c].late
                               /\ r.state = client[c].state
  <2>1. rates[1] \in BandWords /\ rates[2] \in BandWords
    BY RateAssumption DEF BandWords
  <2> DEFINE r == [client[c] EXCEPT !.inBw = rates[1], !.outBw = rates[2]]
  <2>2. /\ r \in Client /\ r.told = client[c].told /\ r.able = client[c].able
        /\ r.late = client[c].late /\ r.state = client[c].state
    BY <1>1, <2>1 DEF Client
  <2>3. client' = [client EXCEPT ![c] = r]
    BY <1>1, <1>5 DEF Reports
  <2> HIDE DEF r
  <2> QED BY <2>2, <2>3 DEF Becomes
<1>6. ASSUME CloseBegins(c) PROVE \E r \in Client : Becomes(c, r) /\ r.state = "closing"
  <2> DEFINE r == [client[c] EXCEPT !.state = "closing"]
  <2>1. r \in Client /\ r.state = "closing"
    BY <1>1 DEF Client
  <2>2. client' = [client EXCEPT ![c] = r]
    BY <1>1, <1>6 DEF CloseBegins
  <2> HIDE DEF r
  <2> QED BY <2>1, <2>2 DEF Becomes
<1>7. ASSUME Ends(c) \/ Destroys(c) PROVE Becomes(c, FreeClient)
  BY <1>7, FreeIs DEF Ends, Destroys, Becomes
<1> QED BY <1>2, <1>3, <1>4, <1>5, <1>6, <1>7

\* Something becomes of one slot.
SlotAction(c) ==
    \/ \E r \in PeerRates : Reports(c, r) \/ \E sink \in Sinks : Connects(c, r, sink)
    \/ \E n \in Amounts : DataSent(c, n)
    \/ Announced(c) \/ CloseBegins(c) \/ Ends(c) \/ Destroys(c)

\* What the actions leave alone.
LEMMA SlotActionLeaves ==
    ASSUME NEW c \in Slots, SlotAction(c)
    PROVE  /\ Step /\ UNCHANGED <<instant, throttleEpoch, inBw, outBw>>
           /\ UNCHANGED reconf \/ reconf' = TRUE
BY DEF SlotAction, Reports, Connects, DataSent, Announced, CloseBegins, Ends, Destroys

\* Each step keeps the types.
LEMMA BandTypesKept ==
    ASSUME BandTypeOK, [BandNext]_bandVars
    PROVE  BandTypeOK'
<1>1. CASE UNCHANGED bandVars
  BY <1>1 DEF bandVars, BandTypeOK
<1>2. ASSUME Step PROVE overflow' \in BOOLEAN /\ steps' \in 0 .. MaxSteps
  BY <1>2, ClockAssumption DEF Step, BandTypeOK
<1>3. CASE Throttle
  <2>1. Rounds \in Tallies /\ Rounds.fault \in BOOLEAN
    BY RoundsKeep DEF Tallies, Tally
  <2>2. CASE Rounds.fault
    BY <1>3, <2>1, <2>2 DEF Throttle, BandTypeOK
  <2>3. CASE ~Rounds.fault
    <3>1. /\ client' = [c \in Slots |-> Throttled(c, Rounds)] /\ throttleEpoch' = instant
          /\ reconf' = FALSE /\ overflow' = Rounds.fault
          /\ UNCHANGED <<instant, inBw, outBw, steps>>
      BY <1>3, <2>3 DEF Throttle
    <3>2. \A c \in Slots : Throttled(c, Rounds) \in Client
      BY <2>1, ThrottledIs
    <3>3. client' \in [Slots -> Client]
      BY <3>1, <3>2
    <3> QED BY <2>1, <3>1, <3>3 DEF BandTypeOK
  <2> QED BY <2>2, <2>3
<1>4. ASSUME NEW d \in BandSteps, BandTick(d) PROVE BandTypeOK'
  <2>1. Plus(instant, d) \in BandWords
    <3>1. instant + d \in Nat
      BY PassTypes, ClockAssumption DEF BandTypeOK
    <3> QED BY <3>1, Worded DEF Plus
  <2> QED BY <1>2, <1>4, <2>1 DEF BandTick, BandTypeOK
<1>5. ASSUME NEW n \in HostRates, SetIncoming(n) \/ SetOutgoing(n) PROVE BandTypeOK'
  <2>1. n \in BandWords
    BY RateAssumption DEF BandWords
  <2> QED BY <1>2, <1>5, <2>1 DEF SetIncoming, SetOutgoing, BandTypeOK
<1>6. ASSUME NEW c \in Slots, SlotAction(c) PROVE BandTypeOK'
  <2>1. PICK r \in Client : Becomes(c, r)
    BY <1>6, SlotActions, FreeIs DEF SlotAction
  <2>2. client' \in [Slots -> Client]
    BY <2>1 DEF Becomes, BandTypeOK
  <2>3. /\ Step /\ UNCHANGED <<instant, throttleEpoch, inBw, outBw>> /\ reconf' \in BOOLEAN
    BY <1>6, SlotActionLeaves DEF BandTypeOK
  <2> QED BY <1>2, <2>2, <2>3 DEF BandTypeOK
<1> QED BY <1>1, <1>3, <1>4, <1>5, <1>6 DEF BandNext, SlotAction

-----------------------------------------------------------------------------
(* Theorems about the pass.                                                *)

\* At first nothing is shared.
LEMMA BandInitTypes ==
    ASSUME BandInit
    PROVE  BandTypeOK
<1>1. 0 \in BandWords /\ Clock \in BandWords
  BY ClockAssumption, BandConstants DEF BandWords
<1>2. 0 \in 0 .. MaxSteps
  BY ClockAssumption
<1>3. client \in [Slots -> Client]
  BY FreeIs DEF BandInit
<1> QED BY <1>1, <1>2, <1>3 DEF BandInit, BandTypeOK

\* Every variable of the host that shares its bandwidth has its type; no limit goes beyond
\* the scale, whatever was computed for it.
THEOREM BandTypes == BandSpec => []BandTypeOK
<1>1. BandInit => BandTypeOK
  BY BandInitTypes
<1>2. BandTypeOK /\ [BandNext]_bandVars => BandTypeOK'
  BY BandTypesKept
<1> QED BY <1>1, <1>2, PTL DEF BandSpec

\* Every action is a pass or a step between two passes.
LEMMA PassOrStep ==
    ASSUME [BandNext]_bandVars
    PROVE  UNCHANGED bandVars \/ Throttle \/ Step
<1>1. \A c \in Slots : SlotAction(c) => Step
  BY SlotActionLeaves
<1>2. \A d \in BandSteps : BandTick(d) => Step
  BY DEF BandTick
<1>3. \A n \in HostRates : SetIncoming(n) \/ SetOutgoing(n) => Step
  BY DEF SetIncoming, SetOutgoing
<1> QED BY <1>1, <1>2, <1>3 DEF BandNext, SlotAction

\* What overflows depends on.
LEMMA OverflowsStay ==
    ASSUME UNCHANGED <<instant, throttleEpoch, inBw, outBw, client>>
    PROVE  Overflows' <=> Overflows
<1>1. Up' = Up
  BY DEF Up
<1>2. DataSum' = DataSum
  BY <1>1 DEF DataSum
<1>3. Elapsed' = Elapsed
  BY DEF Elapsed, Minus
<1>4. Budget' = Budget /\ ClientBandwidth' = ClientBandwidth
  BY <1>3 DEF Budget, ClientBandwidth, Times
<1> QED BY <1>2, <1>3, <1>4 DEF Overflows

\* No pass divides by zero unless a product of it does not fit a word.
THEOREM NoFaultWithoutOverflow == BandSpec => []FaultIsOverflow
<1>1. BandInit => FaultIsOverflow
  BY DEF BandInit, FaultIsOverflow
<1>2. ASSUME BandTypeOK, FaultIsOverflow, [BandNext]_bandVars
      PROVE  FaultIsOverflow'
  <2>1. CASE UNCHANGED bandVars
    <3>1. Overflows' <=> Overflows
      BY <2>1, OverflowsStay DEF bandVars
    <3> QED BY <1>2, <2>1, <3>1 DEF bandVars, FaultIsOverflow
  <2>2. CASE Step
    BY <2>2 DEF Step, FaultIsOverflow
  <2>3. CASE Throttle
    <3>1. overflow' = Rounds.fault /\ Due
      BY <2>3 DEF Throttle
    <3>2. Due /\ ~Overflows => ~Rounds.fault
      BY <1>2, RoundsKeep DEF Tallies, Exact
    <3>3. ASSUME Rounds.fault PROVE Overflows'
      <4>1. UNCHANGED <<instant, throttleEpoch, inBw, outBw, client>>
        BY <2>3, <3>3 DEF Throttle
      <4> QED BY <3>1, <3>2, <3>3, <4>1, OverflowsStay
    <3> QED BY <3>1, <3>3 DEF FaultIsOverflow
  <2> QED BY <1>2, <2>1, <2>2, <2>3, PassOrStep
<1> QED BY <1>1, <1>2, BandTypes, PTL DEF BandSpec

\* What the limits let through, in parts of the scale: the part of each that has a limit of
\* its own, and of the others what the throttle lets through.
LEMMA LetThrough ==
    ASSUME BandTypeOK, NEW r \in Tallies, NEW c \in Slots, NEW l,
           l = (IF c \notin Up THEN client[c].limit
                ELSE IF c \in r.limited THEN OwnLimit(c) ELSE r.throttle),
           NEW x, x = IF c \in Up /\ l > 1 THEN (l * client[c].data) \div BandScale ELSE 0
    PROVE  x \in Nat /\ BandScale * x <= BandScale * OwnParts(r.limited)[c]
                                         + r.throttle * Open(r.limited)[c]
<1>1. /\ r.throttle \in Nat /\ r.limited \in SUBSET Up
      /\ \A i \in r.limited : client[i].data > ClientBandwidth
  BY BandConstants DEF Tallies, Tally
<1>2. PICK S \in Nat \ {0}, d \in Nat, b \in Nat, t \in Nat :
        S = BandScale /\ d = client[c].data /\ b = ClientBandwidth /\ t = r.throttle
  BY <1>1, PassTypes, BandConstants
<1>3. PICK p \in Nat, q \in Nat :
        /\ p = OwnParts(r.limited)[c] /\ q = Open(r.limited)[c]
        /\ p = (IF c \in r.limited THEN b ELSE 0)
        /\ q = (IF c \in Up \ r.limited THEN d ELSE 0)
  BY <1>2 DEF OwnParts, Open
<1>4. S * p \in Nat /\ t * q \in Nat
  OBVIOUS
<1>5. CASE x = 0
  <2>1. BandScale * x = 0
    BY <1>2, <1>5
  <2>2. 0 <= S * p + t * q
    BY <1>4
  <2> QED BY <1>2, <1>3, <1>5, <2>1, <2>2
<1>6. CASE x # 0
  <2>1. c \in Up /\ l > 1 /\ x = (l * d) \div S
    BY <1>2, <1>6
  <2>2. CASE c \in r.limited
    <3>1. PICK n \in Nat : n = l
      BY <1>1, <2>1, <2>2, OwnLimitIs, BandConstants
    <3>2. n * d <= S * b
      BY <1>1, <1>2, <2>1, <2>2, <3>1, OwnLimitIs
    <3>3. n * d \in Nat /\ S * b \in Nat
      OBVIOUS
    <3>4. x \in Nat /\ S * x <= n * d
      BY <2>1, <3>1, <3>3, Quotient
    <3>5. S * x <= S * p
      BY <1>3, <2>2, <3>2, <3>3, <3>4
    <3> QED BY <1>2, <1>3, <1>4, <3>4, <3>5
  <2>3. CASE c \notin r.limited
    <3>1. l = t
      BY <1>2, <2>1, <2>3
    <3>2. t * d \in Nat
      OBVIOUS
    <3>3. x \in Nat /\ S * x <= t * d
      BY <2>1, <3>1, <3>2, Quotient
    <3>4. S * x <= t * q
      BY <1>3, <2>1, <2>3, <3>3
    <3> QED BY <1>2, <1>3, <1>4, <3>3, <3>4
  <2> QED BY <2>2, <2>3
<1> QED BY <1>5, <1>6

\* What the limits of a pass let through fits the outgoing bandwidth.
LEMMA PassFits ==
    ASSUME BandTypeOK, Throttle, ~Overflows, ~overflow'
    PROVE  Sum([c \in Slots |-> IF c \in Up /\ client'[c].limit > 1
                                THEN (client'[c].limit * client[c].data) \div BandScale ELSE 0],
               ClientCount) <= Budget
<1>1. Rounds \in Tallies /\ Due
  BY RoundsKeep DEF Throttle
<1>2. PICK r \in Tallies : r = Rounds
  BY <1>1
<1>3. client' = [c \in Slots |-> Throttled(c, r)]
  BY <1>2 DEF Throttle
<1>4. Exact(r) /\ r.throttle \in Nat /\ r.bw \in Nat /\ r.limited \in SUBSET Up
      /\ \A i \in r.limited : client[i].data > ClientBandwidth
  BY <1>1, PassTypes, BandConstants DEF Tallies, Tally
<1> DEFINE f == [c \in Slots |-> IF c \in Up /\ client'[c].limit > 1
                                 THEN (client'[c].limit * client[c].data) \div BandScale ELSE 0]
           p == OwnParts(r.limited)
           q == Open(r.limited)
<1>5. \A c \in 1 .. ClientCount : f[c] \in Nat
                                   /\ BandScale * f[c] <= BandScale * p[c] + r.throttle * q[c]
  <2> SUFFICES ASSUME NEW c \in Slots
               PROVE  f[c] \in Nat /\ BandScale * f[c] <= BandScale * p[c] + r.throttle * q[c]
    BY BandConstants
  <2>1. PICK l : l = client'[c].limit
    OBVIOUS
  <2>2. l = (IF c \notin Up THEN client[c].limit
             ELSE IF c \in r.limited THEN OwnLimit(c) ELSE r.throttle)
    BY <1>3, <2>1, ThrottledIs
  <2>3. f[c] = IF c \in Up /\ l > 1 THEN (l * client[c].data) \div BandScale ELSE 0
    BY <2>1
  <2> HIDE DEF f
  <2> QED BY <2>2, <2>3, LetThrough
<1>6. \A c \in 1 .. ClientCount : p[c] \in Nat /\ q[c] \in Nat
  BY <1>4, Summands
<1> SUFFICES Sum(f, ClientCount) <= Budget
  OBVIOUS
<1> HIDE DEF f, p, q
<1>7. BandScale * Sum(f, ClientCount)
        <= BandScale * Sum(p, ClientCount) + r.throttle * Sum(q, ClientCount)
  <2>1. \A c \in 1 .. ClientCount : f[c] \in Int /\ p[c] \in Int /\ q[c] \in Int
    BY <1>5, <1>6
  <2>2. BandScale \in Int /\ r.throttle \in Int /\ ClientCount \in Nat
    BY <1>4, BandConstants
  <2>3. \A c \in 1 .. ClientCount : BandScale * f[c] <= BandScale * p[c] + r.throttle * q[c]
    BY <1>5
  <2> QED BY <2>1, <2>2, <2>3, SumWeighted, Zenon
<1>8. PICK x \in Nat, y \in Nat, z \in Nat :
        x = Sum(f, ClientCount) /\ y = Sum(p, ClientCount) /\ z = Sum(q, ClientCount)
  <2>1. \A c \in 1 .. ClientCount : f[c] \in Nat
    BY <1>5
  <2>2. \A c \in 1 .. ClientCount : p[c] \in Nat
    BY <1>6
  <2>3. \A c \in 1 .. ClientCount : q[c] \in Nat
    BY <1>6
  <2> QED BY <2>1, <2>2, <2>3, SumNatural, BandConstants
<1>9. PICK S \in Nat \ {0}, t \in Nat, w \in Nat, B \in Nat :
        S = BandScale /\ t = r.throttle /\ w = r.bw /\ B = Budget
  BY <1>4, PassTypes, BandConstants
<1>10. w = B - y /\ t * z <= S * w /\ S * x <= S * y + t * z
  BY <1>4, <1>7, <1>8, <1>9 DEF Exact, p, q
<1>11. S * (y + w) = S * y + S * w /\ y + w = B
  BY <1>10, Distributes
<1>12. S * x <= S * B
  <2>1. {S * x, S * y, S * w, t * z, S * B} \subseteq Int
    OBVIOUS
  <2> QED BY <1>10, <1>11, <2>1
<1>13. x <= B
  BY <1>12, FactorsGrow
<1> QED BY <1>8, <1>9, <1>13

\* Whoever is given a limit of its own in whatever round of the pass, what all limits
\* together let through of the data of the last interval fits the outgoing bandwidth.
THEOREM RatesFit == BandSpec => RateFits
<1>1. ASSUME BandTypeOK, [BandNext]_bandVars
      PROVE  [Throttle /\ ~Overflows /\ ~overflow' /\ outBw # 0 =>
                Sum([c \in Slots |-> IF c \in Up /\ client'[c].limit > 1
                                     THEN (client'[c].limit * client[c].data) \div BandScale
                                     ELSE 0],
                    ClientCount) <= Budget]_bandVars
  BY <1>1, PassFits
<1> QED BY <1>1, BandTypes, PTL DEF BandSpec, RateFits

\* What a slot uses of the incoming bandwidth when its peer was told t while it had a.
PartOf(s, t, a) == IF s # "up" \/ t = NotTold THEN 0 ELSE IF a < t THEN a ELSE t

\* What the peers use together of the shares they were told.
ToldTo == [c \in Slots |-> PartOf(client[c].state, client[c].told, client[c].able)]

\* Only those that are or were connected have been told a share; unless the shares are to
\* be divided again, all have that were announced in time, and the shares fit.
SharesKept ==
    /\ \A c \in Slots : client[c].state \in {"free", "pending"} => client[c].told = NotTold
    /\ ~reconf => /\ \A c \in Slots : client[c].state = "up" =>
                       client[c].told # NotTold \/ client[c].late
                  /\ Sum(ToldTo, ClientCount) <= inBw

\* A part of a share is a number.
LEMMA PartsNatural ==
    ASSUME NEW r \in Client
    PROVE  PartOf(r.state, r.told, r.able) \in Nat
<1>1. r.told \in BandWords \union {NotTold} /\ r.able \in BandWords
  BY DEF Client
<1>2. BandWords \subseteq Nat
  BY DEF BandWords
<1> QED BY <1>1, <1>2 DEF PartOf

\* What becomes of one slot leaves the shares as good, if that slot is told nothing new.
LEMMA OneSlotKeeps ==
    ASSUME BandTypeOK, SharesKept, NEW c \in Slots, NEW r \in Client, Becomes(c, r),
           UNCHANGED inBw, UNCHANGED reconf \/ reconf' = TRUE,
           r.state \in {"free", "pending"} => r.told = NotTold,
           ~reconf' /\ r.state = "up" =>
             \/ r.told = NotTold /\ r.late
             \/ /\ client[c].state = "up" /\ r.told = client[c].told
                /\ r.able = client[c].able /\ r.late = client[c].late
    PROVE  SharesKept'
<1>1. \A i \in Slots : client'[i] = IF i = c THEN r ELSE client[i]
  BY DEF Becomes, BandTypeOK
<1>2. \A i \in Slots : client'[i].state \in {"free", "pending"} => client'[i].told = NotTold
  BY <1>1 DEF SharesKept
<1>3. ASSUME ~reconf'
      PROVE  /\ \A i \in Slots : client'[i].state = "up" =>
                  client'[i].told # NotTold \/ client'[i].late
             /\ Sum(ToldTo', ClientCount) <= inBw'
  <2>1. ~reconf
    BY <1>3
  <2>2. \A i \in Slots : client'[i].state = "up" => client'[i].told # NotTold \/ client'[i].late
    BY <1>1, <1>3, <2>1 DEF SharesKept
  <2>3. \A i \in 1 .. ClientCount : ToldTo[i] \in Int /\ ToldTo'[i] \in Int
    <3>1. \A i \in Slots : client[i] \in Client /\ client'[i] \in Client
      BY <1>1 DEF BandTypeOK
    <3> QED BY <3>1, PartsNatural, BandConstants DEF ToldTo
  <2>4. \A i \in 1 .. ClientCount : ToldTo'[i] <= ToldTo[i]
    <3> SUFFICES ASSUME NEW i \in Slots PROVE ToldTo'[i] <= ToldTo[i]
      BY BandConstants
    <3>1. ToldTo[i] \in Nat /\ ToldTo'[i] \in Int
      <4>1. client[i] \in Client
        BY DEF BandTypeOK
      <4> QED BY <4>1, <2>3, PartsNatural, BandConstants DEF ToldTo
    <3>2. CASE i # c
      <4>1. ToldTo'[i] = ToldTo[i]
        BY <1>1, <3>2 DEF ToldTo
      <4> QED BY <3>1, <4>1
    <3>3. CASE i = c
      <4>1. ToldTo'[i] = PartOf(r.state, r.told, r.able)
        BY <1>1, <3>3 DEF ToldTo
      <4>2. CASE r.state # "up" \/ r.told = NotTold
        <5>1. ToldTo'[i] = 0
          BY <4>1, <4>2 DEF PartOf
        <5> QED BY <3>1, <5>1
      <4>3. CASE r.state = "up" /\ r.told # NotTold
        <5>1. ToldTo'[i] = ToldTo[i]
          BY <1>3, <3>3, <4>1, <4>3 DEF ToldTo
        <5> QED BY <3>1, <5>1
      <4> QED BY <4>2, <4>3
    <3> QED BY <3>2, <3>3
  <2>5. Sum(ToldTo', ClientCount) <= Sum(ToldTo, ClientCount)
    <3> HIDE DEF ToldTo
    <3> QED BY <2>3, <2>4, SumBelow, BandConstants
  <2>6. Sum(ToldTo, ClientCount) \in Int /\ Sum(ToldTo', ClientCount) \in Int /\ inBw \in Int
    <3>1. inBw \in Nat
      BY PassTypes DEF BandTypeOK
    <3> QED BY <2>3, <3>1, SumInteger, BandConstants
  <2>7. Sum(ToldTo, ClientCount) <= inBw
    BY <2>1 DEF SharesKept
  <2> QED BY <2>2, <2>5, <2>6, <2>7
<1> QED BY <1>2, <1>3 DEF SharesKept, ToldTo

\* A pass tells each peer its share if the shares are to be divided again.
LEMMA PassShares ==
    ASSUME BandTypeOK, SharesKept, Throttle
    PROVE  SharesKept'
<1>1. Rounds \in Tallies
  BY RoundsKeep
<1>2. CASE Rounds.fault
  <2>1. UNCHANGED <<reconf, client, inBw>>
    BY <1>2 DEF Throttle
  <2> QED BY <2>1 DEF SharesKept, ToldTo, PartOf
<1>3. CASE ~Rounds.fault
  <2>1. client' = [c \in Slots |-> Throttled(c, Rounds)] /\ reconf' = FALSE /\ inBw' = inBw
    BY <1>3 DEF Throttle
  <2>2. \A c \in Slots :
          /\ client'[c] \in Client
          /\ client'[c].state = client[c].state /\ client'[c].late = client[c].late
          /\ client'[c].told = (IF c \in Up /\ reconf THEN Share ELSE client[c].told)
          /\ client'[c].able = (IF c \in Up /\ reconf THEN client[c].outBw ELSE client[c].able)
    BY <1>1, <2>1, ThrottledIs
  <2>3. \A c \in Slots : c \in Up <=> client[c].state = "up"
    BY DEF Up
  <2>4. Share # NotTold /\ Sum(Uses(Share), ClientCount) <= inBw
    BY ShareIs DEF BandWords, NotTold
  <2>5. \A c \in Slots : client'[c].state \in {"free", "pending"} => client'[c].told = NotTold
    BY <2>2, <2>3 DEF SharesKept
  <2>6. CASE reconf
    <3>1. \A c \in Slots : client'[c].state = "up" => client'[c].told # NotTold
      BY <2>2, <2>3, <2>4, <2>6
    <3>2. \A c \in 1 .. ClientCount : ToldTo'[c] = Uses(Share)[c]
      <4> SUFFICES ASSUME NEW c \in Slots PROVE ToldTo'[c] = Uses(Share)[c]
        BY BandConstants
      <4>1. ToldTo'[c] = PartOf(client'[c].state, client'[c].told, client'[c].able)
        BY DEF ToldTo
      <4>2. CASE c \in Up
        <5>1. ToldTo'[c] = PartOf("up", Share, client[c].outBw)
          BY <2>2, <2>3, <2>6, <4>1, <4>2
        <5> QED BY <2>4, <4>2, <5>1 DEF PartOf, Uses
      <4>3. CASE c \notin Up
        BY <2>2, <2>3, <4>1, <4>3 DEF PartOf, Uses
      <4> QED BY <4>2, <4>3
    <3>3. Sum(ToldTo', ClientCount) = Sum(Uses(Share), ClientCount)
      BY <3>2, SumSame, BandConstants
    <3> QED BY <2>1, <2>4, <2>5, <3>1, <3>3 DEF SharesKept
  <2>7. CASE ~reconf
    <3>1. \A c \in Slots : /\ client'[c].state = client[c].state
                           /\ client'[c].late = client[c].late
                           /\ client'[c].told = client[c].told
                           /\ client'[c].able = client[c].able
      BY <2>2, <2>7
    <3>2. ToldTo' = ToldTo
      BY <3>1 DEF ToldTo
    <3> QED BY <2>1, <2>5, <2>7, <3>1, <3>2 DEF SharesKept
  <2> QED BY <2>6, <2>7
<1> QED BY <1>2, <1>3

\* Each step keeps the shares.
LEMMA SharesKeptOn ==
    ASSUME BandTypeOK, SharesKept, [BandNext]_bandVars
    PROVE  SharesKept'
<1>1. ASSUME UNCHANGED <<reconf, client, inBw>> PROVE SharesKept'
  BY <1>1 DEF SharesKept, ToldTo, PartOf
<1>2. CASE UNCHANGED bandVars
  BY <1>1, <1>2 DEF bandVars
<1>3. ASSUME NEW d \in BandSteps, BandTick(d) PROVE SharesKept'
  BY <1>1, <1>3 DEF BandTick
<1>4. ASSUME NEW n \in HostRates, SetIncoming(n) \/ SetOutgoing(n) PROVE SharesKept'
  <2>1. reconf' = TRUE /\ client' = client
    BY <1>4 DEF SetIncoming, SetOutgoing
  <2> QED BY <2>1 DEF SharesKept
<1>5. ASSUME NEW c \in Slots, SlotAction(c) PROVE SharesKept'
  <2>1. UNCHANGED inBw /\ (UNCHANGED reconf \/ reconf' = TRUE)
    BY <1>5, SlotActionLeaves
  <2>2. client[c].state \in {"free", "pending"} => client[c].told = NotTold
    BY DEF SharesKept
  <2>3. ASSUME NEW rates \in PeerRates, NEW sink \in Sinks, Connects(c, rates, sink)
        PROVE  SharesKept'
    <3>1. PICK r \in Client : Becomes(c, r) /\ r.told = NotTold
      BY <2>3, SlotActions
    <3>2. reconf' = TRUE
      BY <2>3 DEF Connects
    <3> QED BY <2>1, <3>1, <3>2, OneSlotKeeps
  <2>4. ASSUME Announced(c) PROVE SharesKept'
    <3>1. PICK r \in Client : /\ Becomes(c, r) /\ client[c].state = "pending"
                              /\ r.told = client[c].told /\ r.late /\ r.state = "up"
      BY <2>4, SlotActions
    <3> QED BY <2>1, <2>2, <3>1, OneSlotKeeps
  <2>5. ASSUME (\E n \in Amounts : DataSent(c, n)) \/ (\E rates \in PeerRates : Reports(c, rates))
        PROVE  SharesKept'
    <3>1. PICK r \in Client : /\ Becomes(c, r) /\ r.told = client[c].told
                              /\ r.able = client[c].able /\ r.late = client[c].late
                              /\ r.state = client[c].state
      BY <2>5, SlotActions
    <3> QED BY <2>1, <2>2, <3>1, OneSlotKeeps
  <2>6. ASSUME CloseBegins(c) PROVE SharesKept'
    <3>1. PICK r \in Client : Becomes(c, r) /\ r.state = "closing"
      BY <2>6, SlotActions
    <3> QED BY <2>1, <3>1, OneSlotKeeps
  <2>7. ASSUME Ends(c) \/ Destroys(c) PROVE SharesKept'
    <3>1. Becomes(c, FreeClient)
      BY <2>7, SlotActions
    <3>2. FreeClient \in Client /\ FreeClient.state = "free" /\ FreeClient.told = NotTold
      BY FreeIs
    <3> QED BY <2>1, <3>1, <3>2, OneSlotKeeps
  <2> QED BY <1>5, <2>3, <2>4, <2>5, <2>6, <2>7 DEF SlotAction
<1> QED BY <1>2, <1>3, <1>4, <1>5, PassShares DEF BandNext, SlotAction

\* At first no peer was told a share, and none is connected.
LEMMA SharesKeptAtFirst ==
    ASSUME BandInit
    PROVE  SharesKept
<1>1. \A c \in Slots : client[c].state = "free" /\ client[c].told = NotTold
  BY FreeIs DEF BandInit
<1>2. \A c \in 1 .. ClientCount : ToldTo[c] = 0
  BY <1>1, BandConstants DEF ToldTo, PartOf
<1>3. Sum(ToldTo, ClientCount) = 0
  BY <1>2, SumZero, BandConstants
<1> QED BY <1>1, <1>3 DEF BandInit, SharesKept

\* Unless the shares are to be divided again, every connected peer was told one, and what
\* the peers then use together fits the incoming bandwidth.
THEOREM SharesAlwaysFit == BandSpec => []SharesFit
<1>1. BandInit => SharesKept
  BY SharesKeptAtFirst
<1>2. BandTypeOK /\ SharesKept /\ [BandNext]_bandVars => SharesKept'
  BY SharesKeptOn
<1>3. SharesKept => SharesFit
  <2> DEFINE f == [c \in Slots |-> IF c \notin Up \/ client[c].told = NotTold THEN 0
                                   ELSE IF client[c].able < client[c].told THEN client[c].able
                                   ELSE client[c].told]
  <2>1. f = ToldTo
    <3>1. \A c \in Slots : c \notin Up <=> client[c].state # "up"
      BY DEF Up
    <3>2. \A c \in Slots : f[c] = PartOf(client[c].state, client[c].told, client[c].able)
      BY <3>1, Zenon DEF PartOf
    <3> QED BY <3>2 DEF ToldTo
  <2> HIDE DEF f
  <2> SUFFICES ASSUME SharesKept PROVE SharesFit
    OBVIOUS
  <2>2. ~reconf => /\ \A c \in Up : client[c].told # NotTold \/ client[c].late
                   /\ Sum(f, ClientCount) <= inBw
    BY <2>1 DEF SharesKept, Up
  <2> QED BY <2>2 DEF SharesFit, f
<1> QED BY <1>1, <1>2, <1>3, BandTypes, PTL DEF BandSpec

=============================================================================
