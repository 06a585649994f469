------------------------------ MODULE LzfProofs ------------------------------
(***************************************************************************)
(* LZF loses nothing: for every text, every content of the hash table and  *)
(* every width of the fields, inflate gives back what deflate was given.   *)
(* The argument is about the marks of a stream, the places where a control *)
(* byte stands: each is a pair <<i, j>>, that the bytes of the stream      *)
(* before i stand for the bytes of the text before j.                      *)
(***************************************************************************)
EXTENDS Lzf, TLAPS, NaturalsInduction, WellFoundedInduction, SequenceTheorems

-----------------------------------------------------------------------------
(* Arithmetic and induction.                                               *)

\* Induction over the natural numbers, for a set instead of a predicate.
LEMMA SetInduction ==
    ASSUME NEW T \in SUBSET Nat, 0 \in T, \A n \in T : n + 1 \in T
    PROVE  T = Nat
<1> DEFINE U == Nat \ T
<1>1. SUFFICES ASSUME U # {} PROVE FALSE
  OBVIOUS
<1>2. IsWellFoundedOn(OpToRel(<, Nat), Nat)
  BY NatLessThanWellFounded
<1>3. \E x \in U : \A y \in U : ~ (<<y, x>> \in OpToRel(<, Nat))
  BY <1>1, <1>2, WFMin
<1>4. PICK x \in U : \A y \in U : ~(y < x)
  BY <1>3 DEF OpToRel
<1>5. x # 0 /\ x - 1 \in Nat /\ x - 1 \in T
  BY <1>4
<1> QED BY <1>5

\* A set of natural numbers that is not empty has a least one.
LEMMA LeastOne ==
    ASSUME NEW U \in SUBSET Nat, U # {}
    PROVE  \E x \in U : \A y \in U : ~(y < x)
<1>1. IsWellFoundedOn(OpToRel(<, Nat), Nat)
  BY NatLessThanWellFounded
<1>2. \E x \in U : \A y \in U : ~ (<<y, x>> \in OpToRel(<, Nat))
  BY <1>1, WFMin
<1> QED BY <1>2 DEF OpToRel

\* Quotient and remainder are determined by the sum they make.
LEMMA DivisionUnique ==
    ASSUME NEW b \in Nat \ {0}, NEW x \in Int, NEW q \in Int, NEW r \in 0..(b - 1),
           x = q * b + r
    PROVE  x % b = r /\ x \div b = q
<1> DEFINE k == x \div b
           m == x % b
<1>1. k \in Int /\ m \in 0..(b - 1) /\ x = k * b + m
  BY SMT
<1> HIDE DEF k, m
<1>2. (k - q) * b = r - m
  BY <1>1, SMT
<1>3. ~(k - q >= 1) /\ ~(k - q <= -1)
  <2>1. ASSUME k - q >= 1 PROVE FALSE
    <3>1. (k - q) * b >= b
      BY <1>1, <2>1, SMT
    <3> QED BY <1>1, <1>2, <3>1, SMT
  <2>2. ASSUME k - q <= -1 PROVE FALSE
    <3>1. (k - q) * b <= -b
      BY <1>1, <2>2, SMT
    <3> QED BY <1>1, <1>2, <3>1, SMT
  <2> QED BY <2>1, <2>2
<1>4. k = q
  BY <1>1, <1>3, SMT
<1>5. r = m
  BY <1>1, <1>2, <1>4, SMT
<1> QED BY <1>4, <1>5 DEF k, m

\* How the parameters compare: a byte holds a literal's length and a reference's.
LEMMA Widths ==
    /\ Low \in Nat \ {0} /\ Escape \in Nat \ {0} /\ Byte \in Nat
    /\ Low < Byte /\ Escape < Byte /\ MaxReference \in Nat /\ MaxReference > 3
    /\ MaxOffset \in Nat /\ MaxLiteral = Low
    /\ Byte = Escape * Low + Low
<1>1. Low \in Nat \ {0} /\ Escape \in Nat \ {0} /\ Byte = (Escape + 1) * Low
  BY LzfAssumption
<1>2. Byte = Escape * Low + Low
  BY <1>1, SMT
<1>3. Escape * Low >= Escape /\ Escape * Low >= Low /\ Escape * Low \in Nat
  BY <1>1, SMT
<1>4. Low * Byte \in Nat
  BY <1>1, <1>2, <1>3, SMT
<1> DEFINE e == Escape * Low
<1>5. e >= Escape /\ e >= Low /\ e \in Nat /\ Byte = e + Low
  BY <1>2, <1>3
<1> HIDE DEF e
<1>6. Byte \in Nat /\ Low < Byte /\ Escape < Byte /\ Byte + Escape + 1 > 3
  BY <1>1, <1>5, SMT
<1> QED BY <1>1, <1>2, <1>4, <1>6 DEF MaxReference, MaxOffset, MaxLiteral

Bytes == 0..(Byte - 1)

\* Inflate recovers length and offset of a reference from the bytes that deflate
\* writes for it.
LEMMA ReferenceReads ==
    ASSUME NEW off \in 0..(MaxOffset - 1), NEW len \in 1..(MaxReference - 2)
    PROVE  LET e == Reference(off, len)
               long == len >= Escape
           IN  /\ e \in Seq(Bytes) /\ Len(e) = IF long THEN 3 ELSE 2
               /\ e[1] >= Low /\ e[1] % Low = off \div Byte
               /\ e[1] \div Low = IF long THEN Escape ELSE len
               /\ long => e[2] = len - Escape
               /\ e[Len(e)] = off % Byte
<1> DEFINE h == off \div Byte
           l == off % Byte
           k == IF len >= Escape THEN Escape ELSE len
           x == h + k * Low
<1>0. /\ Low \in Nat \ {0} /\ Escape \in Nat \ {0} /\ Byte \in Nat \ {0} /\ Byte > Low
      /\ Byte = Escape * Low + Low /\ MaxReference \in Nat
  BY Widths, SMT
<1>1. h \in 0..(Low - 1) /\ l \in Bytes
  <2>1. off < Low * Byte /\ off \in Nat
    BY <1>0, Widths, SMT DEF MaxOffset
  <2>2. off = h * Byte + l /\ h \in Int /\ l \in 0..(Byte - 1)
    BY <1>0, <2>1, SMT
  <2> HIDE DEF h, l
  <2>3. ~(h >= Low)
    <3> SUFFICES ASSUME h >= Low PROVE FALSE
      OBVIOUS
    <3>1. h * Byte >= Low * Byte
      BY <1>0, <2>2, SMT
    <3> QED BY <1>0, <2>1, <2>2, <3>1, SMT
  <2>4. ~(h <= -1)
    <3> SUFFICES ASSUME h <= -1 PROVE FALSE
      OBVIOUS
    <3>1. h * Byte <= -Byte
      BY <1>0, <2>2, SMT
    <3> QED BY <1>0, <2>1, <2>2, <3>1, SMT
  <2> QED BY <1>0, <2>2, <2>3, <2>4, SMT DEF Bytes
<1>2. k \in 1..Escape
  BY <1>0, SMT
<1> HIDE DEF h, l, k
<1>3. x \in Bytes /\ x >= Low /\ x % Byte = x
  <2>1. k * Low <= Escape * Low /\ k * Low >= Low /\ k * Low \in Nat
    BY <1>0, <1>2, SMT
  <2> DEFINE y == k * Low
             z == Escape * Low
  <2>2. y <= z /\ y >= Low /\ y \in Nat /\ z \in Int /\ Byte = z + Low /\ x = h + y
    BY <1>0, <2>1
  <2> HIDE DEF y, z, x
  <2>3. x \in 0..(Byte - 1) /\ x >= Low
    BY <1>0, <1>1, <2>2, SMT
  <2>4. x = 0 * Byte + x /\ x \in Int
    BY <1>0, <2>3, SMT
  <2>5. x % Byte = x
    BY <1>0, <2>3, <2>4, DivisionUnique, 0 \in Int
  <2> QED BY <2>3, <2>5 DEF Bytes
<1>4. x % Low = h /\ x \div Low = k
  <2>1. x = k * Low + h /\ x \in Int /\ k \in Int
    BY <1>0, <1>1, <1>2, SMT
  <2> HIDE DEF x
  <2> QED BY <1>0, <1>1, <2>1, DivisionUnique
<1> HIDE DEF x
<1>5. CASE len < Escape
  <2>1. Reference(off, len) = <<x, l>>
    <3>1. k = len
      BY <1>0, <1>5, SMT DEF k
    <3>2. x = h + len * Low
      BY <3>1 DEF x
    <3> QED BY <1>3, <1>5, <3>2 DEF Reference, h, l
  <2>2. x \in Bytes /\ l \in Bytes
    BY <1>1, <1>3
  <2>3. ~(len >= Escape) /\ k = len
    BY <1>0, <1>5, SMT DEF k
  <2> QED BY <1>3, <1>4, <2>1, <2>2, <2>3 DEF h, l
<1>6. CASE ~(len < Escape)
  <2>1. k = Escape /\ len >= Escape
    BY <1>0, <1>6, SMT DEF k
  <2>2. (len - Escape) % Byte = len - Escape /\ len - Escape \in Bytes
    <3>1. len - Escape \in 0..(Byte - 1) /\ len - Escape \in Int
      BY <1>0, <2>1, SMT DEF MaxReference
    <3>2. len - Escape = 0 * Byte + (len - Escape)
      BY <1>0, <3>1, SMT
    <3> QED BY <1>0, <3>1, <3>2, DivisionUnique, 0 \in Int DEF Bytes
  <2>3. Reference(off, len) = <<x, len - Escape, l>>
    <3>1. x = h + Escape * Low
      BY <2>1 DEF x
    <3> QED BY <1>3, <1>6, <2>2, <3>1 DEF Reference, h, l
  <2> DEFINE z == len - Escape
  <2>4. Reference(off, len) = <<x, z, l>> /\ z \in Bytes /\ x \in Bytes /\ l \in Bytes
    BY <1>1, <1>3, <2>2, <2>3
  <2> HIDE DEF z
  <2>5. <<x, z, l>> \in Seq(Bytes) /\ Len(<<x, z, l>>) = 3
    BY <2>4
  <2> QED BY <1>3, <1>4, <2>1, <2>4, <2>5 DEF h, l, z
<1> QED BY <1>5, <1>6

-----------------------------------------------------------------------------
(* What the helpers compute.                                               *)

\* The function that Copy defines by recursion: what the first k steps make.
Copies(f, out, r, n) ==
    f = [k \in 0 .. n |->
           IF k = 0 THEN out ELSE Append(f[k - 1], At(f[k - 1], r + k - 1))]

\* The recursion of Copy has a solution, and Copy is its last value.
LEMMA CopyDefined ==
    ASSUME NEW out, NEW r, NEW n \in Nat
    PROVE  \E f : Copies(f, out, r, n) /\ Copy(out, r, n) = f[n]
<1> DEFINE T == {m \in Nat : \E f : Copies(f, out, r, m)}
<1>1. T = Nat
  <2>1. 0 \in T
    <3> DEFINE f == [k \in 0 .. 0 |-> out]
    <3>1. Copies(f, out, r, 0)
      BY DEF Copies
    <3> QED BY <3>1
  <2>2. ASSUME NEW m \in T PROVE m + 1 \in T
    <3>1. PICK f : Copies(f, out, r, m)
      OBVIOUS
    <3> DEFINE g == [k \in 0 .. (m + 1) |->
                       IF k <= m THEN f[k] ELSE Append(f[m], At(f[m], r + k - 1))]
    <3>2. \A k \in 0 .. m :
            f[k] = IF k = 0 THEN out ELSE Append(f[k - 1], At(f[k - 1], r + k - 1))
      BY <3>1 DEF Copies
    <3>3. \A k \in 0 .. (m + 1) :
            g[k] = IF k = 0 THEN out ELSE Append(g[k - 1], At(g[k - 1], r + k - 1))
      BY <3>2
    <3>4. Copies(g, out, r, m + 1)
      BY <3>3, Zenon DEF Copies
    <3> QED BY <3>4
  <2> HIDE DEF T
  <2> QED BY <2>1, <2>2, SetInduction DEF T
<1>2. \E f : Copies(f, out, r, n)
  BY <1>1
<1>3. Copies(CHOOSE f : Copies(f, out, r, n), out, r, n)
  BY <1>2
<1>4. Copy(out, r, n) = (CHOOSE f : Copies(f, out, r, n))[n]
  BY DEF Copy, Copies
<1> QED BY <1>3, <1>4

\* The beginning of a text that out is.
Begins(out, text) ==
    /\ Len(out) <= Len(text)
    /\ \A k \in 1 .. Len(out) : out[k] = text[k]

\* It stays one when the next byte of the text is appended.
LEMMA BeginsLonger ==
    ASSUME NEW text \in Seq(Nat), NEW o \in Seq(Nat), Begins(o, text),
           Len(o) < Len(text), NEW b, b = text[Len(o) + 1]
    PROVE  /\ Append(o, b) \in Seq(Nat) /\ Len(Append(o, b)) = Len(o) + 1
           /\ Begins(Append(o, b), text)
<1>1. /\ Len(o) \in Nat /\ Len(text) \in Nat
      /\ \A k \in 1 .. Len(text) : text[k] \in Nat
  OBVIOUS
<1>2. b \in Nat
  BY <1>1
<1>3. /\ Append(o, b) \in Seq(Nat) /\ Len(Append(o, b)) = Len(o) + 1
      /\ \A i \in 1 .. Len(o) : Append(o, b)[i] = o[i]
      /\ Append(o, b)[Len(o) + 1] = b
  BY <1>2, AppendProperties
<1> DEFINE a == Append(o, b)
<1>4. /\ Len(a) = Len(o) + 1 /\ a[Len(o) + 1] = b
      /\ \A i \in 1 .. Len(o) : a[i] = o[i]
  BY <1>3
<1> HIDE DEF a
<1>5. ASSUME NEW i \in 1 .. (Len(o) + 1) PROVE a[i] = text[i]
  <2>1. i \in 1 .. Len(o) \/ i = Len(o) + 1
    BY <1>1
  <2> QED BY <1>4, <2>1 DEF Begins
<1>6. Begins(a, text)
  BY <1>1, <1>4, <1>5 DEF Begins
<1> QED BY <1>3, <1>6 DEF a

\* A copy that may overlap its origin continues a text that repeats itself.
LEMMA CopyContinues ==
    ASSUME NEW text \in Seq(Nat), NEW out \in Seq(Nat), Begins(out, text),
           NEW r \in 0 .. (Len(out) - 1), NEW n \in Nat, Len(out) + n <= Len(text),
           \A k \in 0 .. (n - 1) : At(text, r + k) = At(text, Len(out) + k)
    PROVE  /\ Copy(out, r, n) \in Seq(Nat) /\ Len(Copy(out, r, n)) = Len(out) + n
           /\ Begins(Copy(out, r, n), text)
<1>0. /\ Len(text) \in Nat /\ Len(out) \in Nat
      /\ \A k \in 1 .. Len(text) : text[k] \in Nat
  OBVIOUS
<1>1. PICK f : Copies(f, out, r, n) /\ Copy(out, r, n) = f[n]
  BY CopyDefined
<1>2. \A k \in 0 .. n :
        f[k] = IF k = 0 THEN out ELSE Append(f[k - 1], At(f[k - 1], r + k - 1))
  BY <1>1 DEF Copies
<1> DEFINE Good(o, k) == o \in Seq(Nat) /\ Len(o) = Len(out) + k /\ Begins(o, text)
           T == {k \in Nat : k <= n => Good(f[k], k)}
<1>3. T = Nat
  <2>1. 0 \in T
    BY <1>2
  <2>2. ASSUME NEW k \in T PROVE k + 1 \in T
    <3> SUFFICES ASSUME k + 1 <= n PROVE Good(f[k + 1], k + 1)
      OBVIOUS
    <3>0. k \in Nat /\ k + 1 <= n /\ k <= n /\ n \in Nat /\ r \in 0 .. (Len(out) - 1)
      OBVIOUS
    <3> DEFINE o == f[k]
               b == At(o, r + k)
    <3>1. /\ o \in Seq(Nat) /\ Len(o) = Len(out) + k /\ Len(o) \in Nat
          /\ \A i \in 1 .. Len(o) : o[i] = text[i]
      BY <1>0 DEF Begins
    <3>2. f[k + 1] = Append(o, b)
      <4>1. k + 1 \in 0 .. n /\ k + 1 # 0 /\ (k + 1) - 1 = k /\ r + (k + 1) - 1 = r + k
        OBVIOUS
      <4>2. f[k + 1] = Append(f[(k + 1) - 1], At(f[(k + 1) - 1], r + (k + 1) - 1))
        BY <1>2, <4>1
      <4> QED BY <4>1, <4>2
    <3>b. b = At(o, r + k)
      OBVIOUS
    <3> HIDE DEF o, b, T
    <3>3. Len(o) < Len(text) /\ b = text[Len(o) + 1]
      <4>1. /\ Len(o) = Len(out) + k /\ Len(o) \in Nat /\ Len(out) \in Nat /\ Len(text) \in Nat
            /\ k \in Nat /\ k + 1 <= n /\ n \in Nat /\ r \in Nat /\ r < Len(out)
            /\ Len(out) + n <= Len(text)
        BY <1>0, <3>0, <3>1
      <4>2. r + k + 1 \in 1 .. Len(o) /\ Len(o) < Len(text) /\ k \in 0 .. (n - 1)
        BY <4>1
      <4>3. b = text[r + k + 1]
        BY <3>b, <3>1, <4>2 DEF At
      <4>4. text[r + k + 1] = text[Len(out) + k + 1]
        BY <4>2 DEF At
      <4> QED BY <4>1, <4>2, <4>3, <4>4
    <3>4. Begins(o, text)
      BY <1>0, <3>1, <3>3 DEF Begins
    <3>5. /\ Append(o, b) \in Seq(Nat) /\ Len(Append(o, b)) = Len(o) + 1
          /\ Begins(Append(o, b), text)
      BY <3>1, <3>3, <3>4, BeginsLonger
    <3>6. Len(Append(o, b)) = Len(out) + (k + 1)
      BY <1>0, <3>0, <3>1, <3>5
    <3> QED BY <3>2, <3>5, <3>6
  <2> HIDE DEF T
  <2> QED BY <2>1, <2>2, SetInduction DEF T
<1>4. n \in T
  BY <1>3
<1> QED BY <1>1, <1>4

\* There is a match as long as a reference may be, or one that ends before.
LEMMA MatchExists ==
    ASSUME NEW text \in Texts, NEW i \in Nat, NEW r \in 1 .. (i - 1), Repeats(text, r, i)
    PROVE  LET n == Matched(text, r, i)
           IN  /\ n \in 3 .. MaxReference /\ n \in 3 .. (Len(text) - i - 2)
               /\ \A k \in 0 .. (n - 1) : At(text, r + k) = At(text, i + k)
<1> DEFINE most == Minimum(Len(text) - i - 2, MaxReference)
           Same(n) == \A k \in 0 .. (n - 1) : At(text, r + k) = At(text, i + k)
           Ends(n) == n = most \/ At(text, r + n) # At(text, i + n)
<1>1. Len(text) \in Nat
  BY LzfAssumption
<1>2. most \in Nat /\ most >= 3 /\ most <= Len(text) - i - 2 /\ most <= MaxReference
  BY <1>1, Widths, SMT DEF Minimum, Repeats
<1> HIDE DEF most
<1> DEFINE U == {n \in Nat : n >= 3 /\ n <= most /\ Ends(n)}
<1>3. PICK n \in U : \A y \in U : ~(y < n)
  <2>1. most \in U
    BY <1>2
  <2> HIDE DEF U
  <2>2. U # {} /\ U \in SUBSET Nat
    BY <2>1 DEF U
  <2> QED BY <2>2, LeastOne
<1>4. Same(n)
  <2> SUFFICES ASSUME NEW k \in 0 .. (n - 1) PROVE At(text, r + k) = At(text, i + k)
    OBVIOUS
  <2>1. n \in Nat /\ n <= most
    BY <1>3
  <2>2. CASE k <= 2
    BY <2>1, <2>2 DEF Repeats
  <2>3. CASE k > 2
    <3>1. k \notin U /\ k \in Nat /\ k >= 3 /\ k <= most
      BY <1>2, <1>3, <2>1, <2>3
    <3> QED BY <3>1
  <2> QED BY <2>1, <2>2, <2>3
<1>5. n \in 3 .. most
  BY <1>3, <1>2
<1>6. \E m \in 3 .. most : Same(m) /\ Ends(m)
  BY <1>3, <1>4, <1>5
<1>7. Matched(text, r, i) = CHOOSE m \in 3 .. most : Same(m) /\ Ends(m)
  BY DEF Matched, most
<1> DEFINE m == Matched(text, r, i)
<1>8. m \in 3 .. most /\ Same(m)
  <2> HIDE DEF Same, Ends
  <2> QED BY <1>6, <1>7, Zenon
<1> HIDE DEF m
<1>9. m \in 3 .. MaxReference /\ m \in 3 .. (Len(text) - i - 2)
  BY <1>1, <1>2, <1>8, Widths
<1> QED BY <1>8, <1>9 DEF m

-----------------------------------------------------------------------------
(* The marks of a stream.                                                  *)

\* A literal of v + 1 bytes stands at i, and holds the bytes of the text at j.
LiteralAt(s, i, t, j, v) ==
    /\ At(s, i) = v
    /\ \A k \in 0 .. v : At(s, i + 1 + k) = At(t, j + k)

\* A reference stands at i; the n bytes of the text at j repeat those it names.
ReferenceAt(s, i, t, j, off, n) ==
    /\ off < j
    /\ \A k \in 1 .. Len(Reference(off, n - 2)) : s[i + k] = Reference(off, n - 2)[k]
    /\ \A k \in 0 .. (n - 1) : At(t, j - off - 1 + k) = At(t, j + k)

\* From the mark <<i, j>> to the next one.
Chunk(s, i, t, j, i2, j2) ==
    \/ \E v \in 0 .. (Low - 1) :
         LiteralAt(s, i, t, j, v) /\ i2 = i + v + 2 /\ j2 = j + v + 1
    \/ \E off \in 0 .. (MaxOffset - 1), n \in 3 .. MaxReference :
         /\ ReferenceAt(s, i, t, j, off, n)
         /\ i2 = i + Len(Reference(off, n - 2)) /\ j2 = j + n

\* The marks P of a stream of n bytes that stands for m bytes of the text.
Parsed(P, s, t, n, m) ==
    /\ P \subseteq (0 .. n) \X (0 .. m)
    /\ <<0, 0>> \in P /\ <<n, m>> \in P
    /\ \A i \in 0 .. n, j \in 0 .. m :
         <<i, j>> \in P =>
           \/ i = n /\ j = m
           \/ \E i2 \in 0 .. n, j2 \in 0 .. m :
                <<i2, j2>> \in P /\ Chunk(s, i, t, j, i2, j2)

\* A chunk stays one when the stream grows, and it stands for something.
LEMMA ChunkLonger ==
    ASSUME NEW s \in Seq(Nat), NEW e \in Seq(Nat), NEW t,
           NEW i \in Nat, NEW j \in Nat, NEW i2 \in 0 .. Len(s), NEW j2 \in Nat,
           Chunk(s, i, t, j, i2, j2)
    PROVE  Chunk(s \o e, i, t, j, i2, j2) /\ i < i2 /\ j < j2
<1> DEFINE q == s \o e
<1>1. Len(s) \in Nat /\ \A k \in 1 .. Len(s) : q[k] = s[k]
  <2>1. \A k \in 1 .. (Len(s) + Len(e)) : q[k] = IF k <= Len(s) THEN s[k] ELSE e[k - Len(s)]
    BY ConcatProperties
  <2>2. Len(s) \in Nat /\ Len(e) \in Nat
    OBVIOUS
  <2> HIDE DEF q
  <2>3. ASSUME NEW k \in 1 .. Len(s) PROVE q[k] = s[k]
    <3>1. k \in 1 .. (Len(s) + Len(e)) /\ k <= Len(s)
      BY <2>2
    <3> QED BY <2>1, <3>1
  <2> QED BY <2>2, <2>3
<1> HIDE DEF q
<1>2. ASSUME NEW v \in 0 .. (Low - 1),
             LiteralAt(s, i, t, j, v) /\ i2 = i + v + 2 /\ j2 = j + v + 1
      PROVE  Chunk(q, i, t, j, i2, j2) /\ i < i2 /\ j < j2
  <2>1. v \in Nat /\ i2 <= Len(s) /\ i2 = i + v + 2 /\ Len(s) \in Nat
    BY Widths, <1>1, <1>2
  <2>2. At(q, i) = v
    <3>1. i + 1 \in 1 .. Len(s)
      BY <1>1, <1>2, <2>1
    <3> QED BY <1>1, <1>2, <3>1 DEF LiteralAt, At
  <2>3. ASSUME NEW k \in 0 .. v PROVE At(q, i + 1 + k) = At(t, j + k)
    <3>1. i + 1 + k + 1 \in 1 .. Len(s)
      BY <2>1
    <3>2. At(q, i + 1 + k) = At(s, i + 1 + k)
      BY <1>1, <3>1 DEF At
    <3> QED BY <1>2, <3>2 DEF LiteralAt
  <2>4. LiteralAt(q, i, t, j, v)
    BY <2>2, <2>3 DEF LiteralAt
  <2>5. i < i2 /\ j < j2
    BY <1>2, <2>1
  <2> QED BY <1>2, <2>4, <2>5, Zenon DEF Chunk
<1>3. ASSUME NEW off \in 0 .. (MaxOffset - 1), NEW n \in 3 .. MaxReference,
             ReferenceAt(s, i, t, j, off, n),
             i2 = i + Len(Reference(off, n - 2)), j2 = j + n
      PROVE  Chunk(q, i, t, j, i2, j2) /\ i < i2 /\ j < j2
  <2> DEFINE e1 == Reference(off, n - 2)
  <2>1. Len(e1) \in {2, 3}
    <3>1. n - 2 \in 1 .. (MaxReference - 2)
      BY Widths
    <3> QED BY <3>1, ReferenceReads
  <2>2. ASSUME NEW k \in 1 .. Len(e1) PROVE q[i + k] = e1[k]
    <3>1. s[i + k] = e1[k]
      BY <1>3 DEF ReferenceAt
    <3> HIDE DEF e1
    <3>2. i + k \in 1 .. Len(s)
      <4>1. i2 = i + Len(e1)
        BY <1>3 DEF e1
      <4> QED BY <1>1, <2>1, <4>1
    <3> QED BY <1>1, <3>1, <3>2
  <2>3. ReferenceAt(q, i, t, j, off, n)
    BY <1>3, <2>2 DEF ReferenceAt
  <2>4. i < i2 /\ j < j2
    <3>1. i2 = i + Len(e1) /\ j2 = j + n /\ n >= 3 /\ n \in Int
      BY <1>3
    <3> DEFINE l == Len(e1)
    <3>2. i2 = i + l /\ l \in {2, 3}
      BY <2>1, <3>1, Zenon
    <3> HIDE DEF l, e1
    <3>3. j2 > j
      BY <3>1
    <3> QED BY <3>2, <3>3
  <2> QED BY <1>3, <2>3, <2>4, Zenon DEF Chunk
<1>4. Chunk(q, i, t, j, i2, j2) /\ i < i2 /\ j < j2
  BY <1>2, <1>3 DEF Chunk
<1> QED BY <1>4 DEF q

\* The stream keeps its marks, and gets another, when a chunk is written.
LEMMA ParsedLonger ==
    ASSUME NEW s \in Seq(Nat), NEW e \in Seq(Nat), NEW t, NEW P, NEW m \in Nat, NEW m2 \in Nat,
           Parsed(P, s, t, Len(s), m), m < m2,
           Chunk(s \o e, Len(s), t, m, Len(s) + Len(e), m2)
    PROVE  \E Q : Parsed(Q, s \o e, t, Len(s) + Len(e), m2)
<1> DEFINE q == s \o e
           n == Len(s)
           n2 == Len(s) + Len(e)
           Q == P \union {<<n2, m2>>}
<1>1. n \in Nat /\ n2 \in Nat /\ n <= n2 /\ m \in 0 .. m2 /\ n2 \in 0 .. n2 /\ m2 \in 0 .. m2
      /\ n \in 0 .. n2
  <2>1. Len(s) \in Nat /\ Len(e) \in Nat
    OBVIOUS
  <2> QED BY <2>1
<1>2. Q \subseteq (0 .. n2) \X (0 .. m2) /\ <<0, 0>> \in Q /\ <<n2, m2>> \in Q
  <2>1. P \subseteq (0 .. n) \X (0 .. m) /\ <<0, 0>> \in P
    BY DEF Parsed
  <2> HIDE DEF n, n2
  <2> QED BY <1>1, <2>1
<1>3. ASSUME NEW i \in 0 .. n2, NEW j \in 0 .. m2, <<i, j>> \in Q
      PROVE  \/ i = n2 /\ j = m2
             \/ \E i2 \in 0 .. n2, j2 \in 0 .. m2 :
                  <<i2, j2>> \in Q /\ Chunk(q, i, t, j, i2, j2)
  <2>1. CASE i = n2 /\ j = m2
    BY <2>1
  <2>2. CASE ~(i = n2 /\ j = m2)
    <3>1. <<i, j>> \in P
      BY <1>3, <2>2
    <3>2. i \in 0 .. n /\ j \in 0 .. m
      BY <3>1 DEF Parsed
    <3>3. CASE i = n /\ j = m
      <4>1. Chunk(q, i, t, j, n2, m2) /\ <<n2, m2>> \in Q
        BY <3>3
      <4> HIDE DEF Q, n, n2, q
      <4> QED BY <1>1, <4>1
    <3>4. CASE ~(i = n /\ j = m)
      <4>1. PICK i2 \in 0 .. n, j2 \in 0 .. m :
                   <<i2, j2>> \in P /\ Chunk(s, i, t, j, i2, j2)
        BY <3>1, <3>2, <3>4 DEF Parsed
      <4>2. i \in Nat /\ j \in Nat /\ j2 \in Nat /\ i2 \in 0 .. n2 /\ j2 \in 0 .. m2
        <5> HIDE DEF n, n2
        <5> QED BY <1>1, <3>2
      <4>3. Chunk(q, i, t, j, i2, j2)
        BY <4>1, <4>2, ChunkLonger
      <4> QED BY <4>1, <4>2, <4>3
    <3> QED BY <3>3, <3>4
  <2> QED BY <2>1, <2>2
<1> HIDE DEF Q
<1>4. Parsed(Q, q, t, n2, m2)
  BY <1>2, <1>3 DEF Parsed
<1> QED BY <1>4

\* Where the second part of a concatenation is.
LEMMA ConcatAfter ==
    ASSUME NEW s \in Seq(Nat), NEW e \in Seq(Nat)
    PROVE  /\ s \o e \in Seq(Nat) /\ Len(s \o e) = Len(s) + Len(e)
           /\ \A k \in 1 .. Len(e) : (s \o e)[Len(s) + k] = e[k]
           /\ \A k \in 1 .. Len(s) : (s \o e)[k] = s[k]
<1> DEFINE q == s \o e
<1>1. /\ q \in Seq(Nat) /\ Len(q) = Len(s) + Len(e)
      /\ \A k \in 1 .. (Len(s) + Len(e)) : q[k] = IF k <= Len(s) THEN s[k] ELSE e[k - Len(s)]
  BY ConcatProperties
<1>2. Len(s) \in Nat /\ Len(e) \in Nat
  OBVIOUS
<1> HIDE DEF q
<1>3. ASSUME NEW k \in 1 .. Len(e) PROVE q[Len(s) + k] = e[k]
  <2>1. Len(s) + k \in 1 .. (Len(s) + Len(e)) /\ ~(Len(s) + k <= Len(s)) /\ Len(s) + k - Len(s) = k
    BY <1>2
  <2> QED BY <1>1, <2>1
<1>4. ASSUME NEW k \in 1 .. Len(s) PROVE q[k] = s[k]
  <2>1. k \in 1 .. (Len(s) + Len(e)) /\ k <= Len(s)
    BY <1>2
  <2> QED BY <1>1, <2>1
<1> QED BY <1>1, <1>3, <1>4 DEF q

\* What deflate writes of a pending literal.
LEMMA FlushWrites ==
    ASSUME NEW t \in Seq(Nat), NEW l \in 1 .. MaxLiteral, NEW i \in l .. Len(t)
    PROVE  LET e == Flush(t, i, l)
           IN  /\ e \in Seq(Nat) /\ Len(e) = l + 1 /\ e[1] = l - 1
               /\ \A k \in 0 .. (l - 1) : e[k + 2] = At(t, i - l + k)
<1> DEFINE b == SubSeq(t, i - l + 1, i)
           a == <<l - 1>>
<1>1. /\ l \in Nat /\ l >= 1 /\ l <= Low /\ i \in Nat /\ i >= l /\ i <= Len(t) /\ Len(t) \in Nat
      /\ Low \in Nat /\ Byte \in Nat \ {0} /\ Low < Byte
  BY Widths
<1>2. (l - 1) % Byte = l - 1 /\ l - 1 \in Nat
  <2>1. l - 1 \in 0 .. (Byte - 1) /\ l - 1 \in Int /\ l - 1 = 0 * Byte + (l - 1)
    BY <1>1
  <2>2. (l - 1) % Byte = l - 1
    BY <1>1, <2>1, DivisionUnique, 0 \in Int
  <2> QED BY <1>1, <2>2
<1>3. Flush(t, i, l) = a \o b
  <2>1. l # 0
    BY <1>1
  <2> QED BY <1>2, <2>1 DEF Flush, Slice
<1>4. b \in Seq(Nat) /\ Len(b) = l /\ \A k \in 1 .. l : b[k] = t[i - l + k]
  <2>1. \A k \in (i - l + 1) .. i : t[k] \in Nat
    <3>1. \A k \in (i - l + 1) .. i : k \in 1 .. Len(t)
      BY <1>1
    <3> QED BY <3>1
  <2>2. i - l + 1 \in Int /\ i \in Int
    BY <1>1
  <2>3. /\ b \in Seq(Nat)
        /\ Len(b) = IF i - l + 1 <= i THEN i - (i - l + 1) + 1 ELSE 0
        /\ \A k \in 1 .. (i - (i - l + 1) + 1) : b[k] = t[(i - l + 1) + k - 1]
    BY <2>1, <2>2, SubSeqProperties
  <2> HIDE DEF b
  <2>4. i - l + 1 <= i /\ i - (i - l + 1) + 1 = l
    BY <1>1
  <2>5. ASSUME NEW k \in 1 .. l PROVE b[k] = t[i - l + k]
    <3>1. (i - l + 1) + k - 1 = i - l + k
      BY <1>1
    <3> QED BY <2>3, <2>4, <3>1
  <2> QED BY <2>3, <2>4, <2>5
<1>5. a \in Seq(Nat) /\ Len(a) = 1 /\ a[1] = l - 1
  BY <1>2
<1> HIDE DEF a, b
<1>6. /\ a \o b \in Seq(Nat) /\ Len(a \o b) = 1 + l /\ (a \o b)[1] = l - 1
      /\ \A k \in 1 .. l : (a \o b)[1 + k] = b[k]
  <2>1. /\ a \o b \in Seq(Nat) /\ Len(a \o b) = Len(a) + Len(b)
        /\ (\A k \in 1 .. Len(b) : (a \o b)[Len(a) + k] = b[k])
        /\ (\A k \in 1 .. Len(a) : (a \o b)[k] = a[k])
    BY <1>4, <1>5, ConcatAfter
  <2>2. 1 \in 1 .. Len(a) /\ Len(a) = 1 /\ Len(b) = l
    BY <1>4, <1>5
  <2> QED BY <1>5, <2>1, <2>2, Zenon
<1> DEFINE e == Flush(t, i, l)
<1>7. /\ e \in Seq(Nat) /\ Len(e) = 1 + l /\ e[1] = l - 1
      /\ \A k \in 1 .. l : e[1 + k] = b[k]
  BY <1>3, <1>6
<1> HIDE DEF e
<1>8. ASSUME NEW k \in 0 .. (l - 1) PROVE e[k + 2] = At(t, i - l + k)
  <2>1. k + 1 \in 1 .. l /\ 1 + (k + 1) = k + 2 /\ i - l + (k + 1) = (i - l + k) + 1
    BY <1>1
  <2>2. e[1 + (k + 1)] = b[k + 1] /\ b[k + 1] = t[i - l + (k + 1)]
    BY <1>4, <1>7, <2>1
  <2> QED BY <2>1, <2>2 DEF At
<1>9. 1 + l = l + 1
  BY <1>1
<1> QED BY <1>7, <1>8, <1>9 DEF e

\* A pending literal that is written gives the stream its next mark.
LEMMA FlushParsed ==
    ASSUME NEW s \in Seq(Nat), NEW t \in Seq(Nat), NEW l \in 0 .. MaxLiteral,
           NEW i \in l .. Len(t), NEW P, Parsed(P, s, t, Len(s), i - l)
    PROVE  LET q == s \o Flush(t, i, l)
           IN  q \in Seq(Nat) /\ \E Q : Parsed(Q, q, t, Len(q), i)
<1> DEFINE e == Flush(t, i, l)
           n == Len(s)
           q == s \o e
<1>0. /\ l \in Nat /\ i \in Nat /\ i >= l /\ i <= Len(t) /\ Len(t) \in Nat /\ n \in Nat
      /\ l <= Low /\ Low \in Nat
  BY Widths
<1>1. CASE l = 0
  <2>1. q = s /\ i - l = i
    <3>1. e = <<>>
      BY <1>1 DEF Flush
    <3>2. s \o <<>> = s
      BY ConcatEmptySeq
    <3> QED BY <1>0, <1>1, <3>1, <3>2
  <2> QED BY <2>1
<1>2. CASE l # 0
  <2>1. l \in 1 .. MaxLiteral
    BY <1>0, <1>2, Widths
  <2>2. /\ e \in Seq(Nat) /\ Len(e) = l + 1 /\ e[1] = l - 1
        /\ \A k \in 0 .. (l - 1) : e[k + 2] = At(t, i - l + k)
    BY <2>1, FlushWrites
  <2> HIDE DEF e
  <2>3. /\ q \in Seq(Nat) /\ Len(q) = n + Len(e)
        /\ \A k \in 1 .. Len(e) : q[n + k] = e[k]
    BY <2>2, ConcatAfter
  <2> DEFINE v == l - 1
             j == i - l
  <2>4. v \in 0 .. (Low - 1) /\ j \in Nat /\ i = j + v + 1 /\ n + Len(e) = n + v + 2
        /\ v \in Nat /\ n \in Nat /\ Len(e) = v + 2
    BY <1>0, <1>2, <2>2
  <2>5. e[1] = v /\ \A k \in 0 .. v : e[k + 2] = At(t, j + k)
    BY <2>2
  <2> HIDE DEF v, j, n, q
  <2>6. At(q, n) = v
    <3>1. 1 \in 1 .. Len(e)
      BY <2>4
    <3> QED BY <2>3, <2>5, <3>1 DEF At
  <2>7. ASSUME NEW k \in 0 .. v PROVE At(q, n + 1 + k) = At(t, j + k)
    <3>1. k + 2 \in 1 .. Len(e) /\ (n + 1 + k) + 1 = n + (k + 2)
      BY <2>4
    <3>2. q[n + (k + 2)] = e[k + 2]
      BY <2>3, <3>1
    <3>3. At(q, n + 1 + k) = e[k + 2]
      BY <3>1, <3>2 DEF At
    <3> QED BY <2>5, <3>3
  <2>8. LiteralAt(q, n, t, j, v)
    BY <2>6, <2>7 DEF LiteralAt
  <2>9. Chunk(q, n, t, j, n + Len(e), i)
    BY <2>4, <2>8, Zenon DEF Chunk
  <2>10. Parsed(P, s, t, n, j) /\ j < i
    <3>1. Parsed(P, s, t, n, j)
      BY DEF j, n
    <3>2. j < i
      BY <2>4
    <3> QED BY <3>1, <3>2
  <2>11. \E Q : Parsed(Q, q, t, n + Len(e), i)
    BY <1>0, <2>2, <2>4, <2>9, <2>10, ParsedLonger DEF q, n
  <2>12. \E Q : Parsed(Q, q, t, Len(q), i)
    BY <2>3, <2>11
  <2> QED BY <2>3, <2>12 DEF q, e
<1> QED BY <1>1, <1>2

\* So does a reference.
LEMMA ReferenceParsed ==
    ASSUME NEW s \in Seq(Nat), NEW t \in Seq(Nat), NEW i \in Nat, NEW P, Parsed(P, s, t, Len(s), i),
           NEW off \in 0 .. (MaxOffset - 1), NEW n \in 3 .. MaxReference, off < i,
           \A k \in 0 .. (n - 1) : At(t, i - off - 1 + k) = At(t, i + k)
    PROVE  LET q == s \o Reference(off, n - 2)
           IN  q \in Seq(Nat) /\ \E Q : Parsed(Q, q, t, Len(q), i + n)
<1> DEFINE e == Reference(off, n - 2)
           q == s \o e
           len == Len(s)
<1>1. n - 2 \in 1 .. (MaxReference - 2) /\ i + n \in Nat /\ i < i + n
  BY Widths
<1>2. e \in Seq(Bytes)
  BY <1>1, ReferenceReads
<1>3. e \in Seq(Nat)
  <2>1. Bytes \subseteq Nat
    BY Widths DEF Bytes
  <2> HIDE DEF e
  <2> QED BY <1>2, <2>1, SeqMonotonic
<1>4. /\ q \in Seq(Nat) /\ Len(q) = len + Len(e)
      /\ \A k \in 1 .. Len(e) : q[len + k] = e[k]
  <2> HIDE DEF e
  <2> QED BY <1>3, ConcatAfter
<1>5. ReferenceAt(q, len, t, i, off, n)
  <2> HIDE DEF q, len
  <2> QED BY <1>4 DEF ReferenceAt
<1>6. Chunk(q, len, t, i, len + Len(e), i + n)
  <2> HIDE DEF q, len
  <2> QED BY <1>5, Zenon DEF Chunk
<1> HIDE DEF e
<1>7. \E Q : Parsed(Q, q, t, Len(q), i + n)
  BY <1>1, <1>3, <1>4, <1>6, ParsedLonger
<1> QED BY <1>4, <1>7 DEF e

-----------------------------------------------------------------------------
(* The inductive invariant.                                                *)

Calls == [pc : {"idle", "deflate", "inflate", "inflated"}, source : Seq(Nat), i : Nat,
          literal : Nat, deflated : Seq(Nat), inflated : Seq(Nat)]

\* While deflate runs: all that precedes the pending literal is in the stream.
Deflates(c) ==
    /\ c.literal < MaxLiteral /\ c.literal <= c.i /\ c.i <= Len(c.source)
    /\ c.inflated = <<>>
    /\ \E P : Parsed(P, c.deflated, c.source, Len(c.deflated), c.i - c.literal)

\* While inflate runs: it stands at a mark, and has made the text up to it.
Inflates(c) ==
    /\ Len(c.deflated) > 0 /\ Last(c.deflated) = Len(c.source)
    /\ Begins(c.inflated, c.source)
    /\ \E P : /\ Parsed(P, c.deflated, c.source, Len(c.deflated) - 1, Len(c.source))
              /\ <<c.i, Len(c.inflated)>> \in P

LInv ==
    /\ lzf \in Calls
    /\ lzf.pc = "idle" => lzf = IdleCall
    /\ lzf.pc # "idle" => lzf.source \in Texts
    /\ lzf.pc = "deflate" => Deflates(lzf)
    /\ lzf.pc \in {"inflate", "inflated"} => Inflates(lzf)
    /\ lzf.pc = "inflated" =>
         lzf.i = Len(lzf.deflated) - 1 /\ Len(lzf.inflated) = Len(lzf.source)

\* A text is not empty, and consists of bytes.
LEMMA TextIs ==
    ASSUME NEW t \in Texts
    PROVE  t \in Seq(Nat) /\ Len(t) \in Nat \ {0}
<1>1. t \in Seq(0 .. (Byte - 1)) /\ t # <<>>
  BY LzfAssumption
<1>2. 0 .. (Byte - 1) \subseteq Nat
  BY Widths
<1>3. t \in Seq(Nat)
  BY <1>1, <1>2, SeqMonotonic
<1> QED BY <1>1, <1>3, EmptySeq

LEMMA BeginKeeps == LInv /\ Begin => LInv'
<1> SUFFICES ASSUME LInv, Begin PROVE LInv'
  OBVIOUS
<1>1. lzf = IdleCall
  BY DEF LInv, Begin
<1>2. PICK t \in Texts : lzf' = [lzf EXCEPT !.pc = "deflate", !.source = t]
  BY DEF Begin
<1>3. lzf' = [pc |-> "deflate", source |-> t, i |-> 0, literal |-> 0,
              deflated |-> <<>>, inflated |-> <<>>]
  BY <1>1, <1>2 DEF IdleCall
<1>4. t \in Seq(Nat) /\ Len(t) \in Nat \ {0}
  BY TextIs
<1>5. <<>> \in Seq(Nat) /\ Len(<<>>) = 0
  BY EmptySeq
<1>6. Parsed({<<0, 0>>}, <<>>, t, 0, 0)
  BY DEF Parsed
<1>7. lzf'.literal < MaxLiteral
  BY <1>3, Widths
<1>8. Deflates(lzf')
  <2>1. lzf'.i - lzf'.literal = 0 /\ Len(lzf'.deflated) = 0
    BY <1>3, <1>5
  <2>2. Parsed({<<0, 0>>}, lzf'.deflated, lzf'.source, Len(lzf'.deflated), lzf'.i - lzf'.literal)
    BY <1>3, <1>6, <2>1
  <2> QED BY <1>3, <1>4, <1>7, <2>2 DEF Deflates
<1> QED BY <1>3, <1>4, <1>5, <1>8 DEF LInv, Calls

\* What LInv says of a call that deflates.
LEMMA Deflating ==
    ASSUME LInv, lzf.pc = "deflate"
    PROVE  /\ lzf \in Calls /\ lzf.source \in Texts /\ lzf.source \in Seq(Nat)
           /\ Len(lzf.source) \in Nat \ {0} /\ Deflates(lzf)
           /\ lzf.i \in Nat /\ lzf.literal \in Nat /\ lzf.deflated \in Seq(Nat)
<1>1. lzf \in Calls /\ lzf.source \in Texts /\ Deflates(lzf)
  BY DEF LInv
<1>2. lzf.source \in Seq(Nat) /\ Len(lzf.source) \in Nat \ {0}
  BY <1>1, TextIs
<1> QED BY <1>1, <1>2 DEF Calls

\* A stream of deflate that grew keeps the invariant.
LEMMA DeflateKeeps ==
    ASSUME LInv, lzf.pc = "deflate",
           NEW i \in Nat, NEW l \in Nat, NEW s \in Seq(Nat),
           i <= Len(lzf.source), l < MaxLiteral, l <= i,
           \E P : Parsed(P, s, lzf.source, Len(s), i - l),
           lzf' = [lzf EXCEPT !.i = i, !.literal = l, !.deflated = s]
    PROVE  LInv'
<1>1. lzf \in Calls /\ lzf.source \in Texts /\ lzf.inflated = <<>>
  BY Deflating DEF Deflates
<1>2. /\ lzf' \in Calls
      /\ lzf'.pc = "deflate" /\ lzf'.source = lzf.source /\ lzf'.inflated = <<>>
      /\ lzf'.i = i /\ lzf'.literal = l /\ lzf'.deflated = s
  BY <1>1 DEF Calls
<1>3. Deflates(lzf')
  BY <1>2 DEF Deflates
<1> QED BY <1>1, <1>2, <1>3 DEF LInv

LEMMA LiteralKeeps == LInv /\ Literal => LInv'
<1> SUFFICES ASSUME LInv, Literal PROVE LInv'
  OBVIOUS
<1> DEFINE full == lzf.literal + 1 = MaxLiteral
           i == lzf.i + 1
           l == IF full THEN 0 ELSE lzf.literal + 1
           s == lzf.deflated \o IF full THEN Flush(lzf.source, lzf.i + 1, MaxLiteral) ELSE <<>>
<1>1. /\ lzf.pc = "deflate" /\ lzf.i < Len(lzf.source)
      /\ lzf' = [lzf EXCEPT !.i = i, !.literal = l, !.deflated = s]
  BY DEF Literal
<1>2. /\ lzf.source \in Seq(Nat) /\ Len(lzf.source) \in Nat
      /\ lzf.i \in Nat /\ lzf.literal \in Nat /\ lzf.deflated \in Seq(Nat)
      /\ lzf.literal < MaxLiteral /\ lzf.literal <= lzf.i
      /\ MaxLiteral \in Nat
  BY <1>1, Deflating, Widths DEF Deflates
<1>3. PICK P : Parsed(P, lzf.deflated, lzf.source, Len(lzf.deflated), lzf.i - lzf.literal)
  BY <1>1, Deflating DEF Deflates
<1>4. /\ i \in Nat /\ i <= Len(lzf.source) /\ l \in Nat /\ l < MaxLiteral /\ l <= i
      /\ full => /\ MaxLiteral \in 0 .. MaxLiteral /\ i \in MaxLiteral .. Len(lzf.source)
                 /\ i - MaxLiteral = lzf.i - lzf.literal /\ i - l = i
      /\ ~full => i - l = lzf.i - lzf.literal
  <2> DEFINE a == lzf.i
             b == lzf.literal
             c == Len(lzf.source)
             m == MaxLiteral
  <2>1. /\ m \in Nat /\ m > 0 /\ a \in Nat /\ b \in Nat /\ c \in Nat /\ b < m /\ b <= a /\ a < c
    BY <1>1, <1>2, Widths
  <2>2. i = a + 1 /\ l = IF b + 1 = m THEN 0 ELSE b + 1
    OBVIOUS
  <2>3. full <=> b + 1 = m
    OBVIOUS
  <2> HIDE DEF a, b, c, m, i, l, full
  <2>4. CASE b + 1 = m
    <3>1. i - m = a - b /\ i - 0 = i /\ m \in 0 .. m /\ i \in m .. c
      BY <2>1, <2>2, <2>4
    <3>2. i \in Nat /\ i <= c /\ l = 0
      BY <2>1, <2>2, <2>4
    <3> QED BY <2>1, <2>3, <2>4, <3>1, <3>2 DEF a, b, c, m
  <2>5. CASE b + 1 # m
    <3>1. i - l = a - b /\ i \in Nat /\ i <= c /\ l \in Nat /\ l < m /\ l <= i
      BY <2>1, <2>2, <2>5
    <3> QED BY <2>3, <2>5, <3>1 DEF a, b, c, m
  <2> QED BY <2>4, <2>5
<1>5. s \in Seq(Nat) /\ \E Q : Parsed(Q, s, lzf.source, Len(s), i - l)
  <2>1. CASE full
    <3>1. /\ MaxLiteral \in 0 .. MaxLiteral /\ i \in MaxLiteral .. Len(lzf.source)
          /\ i - MaxLiteral = lzf.i - lzf.literal /\ i - l = i
      BY <1>4, <2>1
    <3>2. s = lzf.deflated \o Flush(lzf.source, i, MaxLiteral)
      BY <2>1
    <3>3. Parsed(P, lzf.deflated, lzf.source, Len(lzf.deflated), i - MaxLiteral)
      BY <1>3, <3>1
    <3> DEFINE f == Flush(lzf.source, i, MaxLiteral)
    <3>4. LET q == lzf.deflated \o f
          IN  q \in Seq(Nat) /\ \E Q : Parsed(Q, q, lzf.source, Len(q), i)
      <4> HIDE DEF i
      <4> QED BY <1>2, <3>1, <3>3, FlushParsed
    <3> HIDE DEF f, s, i, l
    <3> QED BY <3>1, <3>2, <3>4 DEF f
  <2>2. CASE ~full
    <3>1. s = lzf.deflated /\ i - l = lzf.i - lzf.literal
      <4>1. lzf.deflated \o <<>> = lzf.deflated
        BY <1>2, ConcatEmptySeq
      <4>2. i - l = lzf.i - lzf.literal
        BY <1>4, <2>2
      <4> QED BY <2>2, <4>1, <4>2
    <3> HIDE DEF s, i, l
    <3> QED BY <1>2, <1>3, <3>1
  <2> QED BY <2>1, <2>2
<1> HIDE DEF i, l, s
<1> QED BY <1>1, <1>4, <1>5, DeflateKeeps

LEMMA ReferKeeps == LInv /\ Refer => LInv'
<1> SUFFICES ASSUME LInv, Refer PROVE LInv'
  OBVIOUS
<1>1. lzf.pc = "deflate"
  BY DEF Refer
<1>2. /\ lzf.source \in Seq(Nat) /\ Len(lzf.source) \in Nat /\ lzf.source \in Texts
      /\ lzf.i \in Nat /\ lzf.literal \in Nat /\ lzf.deflated \in Seq(Nat)
      /\ lzf.literal < MaxLiteral /\ lzf.literal <= lzf.i /\ lzf.i <= Len(lzf.source)
      /\ MaxLiteral \in Nat
  BY <1>1, Deflating, Widths DEF Deflates
<1>3. PICK P : Parsed(P, lzf.deflated, lzf.source, Len(lzf.deflated), lzf.i - lzf.literal)
  BY <1>1, Deflating DEF Deflates
<1> DEFINE t == lzf.source
           i == lzf.i
           s == lzf.deflated \o Flush(t, i, lzf.literal)
<1>4. PICK r \in 1 .. i - 1 :
        /\ Repeats(t, r, i)
        /\ LET n == Matched(t, r, i)
           IN  lzf' = [lzf EXCEPT !.i = @ + n, !.literal = 0,
                                  !.deflated = @ \o Flush(t, i, lzf.literal)
                                                 \o Reference(i - r - 1, n - 2)]
  BY DEF Refer
<1> DEFINE n == Matched(t, r, i)
           off == i - r - 1
           q == s \o Reference(off, n - 2)
<1>5. n \in 3 .. MaxReference /\ n \in 3 .. (Len(t) - i - 2)
      /\ \A k \in 0 .. (n - 1) : At(t, r + k) = At(t, i + k)
  BY <1>2, <1>4, MatchExists
<1>6. lzf' = [lzf EXCEPT !.i = i + n, !.literal = 0, !.deflated = q]
  BY <1>4
<1>7. s \in Seq(Nat) /\ \E Q : Parsed(Q, s, t, Len(s), i)
  <2>1. lzf.literal \in 0 .. MaxLiteral /\ i \in lzf.literal .. Len(t)
    BY <1>2
  <2> QED BY <1>2, <1>3, <2>1, FlushParsed
<1> HIDE DEF n, s
<1>8. off \in 0 .. (MaxOffset - 1) /\ off < i /\ i - off - 1 = r
  <2>1. i - r - 1 < MaxOffset /\ i \in Nat /\ MaxOffset \in Nat
    BY <1>2, <1>4, Widths DEF Repeats
  <2> QED BY <2>1
<1>9. PICK Q : Parsed(Q, s, t, Len(s), i)
  BY <1>7
<1>10. q \in Seq(Nat) /\ \E R : Parsed(R, q, t, Len(q), i + n)
  <2>1. \A k \in 0 .. (n - 1) : At(t, i - off - 1 + k) = At(t, i + k)
    BY <1>5, <1>8
  <2> HIDE DEF off, t, i
  <2>2. i \in Nat /\ t \in Seq(Nat)
    BY <1>2 DEF i, t
  <2> QED BY <1>5, <1>7, <1>8, <1>9, <2>1, <2>2, ReferenceParsed
<1>11. i + n \in Nat /\ i + n <= Len(t) /\ 0 \in Nat /\ 0 < MaxLiteral /\ 0 <= i + n
       /\ (i + n) - 0 = i + n
  <2>1. n \in Nat /\ n <= Len(t) - i - 2 /\ i \in Nat /\ Len(t) \in Nat
    BY <1>2, <1>5
  <2> HIDE DEF i, t
  <2>2. i + n \in Nat /\ i + n <= Len(t) /\ 0 <= i + n /\ (i + n) - 0 = i + n
    BY <2>1
  <2>3. 0 \in Nat /\ 0 < MaxLiteral
    BY Widths
  <2> QED BY <2>2, <2>3
<1> DEFINE j == i + n
<1>12. \E R : Parsed(R, q, t, Len(q), j - 0)
  BY <1>10, <1>11
<1> HIDE DEF q, j
<1>13. lzf' = [lzf EXCEPT !.i = j, !.literal = 0, !.deflated = q]
  BY <1>6 DEF j
<1>14. j \in Nat /\ j <= Len(t) /\ 0 <= j
  BY <1>11 DEF j
<1> QED BY <1>1, <1>10, <1>11, <1>12, <1>13, <1>14, DeflateKeeps

\* The marks of a stream stay marks of it when something follows.
LEMMA ParsedBefore ==
    ASSUME NEW s \in Seq(Nat), NEW e \in Seq(Nat), NEW t, NEW P, NEW m \in Nat,
           Parsed(P, s, t, Len(s), m)
    PROVE  Parsed(P, s \o e, t, Len(s), m)
<1> DEFINE n == Len(s)
<1>1. n \in Nat
  OBVIOUS
<1>2. ASSUME NEW i \in 0 .. n, NEW j \in 0 .. m, <<i, j>> \in P
      PROVE  \/ i = n /\ j = m
             \/ \E i2 \in 0 .. n, j2 \in 0 .. m :
                  <<i2, j2>> \in P /\ Chunk(s \o e, i, t, j, i2, j2)
  <2>1. CASE ~(i = n /\ j = m)
    <3>1. PICK i2 \in 0 .. n, j2 \in 0 .. m : <<i2, j2>> \in P /\ Chunk(s, i, t, j, i2, j2)
      BY <1>2, <2>1 DEF Parsed
    <3>2. i \in Nat /\ j \in Nat /\ j2 \in Nat
      OBVIOUS
    <3>3. Chunk(s \o e, i, t, j, i2, j2)
      BY <3>1, <3>2, ChunkLonger
    <3> QED BY <3>1, <3>3
  <2> QED BY <2>1
<1> QED BY <1>2 DEF Parsed

LEMMA CompleteKeeps == LInv /\ Complete => LInv'
<1> SUFFICES ASSUME LInv, Complete PROVE LInv'
  OBVIOUS
<1> DEFINE t == lzf.source
           m == Len(t)
           s == lzf.deflated \o Flush(t, lzf.i, lzf.literal)
           e == <<m>>
           q == s \o e
<1>1. /\ lzf.pc = "deflate" /\ lzf.i = m
      /\ lzf' = [lzf EXCEPT !.pc = "inflate", !.i = 0, !.literal = 0, !.deflated = q]
  BY DEF Complete
<1>2. /\ t \in Seq(Nat) /\ m \in Nat /\ t \in Texts /\ lzf \in Calls
      /\ lzf.i \in Nat /\ lzf.literal \in Nat /\ lzf.deflated \in Seq(Nat)
      /\ lzf.literal < MaxLiteral /\ lzf.literal <= lzf.i /\ MaxLiteral \in Nat
      /\ lzf.inflated = <<>>
  BY <1>1, Deflating, Widths DEF Deflates
<1>3. PICK P : Parsed(P, lzf.deflated, t, Len(lzf.deflated), lzf.i - lzf.literal)
  BY <1>1, Deflating DEF Deflates
<1>4. s \in Seq(Nat) /\ \E Q : Parsed(Q, s, t, Len(s), m)
  <2>1. lzf.literal \in 0 .. MaxLiteral /\ lzf.i \in lzf.literal .. Len(t)
    BY <1>1, <1>2
  <2>2. \E Q : Parsed(Q, s, t, Len(s), lzf.i)
    BY <1>2, <1>3, <2>1, FlushParsed
  <2>3. s \in Seq(Nat)
    BY <1>2, <1>3, <2>1, FlushParsed
  <2> QED BY <1>1, <2>2, <2>3
<1>5. PICK Q : Parsed(Q, s, t, Len(s), m)
  BY <1>4
<1>6. e \in Seq(Nat) /\ Len(e) = 1 /\ e[1] = m
  BY <1>2
<1> HIDE DEF e, s, m
<1>7. /\ q \in Seq(Nat) /\ Len(q) = Len(s) + 1 /\ q[Len(s) + 1] = m
  <2>1. /\ q \in Seq(Nat) /\ Len(q) = Len(s) + Len(e)
        /\ \A k \in 1 .. Len(e) : q[Len(s) + k] = e[k]
    BY <1>4, <1>6, ConcatAfter
  <2>2. 1 \in 1 .. Len(e)
    BY <1>6
  <2> QED BY <1>6, <2>1, <2>2, Zenon
<1>8. Parsed(Q, q, t, Len(s), m)
  BY <1>2, <1>4, <1>5, <1>6, ParsedBefore
<1>9. Len(s) \in Nat
  BY <1>4
<1> HIDE DEF q
<1>10. Len(q) - 1 = Len(s) /\ Len(q) > 0 /\ Last(q) = m
  BY <1>7, <1>9 DEF Last
<1>11. /\ lzf' \in Calls /\ lzf'.pc = "inflate" /\ lzf'.i = 0 /\ lzf'.deflated = q
       /\ lzf'.inflated = <<>> /\ lzf'.source = t
  BY <1>1, <1>2, <1>7 DEF Calls
<1>12. <<0, 0>> \in Q /\ Len(<<>>) = 0
  BY <1>8 DEF Parsed
<1>13. Begins(<<>>, t)
  BY <1>2 DEF Begins, m
<1>14. Inflates(lzf')
  <2>1. /\ Parsed(Q, lzf'.deflated, lzf'.source, Len(lzf'.deflated) - 1, Len(lzf'.source))
        /\ <<lzf'.i, Len(lzf'.inflated)>> \in Q
    BY <1>8, <1>10, <1>11, <1>12 DEF m
  <2> QED BY <1>10, <1>11, <1>13, <2>1 DEF Inflates, m
<1> QED BY <1>2, <1>11, <1>14 DEF LInv

\* What inflate reads next is a chunk: it is at a mark that is not the last one.
LEMMA Reads ==
    ASSUME LInv, Inflating
    PROVE  /\ lzf \in Calls /\ lzf.source \in Texts /\ lzf.source \in Seq(Nat)
           /\ Begins(lzf.inflated, lzf.source)
           /\ lzf.inflated \in Seq(Nat) /\ lzf.deflated \in Seq(Nat) /\ lzf.i \in Nat
           /\ lzf.pc = "inflate"
           /\ \E P : \E i2 \in 0 .. (Len(lzf.deflated) - 1), j2 \in 0 .. Len(lzf.source) :
                /\ Parsed(P, lzf.deflated, lzf.source, Len(lzf.deflated) - 1, Len(lzf.source))
                /\ <<i2, j2>> \in P
                /\ Chunk(lzf.deflated, lzf.i, lzf.source, Len(lzf.inflated), i2, j2)
<1>1. /\ lzf \in Calls /\ lzf.source \in Texts /\ Inflates(lzf) /\ lzf.pc = "inflate"
  BY DEF LInv, Inflating
<1>2. lzf.source \in Seq(Nat) /\ Len(lzf.source) \in Nat \ {0}
  BY <1>1, TextIs
<1>3. lzf.inflated \in Seq(Nat) /\ lzf.deflated \in Seq(Nat) /\ lzf.i \in Nat
  BY <1>1 DEF Calls
<1>4. PICK P : /\ Parsed(P, lzf.deflated, lzf.source, Len(lzf.deflated) - 1, Len(lzf.source))
               /\ <<lzf.i, Len(lzf.inflated)>> \in P
  BY <1>1 DEF Inflates
<1>5. Len(lzf.inflated) # Len(lzf.source)
  <2>1. CASE lzf.inflated = <<>>
    BY <1>2, <2>1
  <2>2. CASE Len(lzf.inflated) < InflatedLength(lzf.deflated)
    <3>1. InflatedLength(lzf.deflated) = Len(lzf.source)
      BY <1>1 DEF Inflates, InflatedLength
    <3>2. Len(lzf.inflated) \in Nat
      BY <1>3
    <3> QED BY <1>2, <2>2, <3>1, <3>2
  <2> QED BY <2>1, <2>2 DEF Inflating
<1>6. \E i2 \in 0 .. (Len(lzf.deflated) - 1), j2 \in 0 .. Len(lzf.source) :
                /\ <<i2, j2>> \in P
                /\ Chunk(lzf.deflated, lzf.i, lzf.source, Len(lzf.inflated), i2, j2)
  BY <1>4, <1>5 DEF Parsed
<1> QED BY <1>1, <1>2, <1>3, <1>4, <1>6 DEF Inflates

\* Inflate that goes from a mark to another keeps the invariant.
LEMMA InflateKeeps ==
    ASSUME LInv, lzf.pc = "inflate",
           NEW i \in Nat, NEW out \in Seq(Nat), Begins(out, lzf.source),
           NEW P, Parsed(P, lzf.deflated, lzf.source, Len(lzf.deflated) - 1, Len(lzf.source)),
           <<i, Len(out)>> \in P,
           lzf' = [lzf EXCEPT !.i = i, !.inflated = out]
    PROVE  LInv'
<1>1. lzf \in Calls /\ Inflates(lzf) /\ lzf.source \in Texts
  BY DEF LInv
<1>2. /\ lzf' \in Calls /\ lzf'.pc = "inflate" /\ lzf'.source = lzf.source
      /\ lzf'.deflated = lzf.deflated /\ lzf'.i = i /\ lzf'.inflated = out
  BY <1>1 DEF Calls
<1>3. Inflates(lzf')
  BY <1>1, <1>2 DEF Inflates
<1> QED BY <1>1, <1>2, <1>3 DEF LInv

\* A piece of the text after its beginning makes a longer beginning.
LEMMA BeginsConcat ==
    ASSUME NEW t \in Seq(Nat), NEW o \in Seq(Nat), NEW b \in Seq(Nat), Begins(o, t),
           Len(o) + Len(b) <= Len(t), \A k \in 1 .. Len(b) : b[k] = t[Len(o) + k]
    PROVE  o \o b \in Seq(Nat) /\ Len(o \o b) = Len(o) + Len(b) /\ Begins(o \o b, t)
<1> DEFINE q == o \o b
<1>1. /\ q \in Seq(Nat) /\ Len(q) = Len(o) + Len(b)
      /\ \A k \in 1 .. (Len(o) + Len(b)) : q[k] = IF k <= Len(o) THEN o[k] ELSE b[k - Len(o)]
  BY ConcatProperties
<1>2. Len(o) \in Nat /\ Len(b) \in Nat
  OBVIOUS
<1> HIDE DEF q
<1>3. ASSUME NEW k \in 1 .. Len(q) PROVE q[k] = t[k]
  <2>1. k \in 1 .. (Len(o) + Len(b)) /\ k \in Int
    BY <1>1
  <2>2. CASE k <= Len(o)
    <3>1. k \in 1 .. Len(o)
      BY <1>2, <2>1, <2>2
    <3> QED BY <1>1, <2>1, <2>2, <3>1 DEF Begins
  <2>3. CASE ~(k <= Len(o))
    <3>1. k - Len(o) \in 1 .. Len(b) /\ Len(o) + (k - Len(o)) = k
      BY <1>2, <2>1, <2>3
    <3> QED BY <1>1, <2>1, <2>3, <3>1
  <2> QED BY <2>2, <2>3
<1> QED BY <1>1, <1>3 DEF Begins, q

\* The first byte of a chunk tells a literal from a reference, and its length.
LEMMA ChunkTells ==
    ASSUME NEW s \in Seq(Nat), NEW t, NEW i \in Nat, NEW j \in Nat, NEW i2, NEW j2,
           Chunk(s, i, t, j, i2, j2)
    PROVE  /\ At(s, i) < Low =>
                /\ At(s, i) \in 0 .. (Low - 1)
                /\ LiteralAt(s, i, t, j, At(s, i))
                /\ i2 = i + At(s, i) + 2 /\ j2 = j + At(s, i) + 1
           /\ At(s, i) >= Low =>
                \E off \in 0 .. (MaxOffset - 1), n \in 3 .. MaxReference :
                  /\ ReferenceAt(s, i, t, j, off, n)
                  /\ i2 = i + Len(Reference(off, n - 2)) /\ j2 = j + n
<1>1. Low \in Nat
  BY Widths
<1>2. ASSUME NEW v \in 0 .. (Low - 1),
             LiteralAt(s, i, t, j, v) /\ i2 = i + v + 2 /\ j2 = j + v + 1
      PROVE  At(s, i) = v /\ v < Low
  BY <1>1, <1>2 DEF LiteralAt
<1>3. ASSUME NEW off \in 0 .. (MaxOffset - 1), NEW n \in 3 .. MaxReference,
             ReferenceAt(s, i, t, j, off, n)
      PROVE  At(s, i) >= Low /\ At(s, i) \in Nat
  <2> DEFINE e == Reference(off, n - 2)
  <2>1. n - 2 \in 1 .. (MaxReference - 2)
    BY Widths
  <2>2. e[1] >= Low /\ Len(e) \in {2, 3} /\ e \in Seq(Bytes)
    BY <2>1, ReferenceReads
  <2>3. 1 \in 1 .. Len(e)
    <3> HIDE DEF e
    <3> QED BY <2>2
  <2>4. s[i + 1] = e[1]
    BY <1>3, <2>3 DEF ReferenceAt
  <2>5. e[1] \in Nat
    <3> HIDE DEF e
    <3>1. e[1] \in Bytes
      BY <2>2, <2>3, ElementOfSeq
    <3> QED BY <3>1, Widths DEF Bytes
  <2> QED BY <2>2, <2>4, <2>5, Zenon DEF At
<1>4. ASSUME At(s, i) < Low
      PROVE  \E v \in 0 .. (Low - 1) :
               LiteralAt(s, i, t, j, v) /\ i2 = i + v + 2 /\ j2 = j + v + 1
  <2>1. ASSUME NEW off \in 0 .. (MaxOffset - 1), NEW n \in 3 .. MaxReference,
               ReferenceAt(s, i, t, j, off, n)
        PROVE  FALSE
    <3>1. At(s, i) >= Low /\ At(s, i) \in Nat
      BY <1>3, <2>1
    <3> QED BY <1>1, <1>4, <3>1
  <2> QED BY <2>1 DEF Chunk
<1>5. ASSUME At(s, i) >= Low
      PROVE  \E off \in 0 .. (MaxOffset - 1), n \in 3 .. MaxReference :
               /\ ReferenceAt(s, i, t, j, off, n)
               /\ i2 = i + Len(Reference(off, n - 2)) /\ j2 = j + n
  <2>1. ASSUME NEW v \in 0 .. (Low - 1),
               LiteralAt(s, i, t, j, v) /\ i2 = i + v + 2 /\ j2 = j + v + 1
        PROVE  FALSE
    <3>1. At(s, i) = v /\ v < Low /\ v \in Int
      BY <1>2, <2>1
    <3> QED BY <1>1, <1>5, <3>1
  <2> QED BY <2>1 DEF Chunk
<1>6. ASSUME At(s, i) < Low
      PROVE  /\ At(s, i) \in 0 .. (Low - 1)
             /\ LiteralAt(s, i, t, j, At(s, i))
             /\ i2 = i + At(s, i) + 2 /\ j2 = j + At(s, i) + 1
  BY <1>2, <1>4, <1>6, Zenon
<1> QED BY <1>5, <1>6

LEMMA CopyLiteralKeeps == LInv /\ CopyLiteral => LInv'
<1> SUFFICES ASSUME LInv, CopyLiteral PROVE LInv'
  OBVIOUS
<1> DEFINE s == lzf.deflated
           t == lzf.source
           i == lzf.i
           o == lzf.inflated
           j == Len(o)
           v == At(s, i)
           b == SubSeq(s, i + 2, i + v + 2)
<1>1. /\ Inflating /\ v < Low
      /\ lzf' = [lzf EXCEPT !.i = i + v + 2, !.inflated = o \o Slice(s, i + 1, i + v + 2)]
  BY DEF CopyLiteral
<1>2. /\ t \in Seq(Nat) /\ s \in Seq(Nat) /\ o \in Seq(Nat) /\ i \in Nat /\ Begins(o, t)
      /\ lzf.pc = "inflate" /\ j \in Nat /\ Len(t) \in Nat /\ Len(s) \in Nat
  <2>1. /\ t \in Seq(Nat) /\ s \in Seq(Nat) /\ o \in Seq(Nat) /\ i \in Nat /\ Begins(o, t)
        /\ lzf.pc = "inflate"
    BY <1>1, Reads
  <2> HIDE DEF s, t, o
  <2> QED BY <2>1
<1>3. PICK P : \E i2 \in 0 .. (Len(s) - 1), j2 \in 0 .. Len(t) :
        /\ Parsed(P, s, t, Len(s) - 1, Len(t)) /\ <<i2, j2>> \in P
        /\ Chunk(s, i, t, j, i2, j2)
  BY <1>1, Reads
<1>4. PICK i2 \in 0 .. (Len(s) - 1), j2 \in 0 .. Len(t) :
        /\ Parsed(P, s, t, Len(s) - 1, Len(t)) /\ <<i2, j2>> \in P
        /\ Chunk(s, i, t, j, i2, j2)
  BY <1>3
<1> HIDE DEF s, t, i, o, j
<1>5. /\ v \in 0 .. (Low - 1) /\ LiteralAt(s, i, t, j, v)
      /\ i2 = i + v + 2 /\ j2 = j + v + 1
  BY <1>1, <1>2, <1>4, ChunkTells
<1>6. v \in Nat /\ \A k \in 0 .. v : At(s, i + 1 + k) = At(t, j + k)
  BY <1>5, Widths DEF LiteralAt
<1> HIDE DEF v
<1>7. i + v + 2 <= Len(s) - 1 /\ j + v + 1 <= Len(t) /\ i + v + 2 \in Nat
  BY <1>2, <1>4, <1>5, <1>6
<1>8. b \in Seq(Nat) /\ Len(b) = v + 1 /\ \A k \in 1 .. (v + 1) : b[k] = t[j + k]
  <2>1. \A k \in (i + 2) .. (i + v + 2) : s[k] \in Nat
    <3>1. \A k \in (i + 2) .. (i + v + 2) : k \in 1 .. Len(s)
      BY <1>2, <1>6, <1>7
    <3> QED BY <1>2, <3>1, ElementOfSeq
  <2>2. i + 2 \in Int /\ i + v + 2 \in Int
    BY <1>2, <1>6
  <2>3. /\ b \in Seq(Nat)
        /\ Len(b) = IF i + 2 <= i + v + 2 THEN (i + v + 2) - (i + 2) + 1 ELSE 0
        /\ \A k \in 1 .. ((i + v + 2) - (i + 2) + 1) : b[k] = s[(i + 2) + k - 1]
    BY <2>1, <2>2, SubSeqProperties
  <2> HIDE DEF b
  <2>4. i + 2 <= i + v + 2 /\ (i + v + 2) - (i + 2) + 1 = v + 1
    BY <1>2, <1>6
  <2>5. ASSUME NEW k \in 1 .. (v + 1) PROVE b[k] = t[j + k]
    <3>1. /\ (i + 2) + k - 1 = (i + 1 + (k - 1)) + 1 /\ k - 1 \in 0 .. v
          /\ (j + (k - 1)) + 1 = j + k
      BY <1>2, <1>6
    <3>2. b[k] = s[(i + 2) + k - 1]
      BY <2>3, <2>4
    <3>3. At(s, i + 1 + (k - 1)) = At(t, j + (k - 1))
      BY <1>6, <3>1
    <3> QED BY <3>1, <3>2, <3>3 DEF At
  <2> QED BY <2>3, <2>4, <2>5
<1>9. Slice(s, i + 1, i + v + 2) = b
  <2>1. (i + 1) + 1 = i + 2
    BY <1>2
  <2> QED BY <2>1 DEF Slice
<1> HIDE DEF b
<1>10. Len(o) = j
  BY DEF j
<1>11. o \o b \in Seq(Nat) /\ Len(o \o b) = j + v + 1 /\ Begins(o \o b, t)
  <2>1. Len(o) + Len(b) <= Len(t) /\ Len(o) + Len(b) = j + v + 1
    BY <1>2, <1>6, <1>7, <1>8, <1>10
  <2>2. \A k \in 1 .. Len(b) : b[k] = t[Len(o) + k]
    BY <1>8, <1>10
  <2> QED BY <1>2, <1>8, <2>1, <2>2, BeginsConcat
<1> DEFINE out == o \o b
           next == i + v + 2
<1>12. lzf' = [lzf EXCEPT !.i = next, !.inflated = out]
  BY <1>1, <1>9
<1>13. /\ next \in Nat /\ out \in Seq(Nat) /\ Begins(out, t) /\ <<next, Len(out)>> \in P
  BY <1>4, <1>5, <1>7, <1>11
<1> HIDE DEF out, next
<1> QED BY <1>2, <1>4, <1>12, <1>13, InflateKeeps DEF s, t

LEMMA CopyReferenceKeeps == LInv /\ CopyReference => LInv'
<1> SUFFICES ASSUME LInv, CopyReference PROVE LInv'
  OBVIOUS
<1> DEFINE s == lzf.deflated
           t == lzf.source
           i == lzf.i
           o == lzf.inflated
           j == Len(o)
           v == At(s, i)
           long == v \div Low = Escape
           length == IF long THEN Escape + At(s, i + 1) ELSE v \div Low
           next == i + IF long THEN 2 ELSE 1
           origin == j - (v % Low) * Byte - 1 - At(s, next)
           out == Copy(o, origin, length + 2)
<1>1. /\ Inflating /\ v >= Low
      /\ lzf' = [lzf EXCEPT !.i = next + 1, !.inflated = out]
  BY DEF CopyReference
<1>2. /\ t \in Seq(Nat) /\ s \in Seq(Nat) /\ o \in Seq(Nat) /\ i \in Nat /\ Begins(o, t)
      /\ lzf.pc = "inflate" /\ j \in Nat /\ Len(t) \in Nat /\ Len(s) \in Nat
  <2>1. /\ t \in Seq(Nat) /\ s \in Seq(Nat) /\ o \in Seq(Nat) /\ i \in Nat /\ Begins(o, t)
        /\ lzf.pc = "inflate"
    BY <1>1, Reads
  <2> HIDE DEF s, t, o
  <2> QED BY <2>1
<1>3. PICK P : \E i2 \in 0 .. (Len(s) - 1), j2 \in 0 .. Len(t) :
        /\ Parsed(P, s, t, Len(s) - 1, Len(t)) /\ <<i2, j2>> \in P
        /\ Chunk(s, i, t, j, i2, j2)
  BY <1>1, Reads
<1>4. PICK i2 \in 0 .. (Len(s) - 1), j2 \in 0 .. Len(t) :
        /\ Parsed(P, s, t, Len(s) - 1, Len(t)) /\ <<i2, j2>> \in P
        /\ Chunk(s, i, t, j, i2, j2)
  BY <1>3
<1> HIDE DEF s, t, i, o, j
<1>5. PICK off \in 0 .. (MaxOffset - 1), n \in 3 .. MaxReference :
        /\ ReferenceAt(s, i, t, j, off, n)
        /\ i2 = i + Len(Reference(off, n - 2)) /\ j2 = j + n
  BY <1>1, <1>2, <1>4, ChunkTells
<1> DEFINE e == Reference(off, n - 2)
           far == n - 2 >= Escape
<1>6. n - 2 \in 1 .. (MaxReference - 2) /\ off \in Nat /\ n \in Nat /\ n >= 3
      /\ Escape \in Nat /\ Byte \in Nat \ {0}
  BY Widths
<1>7. /\ Len(e) = IF far THEN 3 ELSE 2
      /\ e[1] % Low = off \div Byte /\ e[1] \div Low = IF far THEN Escape ELSE n - 2
      /\ far => e[2] = n - 2 - Escape
      /\ e[Len(e)] = off % Byte
  BY <1>6, ReferenceReads
<1>8. /\ \A k \in 1 .. Len(e) : s[i + k] = e[k]
      /\ i2 = i + Len(e)
      /\ off < j /\ \A k \in 0 .. (n - 1) : At(t, j - off - 1 + k) = At(t, j + k)
  BY <1>5 DEF ReferenceAt
<1> HIDE DEF e
<1>9. v = e[1] /\ (long <=> far)
  <2>1. 1 \in 1 .. Len(e)
    BY <1>7
  <2>2. v = e[1]
    BY <1>8, <2>1 DEF At
  <2> HIDE DEF v
  <2>3. CASE far
    BY <1>7, <2>2, <2>3
  <2>4. CASE ~far
    <3>1. n - 2 # Escape
      BY <1>6, <2>4
    <3> QED BY <1>7, <2>2, <2>4, <3>1
  <2> QED BY <2>2, <2>3, <2>4
<1> DEFINE low == off % Byte
           high == off \div Byte
<1>10. high * Byte + low = off /\ low \in Int /\ high * Byte \in Int
  BY <1>6
<1>11. length = n - 2 /\ next + 1 = i2 /\ At(s, next) = low
  <2>1. CASE far
    <3>1. long /\ Len(e) = 3
      BY <1>7, <1>9, <2>1
    <3>2. 2 \in 1 .. Len(e) /\ 3 \in 1 .. Len(e) /\ (i + 1) + 1 = i + 2 /\ (i + 2) + 1 = i + 3
      BY <1>2, <3>1
    <3>3. At(s, i + 1) = n - 2 - Escape
      BY <1>7, <1>8, <2>1, <3>2 DEF At
    <3>4. next = i + 2 /\ length = Escape + At(s, i + 1)
      BY <3>1
    <3>5. At(s, i + 2) = low
      BY <1>7, <1>8, <3>1, <3>2 DEF At
    <3> HIDE DEF length, next, low
    <3>6. length = n - 2
      BY <1>6, <3>3, <3>4
    <3>7. next + 1 = i2
      BY <1>2, <1>8, <3>1, <3>4
    <3> QED BY <3>4, <3>5, <3>6, <3>7
  <2>2. CASE ~far
    <3>1. ~long /\ Len(e) = 2
      BY <1>7, <1>9, <2>2
    <3>2. 2 \in 1 .. Len(e) /\ (i + 1) + 1 = i + 2
      BY <1>2, <3>1
    <3>3. next = i + 1 /\ length = v \div Low
      BY <3>1
    <3>4. v \div Low = n - 2
      <4> HIDE DEF v
      <4> QED BY <1>7, <1>9, <2>2
    <3>5. At(s, i + 1) = low
      BY <1>7, <1>8, <3>1, <3>2 DEF At
    <3> HIDE DEF length, next, low, v
    <3> QED BY <1>2, <1>6, <1>8, <3>1, <3>2, <3>3, <3>4, <3>5
  <2> QED BY <2>1, <2>2
<1>12. origin = j - off - 1
  <2>1. v % Low = high
    <3> HIDE DEF v
    <3> QED BY <1>7, <1>9
  <2> HIDE DEF v, next
  <2>2. origin = j - high * Byte - 1 - low
    BY <1>11, <2>1
  <2> DEFINE hb == high * Byte
  <2>3. origin = j - hb - 1 - low /\ hb + low = off /\ hb \in Int /\ low \in Int
    BY <1>10, <2>2
  <2> HIDE DEF hb, low, origin
  <2> QED BY <1>2, <2>3
<1>13. length + 2 = n
  <2> HIDE DEF length
  <2> QED BY <1>6, <1>11
<1> HIDE DEF length, next, origin, low, high
<1>14. Len(o) = j
  BY DEF j
<1>15. out \in Seq(Nat) /\ Len(out) = j + n /\ Begins(out, t)
  <2>1. origin \in 0 .. (Len(o) - 1) /\ Len(o) + n <= Len(t)
    BY <1>2, <1>4, <1>5, <1>6, <1>8, <1>12, <1>14
  <2>2. \A k \in 0 .. (n - 1) : At(t, origin + k) = At(t, Len(o) + k)
    BY <1>8, <1>12, <1>14
  <2>3. out = Copy(o, origin, n)
    BY <1>13
  <2> HIDE DEF out
  <2>4. /\ Copy(o, origin, n) \in Seq(Nat) /\ Len(Copy(o, origin, n)) = Len(o) + n
        /\ Begins(Copy(o, origin, n), t)
    BY <1>2, <1>6, <2>1, <2>2, CopyContinues
  <2> QED BY <1>14, <2>3, <2>4
<1> HIDE DEF out
<1>16. lzf' = [lzf EXCEPT !.i = i2, !.inflated = out]
  BY <1>1, <1>11
<1>17. i2 \in Nat /\ <<i2, Len(out)>> \in P
  BY <1>4, <1>5, <1>15
<1> QED BY <1>2, <1>4, <1>15, <1>16, <1>17, InflateKeeps DEF s, t

\* At the last mark, inflate has nothing more to read.
LEMMA InflatedKeeps == LInv /\ Inflated => LInv'
<1> SUFFICES ASSUME LInv, Inflated PROVE LInv'
  OBVIOUS
<1>1. /\ lzf \in Calls /\ lzf.pc = "inflate" /\ ~Inflating /\ Inflates(lzf) /\ lzf.source \in Texts
      /\ lzf' = [lzf EXCEPT !.pc = "inflated"]
  BY DEF Inflated, LInv
<1> DEFINE n == Len(lzf.deflated) - 1
           m == Len(lzf.source)
           i == lzf.i
           j == Len(lzf.inflated)
<1>2. PICK P : Parsed(P, lzf.deflated, lzf.source, n, m) /\ <<i, j>> \in P
  BY <1>1 DEF Inflates
<1>3. /\ m \in Nat \ {0} /\ j \in Nat /\ Len(lzf.deflated) \in Nat /\ n \in Nat
      /\ InflatedLength(lzf.deflated) = m
  <2>1. lzf.deflated \in Seq(Nat) /\ lzf.inflated \in Seq(Nat)
    BY <1>1 DEF Calls
  <2>2. Len(lzf.deflated) > 0 /\ InflatedLength(lzf.deflated) = m
    BY <1>1 DEF Inflates, InflatedLength
  <2>3. Len(lzf.deflated) \in Nat /\ j \in Nat /\ m \in Nat \ {0}
    BY <1>1, <2>1, TextIs
  <2> DEFINE d == Len(lzf.deflated)
  <2>4. d \in Nat /\ d > 0 /\ n = d - 1
    BY <2>2, <2>3
  <2> HIDE DEF d, n
  <2>5. n \in Nat
    BY <2>4
  <2> QED BY <2>2, <2>3, <2>5
<1>4. i = n /\ j = m
  <2> SUFFICES ASSUME ~(i = n /\ j = m) PROVE FALSE
    OBVIOUS
  <2>1. PICK i2 \in 0 .. n, j2 \in 0 .. m : Chunk(lzf.deflated, i, lzf.source, j, i2, j2)
    BY <1>2 DEF Parsed
  <2>2. lzf.deflated \in Seq(Nat) /\ <<>> \in Seq(Nat) /\ i \in Nat /\ j2 \in Nat
        /\ i2 \in 0 .. Len(lzf.deflated)
    <3>1. lzf.deflated \in Seq(Nat) /\ <<>> \in Seq(Nat) /\ i \in Nat
      BY <1>1 DEF Calls
    <3> DEFINE d == Len(lzf.deflated)
    <3>2. d \in Nat /\ n = d - 1
      BY <1>3
    <3> HIDE DEF d, n
    <3>3. i2 \in 0 .. d
      BY <3>2
    <3> QED BY <1>3, <3>1, <3>3 DEF d
  <2>3. i < i2 /\ j < j2
    BY <1>3, <2>1, <2>2, ChunkLonger
  <2>4. i < Len(lzf.deflated) /\ j < m
    <3> DEFINE d == Len(lzf.deflated)
    <3>1. d \in Nat /\ n = d - 1
      BY <1>3
    <3> HIDE DEF d, n, i, j, m
    <3>2. i < d /\ j < m
      BY <1>3, <2>2, <2>3, <3>1
    <3> QED BY <3>2 DEF d
  <2>5. Inflating
    BY <1>1, <1>3, <2>4 DEF Inflating
  <2> QED BY <1>1, <2>5
<1>5. /\ lzf' \in Calls /\ lzf'.pc = "inflated" /\ lzf'.source = lzf.source /\ lzf'.i = lzf.i
      /\ lzf'.deflated = lzf.deflated /\ lzf'.inflated = lzf.inflated
  BY <1>1 DEF Calls
<1>6. Inflates(lzf')
  BY <1>1, <1>5 DEF Inflates
<1> QED BY <1>1, <1>4, <1>5, <1>6 DEF LInv

\* Between calls the locals are what they are at first.
LEMMA IdleKeeps == lzf = IdleCall => LInv
<1>1. <<>> \in Seq(Nat)
  BY EmptySeq
<1> QED BY <1>1 DEF LInv, Calls, IdleCall

\* Every reachable state satisfies the invariant.
THEOREM StreamsAreParsed == LzfSpec => []LInv
<1>1. LzfInit => LInv
  BY IdleKeeps DEF LzfInit
<1>2. LInv /\ [LzfNext]_lvars => LInv'
  <2> SUFFICES ASSUME LInv, [LzfNext]_lvars PROVE LInv'
    OBVIOUS
  <2>1. CASE UNCHANGED lvars
    BY <2>1 DEF lvars, LInv
  <2>2. CASE Return
    <3>1. lzf' = IdleCall
      BY <2>2 DEF Return
    <3>2. <<>> \in Seq(Nat)
      BY EmptySeq
    <3> QED BY <3>1, <3>2 DEF LInv, Calls, IdleCall
  <2> QED BY <2>1, <2>2, BeginKeeps, LiteralKeeps, ReferKeeps, CompleteKeeps,
             CopyLiteralKeeps, CopyReferenceKeeps, InflatedKeeps DEF LzfNext
<1> QED BY <1>1, <1>2, PTL DEF LzfSpec

\* gekkota_lzf_inflate gives back what gekkota_lzf_deflate was given: for every
\* text, every content of the hash table and every width of the fields, what has
\* been inflated is the beginning of the text, and at the end the whole of it.
THEOREM NothingIsLost == LzfSpec => []InflatedIsSource
<1>1. LInv => InflatedIsSource
  <2> SUFFICES ASSUME LInv, lzf.pc \in {"inflate", "inflated"}
               PROVE  /\ IsPrefix(lzf.inflated, lzf.source)
                      /\ lzf.pc = "inflated" =>
                           lzf.inflated = lzf.source /\ lzf.i = Len(lzf.deflated) - 1
    BY DEF InflatedIsSource
  <2> DEFINE o == lzf.inflated
             t == lzf.source
  <2>1. /\ o \in Seq(Nat) /\ t \in Seq(Nat) /\ Begins(o, t)
        /\ lzf.pc = "inflated" => lzf.i = Len(lzf.deflated) - 1 /\ Len(o) = Len(t)
    BY DEF LInv, Calls, Inflates
  <2> HIDE DEF o, t
  <2>2. /\ Len(o) \in Nat /\ Len(t) \in Nat /\ Len(o) <= Len(t)
        /\ \A k \in 1 .. Len(o) : o[k] = t[k] /\ t[k] \in Nat /\ o[k] \in Nat
    <3>1. Len(o) \in Nat /\ Len(t) \in Nat
      BY <2>1
    <3>2. Len(o) <= Len(t) /\ \A k \in 1 .. Len(o) : o[k] = t[k]
      BY <2>1 DEF Begins
    <3>3. \A k \in 1 .. Len(o) : o[k] \in Nat
      BY <2>1, ElementOfSeq
    <3> QED BY <3>1, <3>2, <3>3, Zenon
  <2>3. SubSeq(t, 1, Len(o)) = o
    <3> DEFINE b == SubSeq(t, 1, Len(o))
    <3>1. /\ b \in Seq(Nat) /\ Len(b) = IF 1 <= Len(o) THEN Len(o) - 1 + 1 ELSE 0
          /\ \A k \in 1 .. (Len(o) - 1 + 1) : b[k] = t[1 + k - 1]
      BY <2>2, SubSeqProperties
    <3> HIDE DEF b
    <3>2. Len(b) = Len(o) /\ \A k \in 1 .. Len(o) : b[k] = o[k]
      <4>1. Len(o) - 1 + 1 = Len(o) /\ (~(1 <= Len(o)) => Len(o) = 0)
        BY <2>2
      <4>2. \A k \in 1 .. Len(o) : 1 + k - 1 = k
        OBVIOUS
      <4> QED BY <2>2, <3>1, <4>1, <4>2
    <3> QED BY <2>1, <3>1, <3>2, SeqEqual DEF b
  <2>4. SubSeq(o, 1, Len(o)) = o
    BY <2>1, SubSeqFull
  <2>5. IsPrefix(o, t)
    BY <2>2, <2>3, <2>4 DEF IsPrefix
  <2>6. Len(o) = Len(t) => o = t
    BY <2>1, <2>2, SeqEqual
  <2> QED BY <2>1, <2>5, <2>6 DEF o, t
<1> QED BY <1>1, StreamsAreParsed, PTL

-----------------------------------------------------------------------------
(* How much a text grows.                                                  *)

\* A quotient grows with what is divided, and by one when the divisor is added.
LEMMA QuotientGrows ==
    ASSUME NEW b \in Nat \ {0}, NEW x \in Nat, NEW y \in Nat, x <= y
    PROVE  /\ x \div b \in Nat /\ x \div b <= y \div b /\ y \div b \in Nat
           /\ (x + b) \div b = x \div b + 1
<1> DEFINE k == x \div b
           m == x % b
           l == y \div b
           n == y % b
<1>1. k \in Int /\ m \in 0 .. (b - 1) /\ x = k * b + m
  BY SMT
<1>2. l \in Int /\ n \in 0 .. (b - 1) /\ y = l * b + n
  BY SMT
<1> HIDE DEF k, m, l, n
<1>3. k <= l
  <2> SUFFICES ASSUME k - l >= 1 PROVE FALSE
    BY <1>1, <1>2
  <2>1. (k - l) * b >= b /\ (k - l) * b = k * b - l * b
    BY <1>1, <1>2, SMT
  <2> DEFINE c == (k - l) * b
             d == k * b
             e == l * b
  <2>2. c >= b /\ c = d - e /\ x = d + m /\ y = e + n
    BY <1>1, <1>2, <2>1
  <2>3. d \in Int /\ e \in Int
    BY <1>1, <1>2, SMT
  <2> HIDE DEF c, d, e
  <2> QED BY <1>1, <1>2, <2>2, <2>3
<1>4. k >= 0 /\ l >= 0
  <2>1. ASSUME k <= -1 PROVE FALSE
    <3>1. k * b <= -b
      BY <1>1, <2>1, SMT
    <3> QED BY <1>1, <3>1, SMT
  <2> QED BY <1>1, <1>2, <1>3, <2>1
<1>5. (x + b) \div b = k + 1
  <2>1. x + b = (k + 1) * b + m /\ x + b \in Int /\ k + 1 \in Int
    BY <1>1, SMT
  <2> QED BY <1>1, <2>1, DivisionUnique
<1> QED BY <1>1, <1>2, <1>3, <1>4, <1>5 DEF k, l

\* What is in the stream takes a byte more for every MaxLiteral bytes at most.
Grown(c) ==
    c.pc = "deflate" =>
      Len(c.deflated) <= (c.i - c.literal) + (c.i - c.literal) \div MaxLiteral

LEMMA LiteralGrows ==
    ASSUME LInv, Grown(lzf), Literal
    PROVE  Grown(lzf')
<1> DEFINE a == lzf.i
           b == lzf.literal
           d == Len(lzf.deflated)
           m == MaxLiteral
<1>1. lzf.pc = "deflate" /\ a < Len(lzf.source)
  BY DEF Literal
<1>2. /\ lzf \in Calls /\ a \in Nat /\ b \in Nat /\ lzf.deflated \in Seq(Nat) /\ b <= a /\ d \in Nat
      /\ m \in Nat \ {0} /\ lzf.source \in Seq(Nat) /\ Len(lzf.source) \in Nat
  <2>1. /\ lzf \in Calls /\ a \in Nat /\ b \in Nat /\ lzf.deflated \in Seq(Nat) /\ b <= a
        /\ lzf.source \in Seq(Nat) /\ Len(lzf.source) \in Nat
    BY <1>1, Deflating DEF Deflates
  <2> QED BY <2>1, Widths
<1>3. d <= (a - b) + (a - b) \div m
  BY <1>1 DEF Grown
<1>4. CASE b + 1 = m
  <2> DEFINE f == Flush(lzf.source, a + 1, m)
  <2>1. lzf' = [lzf EXCEPT !.i = a + 1, !.literal = 0, !.deflated = lzf.deflated \o f]
    BY <1>4 DEF Literal
  <2>2. f \in Seq(Nat) /\ Len(f) = m + 1
    <3>1. m \in 1 .. MaxLiteral /\ a + 1 \in m .. Len(lzf.source)
      <4> DEFINE n == Len(lzf.source)
      <4>1. n \in Nat /\ a < n
        BY <1>1, <1>2
      <4> HIDE DEF n, a, b, m
      <4>2. m \in 1 .. m /\ a + 1 \in m .. n
        BY <1>2, <1>4, <4>1
      <4> QED BY <4>2 DEF m, n
    <3> QED BY <1>2, <3>1, FlushWrites
  <2> HIDE DEF f
  <2>3. Len(lzf.deflated \o f) = d + (m + 1)
    <3>1. Len(lzf.deflated \o f) = Len(lzf.deflated) + Len(f)
      BY <1>2, <2>2, ConcatAfter
    <3> QED BY <2>2, <3>1
  <2>4. lzf'.i = a + 1 /\ lzf'.literal = 0 /\ lzf'.deflated = lzf.deflated \o f
    BY <1>2, <2>1 DEF Calls
  <2>5. d + (m + 1) <= ((a + 1) - 0) + ((a + 1) - 0) \div m
    <3> DEFINE x == a - b
    <3> HIDE DEF a, b, d, m
    <3>1. x \in Nat /\ (a + 1) - 0 = x + m
      BY <1>2, <1>4
    <3>2. d <= x + x \div m
      BY <1>3
    <3> HIDE DEF x
    <3>3. (x + m) \div m = x \div m + 1 /\ x \div m \in Nat /\ x <= x
      <4>1. x <= x
        BY <3>1
      <4> QED BY <1>2, <3>1, <4>1, QuotientGrows
    <3> DEFINE k == x \div m
    <3>4. d <= x + k /\ (x + m) \div m = k + 1 /\ k \in Nat
      BY <3>2, <3>3
    <3> HIDE DEF k
    <3>5. d + (m + 1) <= (x + m) + (k + 1)
      BY <1>2, <3>1, <3>4
    <3> QED BY <3>1, <3>4, <3>5
  <2> QED BY <2>3, <2>4, <2>5 DEF Grown
<1>5. CASE b + 1 # m
  <2>1. lzf' = [lzf EXCEPT !.i = a + 1, !.literal = b + 1, !.deflated = lzf.deflated \o <<>>]
    BY <1>5 DEF Literal
  <2>2. lzf.deflated \o <<>> = lzf.deflated
    BY <1>2, ConcatEmptySeq
  <2>3. lzf'.i = a + 1 /\ lzf'.literal = b + 1 /\ lzf'.deflated = lzf.deflated
    BY <1>2, <2>1, <2>2 DEF Calls
  <2>4. (a + 1) - (b + 1) = a - b
    <3> HIDE DEF a, b
    <3> QED BY <1>2
  <2>5. Len(lzf'.deflated) <= (lzf'.i - lzf'.literal) + (lzf'.i - lzf'.literal) \div MaxLiteral
    BY <1>3, <2>3, <2>4
  <2> QED BY <2>5 DEF Grown
<1> QED BY <1>4, <1>5

LEMMA ReferGrows ==
    ASSUME LInv, Grown(lzf), Escape > 1, Refer
    PROVE  Grown(lzf')
<1> DEFINE a == lzf.i
           b == lzf.literal
           s == lzf.deflated
           d == Len(s)
           m == MaxLiteral
           t == lzf.source
           f == Flush(t, a, b)
<1>1. lzf.pc = "deflate"
  BY DEF Refer
<1>2. /\ lzf \in Calls /\ a \in Nat /\ b \in Nat /\ s \in Seq(Nat) /\ b <= a /\ d \in Nat
      /\ m \in Nat \ {0} /\ t \in Seq(Nat) /\ Len(t) \in Nat /\ t \in Texts /\ b < m /\ a <= Len(t)
  <2>1. /\ lzf \in Calls /\ a \in Nat /\ b \in Nat /\ s \in Seq(Nat) /\ b <= a
        /\ t \in Seq(Nat) /\ Len(t) \in Nat /\ t \in Texts /\ b < m /\ a <= Len(t)
    BY <1>1, Deflating DEF Deflates
  <2> QED BY <2>1, Widths
<1>3. d <= (a - b) + (a - b) \div m
  BY <1>1 DEF Grown
<1>4. PICK r \in 1 .. a - 1 :
        /\ Repeats(t, r, a)
        /\ LET n == Matched(t, r, a)
           IN  lzf' = [lzf EXCEPT !.i = @ + n, !.literal = 0,
                                  !.deflated = @ \o Flush(t, a, b)
                                                 \o Reference(a - r - 1, n - 2)]
  BY DEF Refer
<1> DEFINE n == Matched(t, r, a)
           off == a - r - 1
           e == Reference(off, n - 2)
<1>5. n \in 3 .. MaxReference
  BY <1>2, <1>4, MatchExists
<1>6. lzf' = [lzf EXCEPT !.i = a + n, !.literal = 0, !.deflated = (s \o f) \o e]
  BY <1>4
<1>7. f \in Seq(Nat) /\ Len(f) <= b + 1 /\ Len(f) \in Nat
  <2>1. CASE b = 0
    <3>1. f = <<>>
      BY <2>1 DEF Flush
    <3> QED BY <1>2, <3>1, EmptySeq
  <2>2. CASE b # 0
    <3>1. b \in 1 .. MaxLiteral /\ a \in b .. Len(t)
      BY <1>2, <2>2
    <3>2. f \in Seq(Nat) /\ Len(f) = b + 1
      BY <1>2, <3>1, FlushWrites
    <3> HIDE DEF f, b
    <3> QED BY <1>2, <3>2
  <2> QED BY <2>1, <2>2
<1>8. e \in Seq(Nat) /\ Len(e) <= n - 1 /\ Len(e) \in Nat
  <2>1. off \in 0 .. (MaxOffset - 1)
    <3>1. a - r - 1 < MaxOffset /\ a \in Nat /\ MaxOffset \in Nat
      BY <1>2, <1>4, Widths DEF Repeats
    <3> QED BY <3>1
  <2> HIDE DEF n, off
  <2>2. n - 2 \in 1 .. (MaxReference - 2) /\ n \in Nat /\ n >= 3 /\ Escape \in Nat
    BY <1>5, Widths
  <2>3. e \in Seq(Bytes) /\ Len(e) = IF n - 2 >= Escape THEN 3 ELSE 2
    BY <2>1, <2>2, ReferenceReads
  <2>4. Bytes \subseteq Nat
    BY Widths DEF Bytes
  <2> HIDE DEF e
  <2>5. e \in Seq(Nat)
    BY <2>3, <2>4, SeqMonotonic
  <2> QED BY <2>2, <2>3, <2>5
<1> HIDE DEF e, f, n
<1>9. Len((s \o f) \o e) = d + Len(f) + Len(e)
  <2>1. s \o f \in Seq(Nat) /\ Len(s \o f) = d + Len(f)
    BY <1>2, <1>7, ConcatAfter
  <2> QED BY <1>8, <2>1, ConcatAfter
<1>10. lzf'.i = a + n /\ lzf'.literal = 0 /\ lzf'.deflated = (s \o f) \o e
  BY <1>2, <1>6 DEF Calls
<1>11. d + Len(f) + Len(e) <= ((a + n) - 0) + ((a + n) - 0) \div m
  <2> DEFINE x == a - b
             g == Len(f)
             h == Len(e)
             y == a + n
             k == x \div m
             l == y \div m
  <2> HIDE DEF a, b, d, m
  <2>1. /\ x \in Nat /\ y \in Nat /\ y = x + b + n /\ x <= y /\ (a + n) - 0 = y
        /\ n \in Nat /\ b \in Nat
    BY <1>2, <1>5
  <2>2. d <= x + k /\ g <= b + 1 /\ g \in Nat /\ h <= n - 1 /\ h \in Nat /\ d \in Nat
    BY <1>2, <1>3, <1>7, <1>8
  <2> HIDE DEF x, y
  <2>3. k \in Nat /\ k <= l /\ l \in Nat
    BY <1>2, <2>1, QuotientGrows
  <2> HIDE DEF g, h, k, l
  <2>4. d + g + h <= y + l
    BY <2>1, <2>2, <2>3
  <2> QED BY <2>1, <2>4 DEF g, h, l
<1>12. Len(lzf'.deflated) <= (lzf'.i - lzf'.literal) + (lzf'.i - lzf'.literal) \div MaxLiteral
  BY <1>9, <1>10, <1>11
<1> QED BY <1>12 DEF Grown

\* A text grows by one byte for every MaxLiteral bytes at most, whatever the hash
\* table refers to: a reference makes up for the literal it cuts short.  Escape,
\* 7 in the code, must be more than 1: else the shortest references take as many
\* bytes as they stand for.
THEOREM TextsGrowLittle == ASSUME Escape > 1 PROVE LzfSpec => []ExpansionBounded
<1>1. LzfInit => Grown(lzf)
  BY DEF LzfInit, IdleCall, Grown
<1>2. LInv /\ Grown(lzf) /\ [LzfNext]_lvars => Grown(lzf)'
  <2> SUFFICES ASSUME LInv, Grown(lzf), [LzfNext]_lvars PROVE Grown(lzf')
    BY DEF Grown
  <2>1. CASE UNCHANGED lvars
    BY <2>1 DEF lvars
  <2>2. CASE Begin
    <3>1. PICK t \in Texts : lzf' = [IdleCall EXCEPT !.pc = "deflate", !.source = t]
      BY <2>2 DEF Begin, LInv
    <3>2. lzf'.i = 0 /\ lzf'.literal = 0 /\ lzf'.deflated = <<>>
      BY <3>1 DEF IdleCall
    <3>3. 0 \div MaxLiteral \in Nat
      <4>1. MaxLiteral \in Nat \ {0} /\ 0 \in Nat /\ 0 <= 0
        BY Widths
      <4> QED BY <4>1, QuotientGrows
    <3>4. Len(<<>>) <= (0 - 0) + (0 - 0) \div MaxLiteral
      <4>1. Len(<<>>) = 0 /\ 0 - 0 = 0
        BY EmptySeq
      <4> DEFINE k == 0 \div MaxLiteral
      <4>2. k \in Nat
        BY <3>3
      <4> HIDE DEF k
      <4>3. 0 <= 0 + k
        BY <4>2
      <4> QED BY <4>1, <4>3 DEF k
    <3> QED BY <3>2, <3>4 DEF Grown
  <2>3. CASE Complete \/ CopyLiteral \/ CopyReference \/ Inflated \/ Return
    <3>1. lzf'.pc # "deflate"
      <4>1. lzf \in Calls
        BY DEF LInv
      <4>2. CASE Complete
        <5>1. lzf'.pc = "inflate"
          BY <4>1, <4>2 DEF Complete, Calls
        <5> QED BY <5>1
      <4>3. CASE CopyLiteral \/ CopyReference
        <5>1. lzf'.pc = "inflate"
          BY <4>1, <4>3 DEF CopyLiteral, CopyReference, Inflating, Calls
        <5> QED BY <5>1
      <4>4. CASE Inflated
        BY <4>1, <4>4 DEF Inflated, Calls
      <4>5. CASE Return
        BY <4>5 DEF Return, IdleCall
      <4> QED BY <2>3, <4>2, <4>3, <4>4, <4>5
    <3> QED BY <3>1 DEF Grown
  <2> QED BY <2>1, <2>2, <2>3, LiteralGrows, ReferGrows DEF LzfNext
<1>3. LInv /\ Grown(lzf) => ExpansionBounded
  <2> SUFFICES ASSUME LInv, Grown(lzf), lzf.pc = "deflate"
               PROVE  Len(lzf.deflated) + (IF lzf.literal > 0 THEN lzf.literal + 1 ELSE 0)
                        <= lzf.i + (lzf.i + MaxLiteral - 1) \div MaxLiteral
    BY DEF ExpansionBounded
  <2> DEFINE a == lzf.i
             b == lzf.literal
             d == Len(lzf.deflated)
             m == MaxLiteral
             x == a - b
             y == a + m - 1
             k == x \div m
             l == y \div m
  <2>1. /\ a \in Nat /\ b \in Nat /\ b <= a /\ d \in Nat /\ m \in Nat \ {0} /\ b < m
    <3>1. a \in Nat /\ b \in Nat /\ lzf.deflated \in Seq(Nat) /\ b <= a /\ b < m
      BY Deflating DEF Deflates
    <3> QED BY <3>1, Widths
  <2>2. d <= x + k
    BY DEF Grown
  <2> HIDE DEF a, b, d, m
  <2>3. x \in Nat /\ y \in Nat /\ x <= y /\ x + b = a
    BY <2>1
  <2>4. b > 0 => x + m <= y /\ x + m \in Nat
    BY <2>1
  <2>5. d + (IF b > 0 THEN b + 1 ELSE 0) <= a + l
    <3> HIDE DEF x, y
    <3>1. k \in Nat /\ k <= l /\ l \in Nat /\ (x + m) \div m = k + 1
      BY <2>1, <2>3, QuotientGrows
    <3>2. b > 0 => (x + m) \div m <= l
      BY <2>1, <2>3, <2>4, QuotientGrows
    <3> HIDE DEF k, l
    <3>3. b > 0 => k + 1 <= l
      BY <3>1, <3>2
    <3> QED BY <2>1, <2>2, <2>3, <3>1, <3>3
  <2> QED BY <2>5 DEF a, b, d, m, l, y
<1>4. QED
  BY <1>1, <1>2, <1>3, StreamsAreParsed, PTL DEF LzfSpec
=============================================================================
