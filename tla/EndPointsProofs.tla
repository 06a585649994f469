---------------------------- MODULE EndPointsProofs ----------------------------
(* Proofs about EndPoints.  An operation on the heap is looked at from the    *)
(* side of those who hold endpoints: it takes a claim away from a holder, or  *)
(* gives one to a holder that has none.                                       *)
EXTENDS EndPoints, TLAPS, NaturalsInduction, WellFoundedInduction, FiniteSetTheorems,
        SequenceTheorems

-----------------------------------------------------------------------------
(* Finite sets.                                                            *)

\* A set of which one element may have come or gone.
LEMMA OneChanged ==
    ASSUME NEW S, IsFiniteSet(S), NEW P \in SUBSET S, NEW Q \in SUBSET S, NEW s \in S,
           \A x \in S : x # s => (x \in P <=> x \in Q)
    PROVE  /\ IsFiniteSet(P) /\ Cardinality(P) \in Nat
           /\ IsFiniteSet(Q) /\ Cardinality(Q) \in Nat
           /\ Cardinality(Q) + (IF s \in P THEN 1 ELSE 0) = Cardinality(P) + (IF s \in Q THEN 1 ELSE 0)
<1>1. /\ IsFiniteSet(P) /\ Cardinality(P) \in Nat
      /\ IsFiniteSet(Q) /\ Cardinality(Q) \in Nat
  BY FS_Subset, FS_CardinalityType
<1>2. PICK R : R = P \ {s}
  OBVIOUS
<1>3. IsFiniteSet(R) /\ Cardinality(R) \in Nat /\ R = Q \ {s}
  BY <1>1, <1>2, FS_Subset, FS_CardinalityType
<1>4. Cardinality(P) = Cardinality(R) + (IF s \in P THEN 1 ELSE 0)
  <2>1. CASE s \in P
    <3>1. Cardinality(R) = Cardinality(P) - 1
      BY <1>1, <1>2, <2>1, FS_RemoveElement
    <3> QED BY <1>1, <2>1, <3>1
  <2>2. CASE s \notin P
    <3>1. R = P
      BY <1>2, <2>2
    <3> QED BY <1>1, <2>2, <3>1
  <2> QED BY <2>1, <2>2
<1>5. Cardinality(Q) = Cardinality(R) + (IF s \in Q THEN 1 ELSE 0)
  <2>1. CASE s \in Q
    <3>1. Cardinality(R) = Cardinality(Q) - 1
      BY <1>1, <1>3, <2>1, FS_RemoveElement
    <3> QED BY <1>1, <2>1, <3>1
  <2>2. CASE s \notin Q
    <3>1. R = Q
      BY <1>3, <2>2
    <3> QED BY <1>1, <2>2, <3>1
  <2> QED BY <2>1, <2>2
<1> QED BY <1>1, <1>3, <1>4, <1>5

\* A set that has an element is not counted as empty.
LEMMA SomeCounted ==
    ASSUME NEW P, IsFiniteSet(P)
    PROVE  Cardinality(P) \in Nat /\ (Cardinality(P) = 0 <=> P = {})
BY FS_CardinalityType, FS_EmptySet

-----------------------------------------------------------------------------
(* Holders and their claims.                                               *)

\* A call that is under way holds an endpoint as well.
Places == Holders \cup {<<"call", 0, 0>>}

ClientPlace(s) == <<"client", s, 0>>
MessagePlace(s, k) == <<"message", s, k>>
EventPlace(v) == <<"event", v, 0>>
LocalPlace == <<"local", 0, 0>>
RemotePlace == <<"remote", 0, 0>>
OwnPlace == <<"own", 0, 0>>
CallPlace == <<"call", 0, 0>>

MaybeEndPoint == EndPointIds \cup {Nobody}
MaybeRemote == Remotes \cup {Nobody}

\* What a holder has, and whom it takes that to name.
Claim == [remote : MaybeEndPoint, from : MaybeRemote]
Claims == [Places -> Claim]

\* The claim of who has an endpoint that names somebody.
To(n, r) == [remote |-> n, from |-> r]

\* The claims of one state.
ClaimOf(h, x, c, t, o, w) ==
    CASE w[1] = "client" -> [remote |-> c[w[2]].remote, from |-> c[w[2]].from]
      [] w[1] = "message" -> IF w[3] \in DOMAIN c[w[2]].queue THEN c[w[2]].queue[w[3]] ELSE NoEvent
      [] w[1] = "event" -> t[w[2]]
      [] w[1] = "local" -> [remote |-> x.local, from |-> IF x.local = Nobody THEN Nobody ELSE h.names[x.local]]
      [] w[1] = "remote" -> [remote |-> x.remote, from |-> IF x.remote = Nobody THEN Nobody ELSE h.names[x.remote]]
      [] w[1] = "own" -> [remote |-> o, from |-> IF o = Nobody THEN Nobody ELSE h.names[o]]
      [] OTHER -> NoEvent

ClaimsOf(h, x, c, t, o) == [w \in Places |-> ClaimOf(h, x, c, t, o, w)]

\* Those who have an endpoint.
Having(W, e) == {w \in Places : W[w].remote = e}

\* The endpoints of an address.
UsersOf(h, a) == {e \in EndPointIds : h.address[e] = a}

HeapType ==
    [count : [EndPointIds -> Nat], names : [EndPointIds -> MaybeRemote],
     address : [EndPointIds -> AddressIds \cup {Nobody}], lost : [EndPointIds -> Nat],
     refs : [AddressIds -> Nat],
     value : [AddressIds -> {AddressOf[r] : r \in Remotes} \cup {Nobody}], wild : BOOLEAN]

Extras == [AddressIds -> Nat]

\* The endpoints are counted by those who have them, and addresses by the endpoints that
\* have them and by B, the references of the caller.
Counted(h, W, B) ==
    /\ \A e \in EndPointIds : h.count[e] = Cardinality(Having(W, e)) + h.lost[e]
    /\ \A a \in AddressIds : h.refs[a] = Cardinality(UsersOf(h, a)) + B[a]

\* An endpoint in use names somebody and has the address of that.
Named(h) ==
    \A e \in EndPointIds :
      IF h.count[e] = 0 THEN h.address[e] = Nobody
      ELSE /\ h.address[e] \in AddressIds /\ h.names[e] \in Remotes
           /\ h.value[h.address[e]] = AddressOf[h.names[e]]

\* Who has an endpoint is right about whom it names.
Known(h, W) == \A w \in Places : W[w].remote # Nobody => h.names[W[w].remote] = W[w].from

HeapSound(h, W, B) ==
    /\ h \in HeapType /\ W \in Claims /\ B \in Extras
    /\ ~h.wild
    /\ Counted(h, W, B)
    /\ Named(h)
    /\ Known(h, W)

\* A holder's claim becomes another one.
Given(W, w, c) == [W EXCEPT ![w] = c]


More(B, a) == [B EXCEPT ![a] = B[a] + 1]
Less(B, a) == [B EXCEPT ![a] = B[a] - 1]

\* The sets the proofs count in are finite.
LEMMA Finite ==
    IsFiniteSet(EndPointIds) /\ IsFiniteSet(AddressIds) /\ IsFiniteSet(Places)
<1>1. IsFiniteSet(EndPointIds) /\ IsFiniteSet(AddressIds) /\ IsFiniteSet(SlotIds) /\ IsFiniteSet(EventIds)
      /\ IsFiniteSet(1..MaxQueued)
  BY FS_Interval, EndPointAssumption DEF EndPointIds, AddressIds, SlotIds, EventIds
<1>2. IsFiniteSet({"client"} \X SlotIds \X {0})
  <2>1. IsFiniteSet({"client"}) /\ IsFiniteSet({0})
    BY FS_Singleton
  <2> DEFINE f == [s \in SlotIds |-> <<"client", s, 0>>]
             T == {"client"} \X SlotIds \X {0}
  <2>2. f \in Surjection(SlotIds, T)
    <3>1. f \in [SlotIds -> T] /\ \A t \in T : \E s \in SlotIds : f[s] = t
      OBVIOUS
    <3> QED BY <3>1 DEF Surjection
  <2> QED BY <1>1, <2>2, FS_Surjection
<1>3. IsFiniteSet({"event"} \X EventIds \X {0})
  <2> DEFINE f == [s \in EventIds |-> <<"event", s, 0>>]
             T == {"event"} \X EventIds \X {0}
  <2>2. f \in Surjection(EventIds, T)
    <3>1. f \in [EventIds -> T] /\ \A t \in T : \E s \in EventIds : f[s] = t
      OBVIOUS
    <3> QED BY <3>1 DEF Surjection
  <2> QED BY <1>1, <2>2, FS_Surjection
<1>4. IsFiniteSet({"message"} \X SlotIds \X (1..MaxQueued))
  <2> DEFINE D == SlotIds \X (1..MaxQueued)
             f == [d \in D |-> <<"message", d[1], d[2]>>]
             T == {"message"} \X SlotIds \X (1..MaxQueued)
  <2>1. IsFiniteSet(D)
    BY <1>1, FS_Product
  <2>2. f \in Surjection(D, T)
    <3>1. f \in [D -> T]
      OBVIOUS
    <3>2. ASSUME NEW t \in T PROVE \E d \in D : f[d] = t
      <4>1. <<t[2], t[3]>> \in D /\ f[<<t[2], t[3]>>] = t
        OBVIOUS
      <4> QED BY <4>1
    <3> QED BY <3>1, <3>2 DEF Surjection
  <2> QED BY <2>1, <2>2, FS_Surjection
<1>5. IsFiniteSet({"local", "remote", "own"} \X {0} \X {0})
  <2> DEFINE S == {"local"} \cup {"remote"} \cup {"own"}
             f == [n \in S |-> <<n, 0, 0>>]
             T == {"local", "remote", "own"} \X {0} \X {0}
  <2>1. IsFiniteSet(S)
    BY FS_Singleton, FS_Union
  <2>2. f \in Surjection(S, T)
    <3>1. f \in [S -> T] /\ \A t \in T : \E n \in S : f[n] = t
      OBVIOUS
    <3> QED BY <3>1 DEF Surjection
  <2> QED BY <2>1, <2>2, FS_Surjection
<1>6. IsFiniteSet(Holders)
  BY <1>2, <1>3, <1>4, <1>5, FS_Union DEF Holders
<1> QED BY <1>1, <1>6, FS_Singleton, FS_Union DEF Places

\* The places, one kind after the other.
LEMMA PlaceCases ==
    /\ \A w \in Places :
         \/ \E s \in SlotIds : w = ClientPlace(s)
         \/ \E s \in SlotIds, k \in 1..MaxQueued : w = MessagePlace(s, k)
         \/ \E v \in EventIds : w = EventPlace(v)
         \/ w = LocalPlace \/ w = RemotePlace \/ w = OwnPlace \/ w = CallPlace
    /\ \A s \in SlotIds : ClientPlace(s) \in Places
    /\ \A s \in SlotIds, k \in 1..MaxQueued : MessagePlace(s, k) \in Places
    /\ \A v \in EventIds : EventPlace(v) \in Places
    /\ LocalPlace \in Places /\ RemotePlace \in Places /\ OwnPlace \in Places /\ CallPlace \in Places
<1>1. ASSUME NEW w \in Places
      PROVE  \/ \E s \in SlotIds : w = ClientPlace(s)
             \/ \E s \in SlotIds, k \in 1..MaxQueued : w = MessagePlace(s, k)
             \/ \E v \in EventIds : w = EventPlace(v)
             \/ w = LocalPlace \/ w = RemotePlace \/ w = OwnPlace \/ w = CallPlace
  <2>1. CASE w \in {"client"} \X SlotIds \X {0}
    BY <2>1 DEF ClientPlace
  <2>2. CASE w \in {"message"} \X SlotIds \X (1..MaxQueued)
    BY <2>2 DEF MessagePlace
  <2>3. CASE w \in {"event"} \X EventIds \X {0}
    BY <2>3 DEF EventPlace
  <2>4. CASE w \in {"local", "remote", "own"} \X {0} \X {0}
    BY <2>4 DEF LocalPlace, RemotePlace, OwnPlace
  <2>5. CASE w \in {<<"call", 0, 0>>}
    BY <2>5 DEF CallPlace
  <2> QED BY <2>1, <2>2, <2>3, <2>4, <2>5 DEF Places, Holders
<1> QED BY <1>1 DEF Places, Holders, ClientPlace, MessagePlace, EventPlace, LocalPlace, RemotePlace,
                    OwnPlace, CallPlace

\* No two holders have one place.
LEMMA PlacesDiffer ==
    /\ \A s, t : ClientPlace(s) = ClientPlace(t) <=> s = t
    /\ \A s, t, j, k : MessagePlace(s, j) = MessagePlace(t, k) <=> s = t /\ j = k
    /\ \A v, u : EventPlace(v) = EventPlace(u) <=> v = u
    /\ \A s, t, k : ClientPlace(s) # MessagePlace(t, k)
    /\ \A s, v : ClientPlace(s) # EventPlace(v)
    /\ \A s, k, v : MessagePlace(s, k) # EventPlace(v)
    /\ \A s : ClientPlace(s) \notin {LocalPlace, RemotePlace, OwnPlace, CallPlace}
    /\ \A s, k : MessagePlace(s, k) \notin {LocalPlace, RemotePlace, OwnPlace, CallPlace}
    /\ \A v : EventPlace(v) \notin {LocalPlace, RemotePlace, OwnPlace, CallPlace}
    /\ LocalPlace # RemotePlace /\ LocalPlace # OwnPlace /\ LocalPlace # CallPlace
    /\ RemotePlace # OwnPlace /\ RemotePlace # CallPlace /\ OwnPlace # CallPlace
BY DEF ClientPlace, MessagePlace, EventPlace, LocalPlace, RemotePlace, OwnPlace, CallPlace

\* What each holder has in a state.
ClaimsAre(W, h, x, c, t, o) ==
    /\ \A s \in SlotIds : W[ClientPlace(s)] = To(c[s].remote, c[s].from)
    /\ \A s \in SlotIds, k \in 1..MaxQueued :
         W[MessagePlace(s, k)] = IF k \in DOMAIN c[s].queue THEN c[s].queue[k] ELSE NoEvent
    /\ \A v \in EventIds : W[EventPlace(v)] = t[v]
    /\ W[LocalPlace] = To(x.local, IF x.local = Nobody THEN Nobody ELSE h.names[x.local])
    /\ W[RemotePlace] = To(x.remote, IF x.remote = Nobody THEN Nobody ELSE h.names[x.remote])
    /\ W[OwnPlace] = To(o, IF o = Nobody THEN Nobody ELSE h.names[o])
    /\ W[CallPlace] = NoEvent

\* The claims of a state are these.
LEMMA ClaimIs ==
    ASSUME NEW h, NEW x, NEW c, NEW t, NEW o, NEW W, W = ClaimsOf(h, x, c, t, o)
    PROVE  ClaimsAre(W, h, x, c, t, o)
<1>1. \A w \in Places : W[w] = ClaimOf(h, x, c, t, o, w)
  BY DEF ClaimsOf
<1> USE PlaceCases
<1>2. \A s \in SlotIds : W[ClientPlace(s)] = To(c[s].remote, c[s].from)
  BY <1>1 DEF ClaimOf, ClientPlace, To
<1>3. \A s \in SlotIds, k \in 1..MaxQueued :
        W[MessagePlace(s, k)] = IF k \in DOMAIN c[s].queue THEN c[s].queue[k] ELSE NoEvent
  BY <1>1 DEF ClaimOf, MessagePlace
<1>4. \A v \in EventIds : W[EventPlace(v)] = t[v]
  BY <1>1 DEF ClaimOf, EventPlace
<1>5. W[LocalPlace] = To(x.local, IF x.local = Nobody THEN Nobody ELSE h.names[x.local])
  BY <1>1 DEF ClaimOf, LocalPlace, To
<1>6. W[RemotePlace] = To(x.remote, IF x.remote = Nobody THEN Nobody ELSE h.names[x.remote])
  BY <1>1 DEF ClaimOf, RemotePlace, To
<1>7. W[OwnPlace] = To(o, IF o = Nobody THEN Nobody ELSE h.names[o])
  BY <1>1 DEF ClaimOf, OwnPlace, To
<1>8. W[CallPlace] = NoEvent
  BY <1>1 DEF ClaimOf, CallPlace
<1> QED BY <1>2, <1>3, <1>4, <1>5, <1>6, <1>7, <1>8 DEF ClaimsAre

-----------------------------------------------------------------------------
(* A holder's claim changes.                                               *)

\* 1 for what is the same.
Same(a, b) == IF a = b THEN 1 ELSE 0

\* The claim of one holder changes, and with it who has which endpoint.
LEMMA HavingGiven ==
    ASSUME NEW W \in Claims, NEW w \in Places, NEW c \in Claim, NEW V, V = Given(W, w, c)
    PROVE  /\ V \in Claims /\ V[w] = c /\ \A u \in Places : u # w => V[u] = W[u]
           /\ \A e : /\ Cardinality(Having(W, e)) \in Nat /\ Cardinality(Having(V, e)) \in Nat
                     /\ Cardinality(Having(V, e)) + Same(W[w].remote, e)
                          = Cardinality(Having(W, e)) + Same(c.remote, e)
<1>1. V \in Claims /\ V[w] = c /\ \A u \in Places : u # w => V[u] = W[u]
  BY DEF Claims, Given
<1>2. ASSUME NEW e
      PROVE  /\ Cardinality(Having(W, e)) \in Nat /\ Cardinality(Having(V, e)) \in Nat
             /\ Cardinality(Having(V, e)) + Same(W[w].remote, e)
                  = Cardinality(Having(W, e)) + Same(c.remote, e)
  <2>1. PICK P : P = Having(W, e)
    OBVIOUS
  <2>2. PICK Q : Q = Having(V, e)
    OBVIOUS
  <2>3. /\ P \in SUBSET Places /\ Q \in SUBSET Places
        /\ \A u \in Places : u # w => (u \in P <=> u \in Q)
        /\ w \in P <=> W[w].remote = e
        /\ w \in Q <=> c.remote = e
    BY <1>1, <2>1, <2>2 DEF Having
  <2>4. /\ Cardinality(P) \in Nat /\ Cardinality(Q) \in Nat
        /\ Cardinality(Q) + (IF w \in P THEN 1 ELSE 0) = Cardinality(P) + (IF w \in Q THEN 1 ELSE 0)
    BY <2>3, Finite, OneChanged
  <2> QED BY <2>1, <2>2, <2>3, <2>4 DEF Same
<1> QED BY <1>1, <1>2

\* Who has an endpoint is counted.
LEMMA HavingCounted ==
    ASSUME NEW W, NEW e
    PROVE  /\ Cardinality(Having(W, e)) \in Nat
           /\ \A w \in Places : W[w].remote = e => Cardinality(Having(W, e)) > 0
<1>1. IsFiniteSet(Having(W, e))
  BY Finite, FS_Subset DEF Having
<1>2. \A w \in Places : W[w].remote = e => Having(W, e) # {}
  BY DEF Having
<1> QED BY <1>1, <1>2, SomeCounted

\* No other endpoint's address changes.
OthersStay(h, g, e) == \A d \in EndPointIds : d # e => g.address[d] = h.address[d]

\* One endpoint's address changes, and with it who has which address.
LEMMA UsersChanged ==
    ASSUME NEW h, NEW g, NEW e \in EndPointIds, OthersStay(h, g, e), NEW a
    PROVE  /\ Cardinality(UsersOf(h, a)) \in Nat /\ Cardinality(UsersOf(g, a)) \in Nat
           /\ Cardinality(UsersOf(g, a)) + Same(h.address[e], a)
                = Cardinality(UsersOf(h, a)) + Same(g.address[e], a)
<1>1. PICK P : P = UsersOf(h, a)
  OBVIOUS
<1>2. PICK Q : Q = UsersOf(g, a)
  OBVIOUS
<1>3. /\ P \in SUBSET EndPointIds /\ Q \in SUBSET EndPointIds
      /\ \A d \in EndPointIds : d # e => (d \in P <=> d \in Q)
      /\ e \in P <=> h.address[e] = a
      /\ e \in Q <=> g.address[e] = a
  BY <1>1, <1>2 DEF UsersOf, OthersStay
<1>4. /\ Cardinality(P) \in Nat /\ Cardinality(Q) \in Nat
      /\ Cardinality(Q) + (IF e \in P THEN 1 ELSE 0) = Cardinality(P) + (IF e \in Q THEN 1 ELSE 0)
  BY <1>3, Finite, OneChanged
<1> QED BY <1>1, <1>2, <1>3, <1>4 DEF Same

\* The users of an address are counted.
LEMMA UsersCounted ==
    ASSUME NEW h, NEW a
    PROVE  /\ Cardinality(UsersOf(h, a)) \in Nat
           /\ \A e \in EndPointIds : h.address[e] = a => Cardinality(UsersOf(h, a)) > 0
<1>1. IsFiniteSet(UsersOf(h, a))
  BY Finite, FS_Subset DEF UsersOf
<1>2. \A e \in EndPointIds : h.address[e] = a => UsersOf(h, a) # {}
  BY DEF UsersOf
<1> QED BY <1>1, <1>2, SomeCounted

-----------------------------------------------------------------------------
(* Addresses.                                                              *)

\* The endpoints are as they were.
SameEndPoints(h, g) ==
    g.count = h.count /\ g.names = h.names /\ g.address = h.address /\ g.lost = h.lost

\* A count is a number that is not below zero.
LEMMA MoreLess ==
    ASSUME NEW B \in Extras, NEW a \in AddressIds
    PROVE  /\ More(B, a) \in Extras /\ More(B, a)[a] = B[a] + 1
           /\ \A b \in AddressIds : b # a => More(B, a)[b] = B[b]
           /\ B[a] > 0 => Less(B, a) \in Extras
           /\ Less(B, a)[a] = B[a] - 1
           /\ \A b \in AddressIds : b # a => Less(B, a)[b] = B[b]
BY DEF More, Less, Extras

\* An address comes to be.
AddressAt(h, a, v) == [h EXCEPT !.refs[a] = 1, !.value[a] = v]

\* Nothing is said of an address that has no references.
LEMMA AddressNewSound ==
    ASSUME NEW h, NEW W, NEW B, HeapSound(h, W, B), NEW a \in AddressIds, h.refs[a] = 0,
           NEW r \in Remotes, NEW g, g = AddressAt(h, a, AddressOf[r]),
           NEW C, C = More(B, a)
    PROVE  /\ HeapSound(g, W, C) /\ SameEndPoints(h, g)
           /\ g.value[a] = AddressOf[r] /\ g.refs[a] > 0 /\ C[a] = 1
<1>1. h \in HeapType /\ W \in Claims /\ B \in Extras /\ ~h.wild /\ Counted(h, W, B) /\ Named(h) /\ Known(h, W)
  BY DEF HeapSound
<1>2. /\ g \in HeapType /\ SameEndPoints(h, g) /\ g.wild = h.wild
      /\ g.refs[a] = 1 /\ \A b \in AddressIds : b # a => g.refs[b] = h.refs[b]
      /\ g.value[a] = AddressOf[r] /\ \A b \in AddressIds : b # a => g.value[b] = h.value[b]
  BY <1>1 DEF HeapType, SameEndPoints, AddressAt
<1>3. Cardinality(UsersOf(h, a)) = 0 /\ B[a] = 0
  <2>1. h.refs[a] = Cardinality(UsersOf(h, a)) + B[a]
    BY <1>1 DEF Counted
  <2>2. Cardinality(UsersOf(h, a)) \in Nat /\ B[a] \in Nat
    BY <1>1, UsersCounted DEF Extras
  <2> QED BY <2>1, <2>2
<1>4. C \in Extras /\ C[a] = 1 /\ \A b \in AddressIds : b # a => C[b] = B[b]
  BY <1>1, <1>3, MoreLess
<1>5. Counted(g, W, C)
  <2>1. \A b : UsersOf(g, b) = UsersOf(h, b)
    BY <1>2 DEF UsersOf, SameEndPoints
  <2>2. ASSUME NEW b \in AddressIds PROVE g.refs[b] = Cardinality(UsersOf(g, b)) + C[b]
    <3>1. CASE b = a
      BY <1>2, <1>3, <1>4, <2>1, <3>1
    <3>2. CASE b # a
      <4>1. h.refs[b] = Cardinality(UsersOf(h, b)) + B[b]
        BY <1>1 DEF Counted
      <4> QED BY <1>2, <1>4, <2>1, <3>2, <4>1
    <3> QED BY <3>1, <3>2
  <2>3. \A e \in EndPointIds : g.count[e] = Cardinality(Having(W, e)) + g.lost[e]
    BY <1>1, <1>2 DEF Counted, SameEndPoints
  <2> QED BY <2>2, <2>3 DEF Counted
<1>6. Named(g)
  <2>1. \A e \in EndPointIds : h.address[e] # a
    BY <1>3, UsersCounted
  <2> QED BY <1>1, <1>2, <2>1 DEF Named, SameEndPoints
<1>7. Known(g, W)
  BY <1>1, <1>2 DEF Known, SameEndPoints
<1> QED BY <1>1, <1>2, <1>4, <1>5, <1>6, <1>7 DEF HeapSound

\* The caller shares an address.
LEMMA AddressShareSound ==
    ASSUME NEW h, NEW W, NEW B, HeapSound(h, W, B), NEW a \in AddressIds, h.refs[a] > 0,
           NEW g, g = AddressShare(h, a), NEW C, C = More(B, a)
    PROVE  /\ HeapSound(g, W, C) /\ SameEndPoints(h, g) /\ g.value = h.value
           /\ C[a] > 0 /\ \A b \in AddressIds : g.refs[b] >= h.refs[b]
<1>1. h \in HeapType /\ W \in Claims /\ B \in Extras /\ ~h.wild /\ Counted(h, W, B) /\ Named(h) /\ Known(h, W)
  BY DEF HeapSound
<1>2. g = [h EXCEPT !.refs[a] = @ + 1]
  BY <1>1 DEF AddressShare, HeapType
<1>3. /\ g \in HeapType /\ SameEndPoints(h, g) /\ g.wild = h.wild /\ g.value = h.value
      /\ g.refs[a] = h.refs[a] + 1 /\ \A b \in AddressIds : b # a => g.refs[b] = h.refs[b]
  BY <1>1, <1>2 DEF HeapType, SameEndPoints
<1>4. C \in Extras /\ C[a] = B[a] + 1 /\ \A b \in AddressIds : b # a => C[b] = B[b]
  BY <1>1, MoreLess
<1>5. Counted(g, W, C)
  <2>1. \A b : UsersOf(g, b) = UsersOf(h, b)
    BY <1>3 DEF UsersOf, SameEndPoints
  <2>2. ASSUME NEW b \in AddressIds PROVE g.refs[b] = Cardinality(UsersOf(g, b)) + C[b]
    <3>1. h.refs[b] = Cardinality(UsersOf(h, b)) + B[b]
      BY <1>1 DEF Counted
    <3>2. Cardinality(UsersOf(h, b)) \in Nat /\ B[b] \in Nat
      BY <1>1, UsersCounted DEF Extras
    <3> QED BY <1>3, <1>4, <2>1, <3>1, <3>2
  <2>3. \A e \in EndPointIds : g.count[e] = Cardinality(Having(W, e)) + g.lost[e]
    BY <1>1, <1>3 DEF Counted, SameEndPoints
  <2> QED BY <2>2, <2>3 DEF Counted
<1>6. Named(g)
  BY <1>1, <1>3 DEF Named, SameEndPoints
<1>7. Known(g, W)
  BY <1>1, <1>3 DEF Known, SameEndPoints
<1>8. C[a] > 0 /\ \A b \in AddressIds : g.refs[b] >= h.refs[b]
  BY <1>1, <1>3, <1>4 DEF Extras, HeapType
<1> QED BY <1>1, <1>3, <1>4, <1>5, <1>6, <1>7, <1>8 DEF HeapSound

\* The caller gives an address up.
LEMMA AddressDestroySound ==
    ASSUME NEW h, NEW W, NEW B, HeapSound(h, W, B), NEW a \in AddressIds, B[a] > 0,
           NEW g, g = AddressDestroy(h, a), NEW C, C = Less(B, a)
    PROVE  HeapSound(g, W, C) /\ SameEndPoints(h, g)
<1>1. h \in HeapType /\ W \in Claims /\ B \in Extras /\ ~h.wild /\ Counted(h, W, B) /\ Named(h) /\ Known(h, W)
  BY DEF HeapSound
<1>2. /\ h.refs[a] = Cardinality(UsersOf(h, a)) + B[a]
      /\ Cardinality(UsersOf(h, a)) \in Nat /\ B[a] \in Nat
  BY <1>1, UsersCounted DEF Extras, Counted
<1>3. /\ g \in HeapType /\ SameEndPoints(h, g) /\ g.wild = h.wild
      /\ g.refs[a] = h.refs[a] - 1 /\ \A b \in AddressIds : b # a => g.refs[b] = h.refs[b]
      /\ \A b \in AddressIds : b # a => g.value[b] = h.value[b]
      /\ h.refs[a] > 1 => g.value[a] = h.value[a]
  <2>1. CASE h.refs[a] = 1
    <3>1. g = [h EXCEPT !.refs[a] = 0, !.value[a] = Nobody]
      BY <2>1 DEF AddressDestroy
    <3>2. /\ SameEndPoints(h, g) /\ g.wild = h.wild
          /\ g.refs = [h.refs EXCEPT ![a] = 0] /\ g.value = [h.value EXCEPT ![a] = Nobody]
      BY <1>1, <3>1 DEF HeapType, SameEndPoints
    <3>3. g \in HeapType
      <4>1. /\ g = [h EXCEPT !.refs = g.refs, !.value = g.value]
            /\ g.refs \in [AddressIds -> Nat]
            /\ g.value \in [AddressIds -> {AddressOf[r] : r \in Remotes} \cup {Nobody}]
        BY <1>1, <3>1, <3>2 DEF HeapType
      <4> QED BY <1>1, <4>1 DEF HeapType
    <3>4. /\ g.refs[a] = 0 /\ \A b \in AddressIds : b # a => g.refs[b] = h.refs[b]
          /\ \A b \in AddressIds : b # a => g.value[b] = h.value[b]
      BY <1>1, <3>2 DEF HeapType
    <3> QED BY <2>1, <3>2, <3>3, <3>4
  <2>2. CASE h.refs[a] > 1
    <3>1. g = [h EXCEPT !.refs[a] = @ - 1]
      BY <1>2, <2>2 DEF AddressDestroy
    <3> QED BY <1>1, <2>2, <3>1 DEF HeapType, SameEndPoints
  <2> QED BY <1>2, <2>1, <2>2
<1>4. C \in Extras /\ C[a] = B[a] - 1 /\ \A b \in AddressIds : b # a => C[b] = B[b]
  BY <1>1, MoreLess
<1>5. Counted(g, W, C)
  <2>1. \A b : UsersOf(g, b) = UsersOf(h, b)
    BY <1>3 DEF UsersOf, SameEndPoints
  <2>2. ASSUME NEW b \in AddressIds PROVE g.refs[b] = Cardinality(UsersOf(g, b)) + C[b]
    <3>1. h.refs[b] = Cardinality(UsersOf(h, b)) + B[b]
      BY <1>1 DEF Counted
    <3>2. Cardinality(UsersOf(h, b)) \in Nat /\ B[b] \in Nat
      BY <1>1, UsersCounted DEF Extras
    <3> QED BY <1>3, <1>4, <2>1, <3>1, <3>2
  <2>3. \A e \in EndPointIds : g.count[e] = Cardinality(Having(W, e)) + g.lost[e]
    BY <1>1, <1>3 DEF Counted, SameEndPoints
  <2> QED BY <2>2, <2>3 DEF Counted
<1>6. Named(g)
  <2>1. ASSUME NEW e \in EndPointIds, h.address[e] = a PROVE g.value[a] = h.value[a]
    <3>1. Cardinality(UsersOf(h, a)) > 0
      BY <2>1, UsersCounted
    <3> QED BY <1>2, <1>3, <3>1
  <2> QED BY <1>1, <1>3, <2>1 DEF Named, SameEndPoints
<1>7. Known(g, W)
  BY <1>1, <1>3 DEF Known, SameEndPoints
<1> QED BY <1>1, <1>3, <1>4, <1>5, <1>6, <1>7 DEF HeapSound

-----------------------------------------------------------------------------
(* Endpoints.                                                              *)

\* What two holders have may be exchanged, and what is said of nothing is of no matter.
Alike(W, V) ==
    \A w \in Places : /\ V[w].remote = W[w].remote
                      /\ W[w].remote # Nobody => V[w].from = W[w].from

\* Claims that are alike are the same to a heap.
LEMMA AlikeSound ==
    ASSUME NEW h, NEW W, NEW B, HeapSound(h, W, B), NEW V \in Claims, Alike(W, V)
    PROVE  HeapSound(h, V, B)
<1>1. \A e : Having(V, e) = Having(W, e)
  BY DEF Having, Alike
<1>2. Counted(h, V, B)
  BY <1>1 DEF HeapSound, Counted
<1>3. Known(h, V)
  BY DEF HeapSound, Known, Alike
<1> QED BY <1>2, <1>3 DEF HeapSound

\* An endpoint that somebody has is counted, and names whom he thinks.
LEMMA ClaimedIs ==
    ASSUME NEW h, NEW W, NEW B, HeapSound(h, W, B), NEW w \in Places, NEW e, e = W[w].remote, e # Nobody
    PROVE  /\ e \in EndPointIds /\ h.count[e] > 0 /\ h.count[e] > h.lost[e]
           /\ h.names[e] = W[w].from /\ W[w].from \in Remotes
           /\ h.address[e] \in AddressIds /\ h.refs[h.address[e]] > 0
           /\ h.value[h.address[e]] = AddressOf[W[w].from]
<1>1. h \in HeapType /\ W \in Claims /\ B \in Extras /\ Counted(h, W, B) /\ Named(h) /\ Known(h, W)
  BY DEF HeapSound
<1>2. e \in EndPointIds
  BY <1>1 DEF Claims, Claim, MaybeEndPoint
<1>3. Cardinality(Having(W, e)) \in Nat /\ Cardinality(Having(W, e)) > 0
  BY HavingCounted
<1>4. h.count[e] = Cardinality(Having(W, e)) + h.lost[e] /\ h.lost[e] \in Nat
  BY <1>1, <1>2 DEF Counted, HeapType
<1>5. h.count[e] > 0 /\ h.count[e] > h.lost[e]
  BY <1>3, <1>4
<1>6. h.names[e] = W[w].from
  BY <1>1 DEF Known
<1>7. h.address[e] \in AddressIds /\ h.names[e] \in Remotes /\ h.value[h.address[e]] = AddressOf[h.names[e]]
  BY <1>1, <1>2, <1>5 DEF Named
<1>8. h.refs[h.address[e]] > 0
  <2>1. PICK a \in AddressIds : a = h.address[e]
    BY <1>7
  <2>2. h.refs[a] = Cardinality(UsersOf(h, a)) + B[a] /\ B[a] \in Nat
    BY <1>1 DEF Counted, Extras
  <2>3. Cardinality(UsersOf(h, a)) \in Nat /\ Cardinality(UsersOf(h, a)) > 0
    BY <1>2, <2>1, UsersCounted
  <2> QED BY <2>1, <2>2, <2>3
<1> QED BY <1>2, <1>5, <1>6, <1>7, <1>8

\* The number of those who have an endpoint is not below zero, and nobody has one that
\* is not in use.
LEMMA UnusedIs ==
    ASSUME NEW h, NEW W, NEW B, HeapSound(h, W, B), NEW n \in EndPointIds, h.count[n] = 0
    PROVE  /\ Cardinality(Having(W, n)) = 0 /\ h.lost[n] = 0 /\ h.address[n] = Nobody
           /\ \A w \in Places : W[w].remote # n
<1>1. h.count[n] = Cardinality(Having(W, n)) + h.lost[n] /\ h.lost[n] \in Nat
  BY DEF HeapSound, Counted, HeapType
<1>2. Cardinality(Having(W, n)) \in Nat /\ \A w \in Places : W[w].remote = n => Cardinality(Having(W, n)) > 0
  BY HavingCounted
<1>3. Cardinality(Having(W, n)) = 0 /\ h.lost[n] = 0
  BY <1>1, <1>2
<1> QED BY <1>2, <1>3 DEF HeapSound, Named

\* Nobody is no address.
LEMMA NobodyIs == Nobody \notin AddressIds /\ Nobody \notin EndPointIds /\ Nobody \notin Remotes
BY EndPointAssumption DEF AddressIds, EndPointIds, Remotes

\* A new endpoint takes over the caller's reference to its address.
LEMMA EndPointNewSound ==
    ASSUME NEW h, NEW W, NEW B, HeapSound(h, W, B), NEW n \in EndPointIds, n = NextEndPoint, h.count[n] = 0,
           NEW a \in AddressIds, B[a] > 0, NEW r \in Remotes, h.value[a] = AddressOf[r],
           NEW w \in Places, W[w].remote = Nobody,
           NEW g, g = EndPointNew(h, a, r), NEW V, V = Given(W, w, To(n, r)),
           NEW C, C = Less(B, a)
    PROVE  HeapSound(g, V, C) /\ \A d \in EndPointIds : d # n => g.names[d] = h.names[d]
<1>1. h \in HeapType /\ W \in Claims /\ B \in Extras /\ ~h.wild /\ Counted(h, W, B) /\ Named(h) /\ Known(h, W)
  BY DEF HeapSound
<1>2. Cardinality(Having(W, n)) = 0 /\ h.lost[n] = 0 /\ h.address[n] = Nobody /\ \A u \in Places : W[u].remote # n
  BY UnusedIs
<1>3. /\ g \in HeapType /\ g.wild = h.wild /\ g.lost = h.lost /\ g.refs = h.refs /\ g.value = h.value
      /\ g.count[n] = 1 /\ \A d \in EndPointIds : d # n => g.count[d] = h.count[d]
      /\ g.names[n] = r /\ \A d \in EndPointIds : d # n => g.names[d] = h.names[d]
      /\ g.address[n] = a /\ \A d \in EndPointIds : d # n => g.address[d] = h.address[d]
  <2>1. g = [h EXCEPT !.count[n] = 1, !.names[n] = r, !.address[n] = a]
    BY DEF EndPointNew
  <2>2. /\ g.wild = h.wild /\ g.lost = h.lost /\ g.refs = h.refs /\ g.value = h.value
        /\ g.count = [h.count EXCEPT ![n] = 1] /\ g.names = [h.names EXCEPT ![n] = r]
        /\ g.address = [h.address EXCEPT ![n] = a]
    BY <1>1, <2>1 DEF HeapType
  <2>3. /\ h.count \in [EndPointIds -> Nat] /\ h.names \in [EndPointIds -> MaybeRemote]
        /\ h.address \in [EndPointIds -> AddressIds \cup {Nobody}]
    BY <1>1 DEF HeapType
  <2>4. /\ g.count \in [EndPointIds -> Nat] /\ g.names \in [EndPointIds -> MaybeRemote]
        /\ g.address \in [EndPointIds -> AddressIds \cup {Nobody}]
    BY <2>2, <2>3 DEF MaybeRemote
  <2>5. g = [h EXCEPT !.count = g.count, !.names = g.names, !.address = g.address]
    BY <1>1, <2>1, <2>2 DEF HeapType
  <2>6. g \in HeapType
    BY <1>1, <2>4, <2>5 DEF HeapType
  <2> QED BY <2>2, <2>3, <2>6
<1>4. To(n, r) \in Claim
  BY DEF To, Claim, MaybeEndPoint, MaybeRemote
<1>5. PICK c : c = To(n, r) /\ c.remote = n /\ c.from = r
  BY DEF To
<1>6. /\ V \in Claims /\ V[w] = c /\ \A u \in Places : u # w => V[u] = W[u]
      /\ \A e : /\ Cardinality(Having(W, e)) \in Nat /\ Cardinality(Having(V, e)) \in Nat
                /\ Cardinality(Having(V, e)) + Same(W[w].remote, e)
                     = Cardinality(Having(W, e)) + Same(c.remote, e)
  BY <1>1, <1>4, <1>5, HavingGiven
<1>7. C \in Extras /\ C[a] = B[a] - 1 /\ \A b \in AddressIds : b # a => C[b] = B[b]
  BY <1>1, MoreLess
<1>8. Counted(g, V, C)
  <2>1. ASSUME NEW e \in EndPointIds PROVE g.count[e] = Cardinality(Having(V, e)) + g.lost[e]
    <3>1. c.remote = n /\ Nobody # e
      BY <1>5, NobodyIs
    <3>2. h.count[e] = Cardinality(Having(W, e)) + h.lost[e]
      BY <1>1 DEF Counted
    <3>3. Cardinality(Having(V, e)) = Cardinality(Having(W, e)) + Same(n, e)
      BY <1>6, <3>1 DEF Same
    <3>4. CASE e = n
      BY <1>2, <1>3, <3>3, <3>4 DEF Same
    <3>5. CASE e # n
      <4>1. Cardinality(Having(V, e)) = Cardinality(Having(W, e))
        BY <1>6, <3>3, <3>5 DEF Same
      <4> QED BY <1>3, <3>2, <3>5, <4>1
    <3> QED BY <3>4, <3>5
  <2>2. ASSUME NEW b \in AddressIds PROVE g.refs[b] = Cardinality(UsersOf(g, b)) + C[b]
    <3>1. /\ Cardinality(UsersOf(h, b)) \in Nat /\ Cardinality(UsersOf(g, b)) \in Nat
          /\ Cardinality(UsersOf(g, b)) + Same(h.address[n], b)
               = Cardinality(UsersOf(h, b)) + Same(g.address[n], b)
      <4>1. OthersStay(h, g, n)
        BY <1>3 DEF OthersStay
      <4> QED BY <4>1, UsersChanged
    <3>2. h.refs[b] = Cardinality(UsersOf(h, b)) + B[b] /\ B[b] \in Nat
      BY <1>1 DEF Counted, Extras
    <3>3. h.address[n] # b
      BY <1>2, NobodyIs
    <3> QED BY <1>3, <1>7, <3>1, <3>2, <3>3 DEF Same
  <2> QED BY <2>1, <2>2 DEF Counted
<1>9. Named(g)
  BY <1>1, <1>3 DEF Named
<1>10. Known(g, V)
  BY <1>1, <1>2, <1>3, <1>5, <1>6 DEF Known, Claims, Claim, MaybeEndPoint
<1> QED BY <1>1, <1>3, <1>6, <1>7, <1>8, <1>9, <1>10 DEF HeapSound

\* A new endpoint shares an address.
LEMMA EndPointAtSound ==
    ASSUME NEW h, NEW W, NEW B, HeapSound(h, W, B), NEW n \in EndPointIds, n = NextEndPoint, h.count[n] = 0,
           NEW a \in AddressIds, h.refs[a] > 0, NEW r \in Remotes, h.value[a] = AddressOf[r],
           NEW w \in Places, W[w].remote = Nobody,
           NEW g, g = EndPointAt(h, a, r), NEW V, V = Given(W, w, To(n, r))
    PROVE  HeapSound(g, V, B) /\ \A d \in EndPointIds : d # n => g.names[d] = h.names[d]
<1>1. PICK h1 : h1 = AddressShare(h, a)
  OBVIOUS
<1>2. PICK C : C = More(B, a)
  OBVIOUS
<1>3. HeapSound(h1, W, C) /\ SameEndPoints(h, h1) /\ h1.value = h.value /\ C[a] > 0
  BY <1>1, <1>2, AddressShareSound
<1>4. g = EndPointNew(h1, a, r) /\ h1.count[n] = 0 /\ h1.value[a] = AddressOf[r]
  BY <1>1, <1>3 DEF EndPointAt, SameEndPoints
<1>5. PICK D : D = Less(C, a)
  OBVIOUS
<1>6. HeapSound(g, V, D) /\ \A d \in EndPointIds : d # n => g.names[d] = h1.names[d]
  BY <1>3, <1>4, <1>5, EndPointNewSound
<1>7. D = B
  <2>1. B \in Extras
    BY DEF HeapSound
  <2>2. D = [B EXCEPT ![a] = (B[a] + 1) - 1] /\ (B[a] + 1) - 1 = B[a]
    BY <1>2, <1>5, <2>1 DEF Less, More, Extras
  <2> QED BY <2>1, <2>2 DEF Extras
<1> QED BY <1>3, <1>6, <1>7 DEF SameEndPoints

\* A holder shares what another one has.
LEMMA ShareSound ==
    ASSUME NEW h, NEW W, NEW B, HeapSound(h, W, B), NEW u \in Places, NEW w \in Places,
           NEW e, e = W[u].remote, e # Nobody, W[w].remote = Nobody,
           NEW g, g = ShareEndPoint(h, e), NEW V, V = Given(W, w, W[u])
    PROVE  HeapSound(g, V, B) /\ g.names = h.names /\ V[w] = W[u] /\ g.value = h.value /\ g.address = h.address
<1>1. h \in HeapType /\ W \in Claims /\ B \in Extras /\ ~h.wild /\ Counted(h, W, B) /\ Named(h) /\ Known(h, W)
  BY DEF HeapSound
<1>2. e \in EndPointIds /\ h.count[e] > 0
  BY ClaimedIs
<1>3. g = [h EXCEPT !.count[e] = @ + 1]
  BY <1>2 DEF ShareEndPoint
<1>4. /\ g \in HeapType /\ g.wild = h.wild /\ g.lost = h.lost /\ g.refs = h.refs /\ g.value = h.value
      /\ g.names = h.names /\ g.address = h.address
      /\ g.count[e] = h.count[e] + 1 /\ \A d \in EndPointIds : d # e => g.count[d] = h.count[d]
  BY <1>1, <1>2, <1>3 DEF HeapType
<1>5. PICK c : c = W[u]
  OBVIOUS
<1>6. c \in Claim /\ c.remote = e
  BY <1>1, <1>5 DEF Claims
<1>7. /\ V \in Claims /\ V[w] = c /\ \A x \in Places : x # w => V[x] = W[x]
      /\ \A d : /\ Cardinality(Having(W, d)) \in Nat /\ Cardinality(Having(V, d)) \in Nat
                /\ Cardinality(Having(V, d)) + Same(W[w].remote, d)
                     = Cardinality(Having(W, d)) + Same(c.remote, d)
  BY <1>1, <1>5, <1>6, HavingGiven
<1>8. Counted(g, V, B)
  <2>1. ASSUME NEW d \in EndPointIds PROVE g.count[d] = Cardinality(Having(V, d)) + g.lost[d]
    <3>1. h.count[d] = Cardinality(Having(W, d)) + h.lost[d] /\ h.lost[d] \in Nat
      BY <1>1 DEF Counted, HeapType
    <3>2. Cardinality(Having(V, d)) = Cardinality(Having(W, d)) + Same(e, d)
      BY <1>6, <1>7, NobodyIs DEF Same
    <3>3. Cardinality(Having(W, d)) \in Nat
      BY <1>7
    <3> QED BY <1>4, <3>1, <3>2, <3>3 DEF Same
  <2>2. \A b : UsersOf(g, b) = UsersOf(h, b)
    BY <1>4 DEF UsersOf
  <2> QED BY <1>1, <1>4, <2>1, <2>2 DEF Counted
<1>9. Named(g)
  <2>1. \A d \in EndPointIds : g.count[d] = 0 <=> h.count[d] = 0
    BY <1>1, <1>2, <1>4 DEF HeapType
  <2> QED BY <1>1, <1>4, <2>1 DEF Named
<1>10. Known(g, V)
  BY <1>1, <1>4, <1>5, <1>7 DEF Known
<1> QED BY <1>1, <1>4, <1>5, <1>7, <1>8, <1>9, <1>10 DEF HeapSound

\* What another one has without counting: one holder gives it to another.
LEMMA HandedSound ==
    ASSUME NEW h, NEW W, NEW B, HeapSound(h, W, B), NEW u \in Places, NEW w \in Places,
           W[u].remote # Nobody, W[w].remote = Nobody,
           NEW V, V = Given(Given(W, w, W[u]), u, NoEvent)
    PROVE  /\ HeapSound(h, V, B) /\ V[w] = W[u] /\ V[u] = NoEvent
           /\ \A x \in Places : x # u /\ x # w => V[x] = W[x]
<1>1. h \in HeapType /\ W \in Claims /\ B \in Extras /\ ~h.wild /\ Counted(h, W, B) /\ Named(h) /\ Known(h, W)
  BY DEF HeapSound
<1>2. PICK c : c = W[u]
  OBVIOUS
<1>3. PICK X : X = Given(W, w, c)
  OBVIOUS
<1>4. c \in Claim /\ NoEvent \in Claim /\ NoEvent.remote = Nobody
  BY <1>1, <1>2 DEF Claims, NoEvent, Claim, MaybeEndPoint, MaybeRemote
<1>5. /\ X \in Claims /\ X[w] = c /\ \A x \in Places : x # w => X[x] = W[x]
      /\ \A d : /\ Cardinality(Having(W, d)) \in Nat /\ Cardinality(Having(X, d)) \in Nat
                /\ Cardinality(Having(X, d)) + Same(W[w].remote, d)
                     = Cardinality(Having(W, d)) + Same(c.remote, d)
  <2>1. W \in Claims /\ c \in Claim
    BY <1>1, <1>4
  <2> HIDE <1>1, <1>4
  <2> QED BY ONLY <2>1, <1>3, w \in Places, HavingGiven
<1>6. PICK n : n = NoEvent
  OBVIOUS
<1>7. V = Given(X, u, n) /\ n \in Claim
  BY <1>2, <1>3, <1>4, <1>6
<1>8. /\ V \in Claims /\ V[u] = n /\ \A x \in Places : x # u => V[x] = X[x]
      /\ \A d : /\ Cardinality(Having(X, d)) \in Nat /\ Cardinality(Having(V, d)) \in Nat
                /\ Cardinality(Having(V, d)) + Same(X[u].remote, d)
                     = Cardinality(Having(X, d)) + Same(n.remote, d)
  BY <1>5, <1>7, HavingGiven
<1>9. u # w
  OBVIOUS
<1>10. X[u] = c
  BY <1>2, <1>5, <1>9
<1>11. Counted(h, V, B)
  <2>1. ASSUME NEW d \in EndPointIds PROVE Cardinality(Having(V, d)) = Cardinality(Having(W, d))
    <3>1. W[w].remote # d /\ n.remote # d
      BY <1>4, <1>6, NobodyIs
    <3>2. Cardinality(Having(X, d)) = Cardinality(Having(W, d)) + Same(c.remote, d)
      BY <1>5, <3>1 DEF Same
    <3>3. Cardinality(Having(V, d)) + Same(c.remote, d) = Cardinality(Having(X, d))
      BY <1>8, <1>10, <3>1 DEF Same
    <3>4. Cardinality(Having(V, d)) \in Nat /\ Cardinality(Having(W, d)) \in Nat
      BY <1>5, <1>8
    <3> QED BY <3>2, <3>3, <3>4 DEF Same
  <2> QED BY <1>1, <2>1 DEF Counted
<1>12. Known(h, V)
  BY <1>1, <1>2, <1>4, <1>5, <1>6, <1>8, <1>9 DEF Known
<1> QED BY <1>1, <1>2, <1>5, <1>6, <1>8, <1>9, <1>11, <1>12 DEF HeapSound

\* One reference more, and it is given up.
LEMMA MoreThenLess ==
    ASSUME NEW B \in Extras, NEW a \in AddressIds
    PROVE  Less(More(B, a), a) = B
<1>1. PICK C : C = More(B, a)
  OBVIOUS
<1>2. PICK D : D = Less(C, a)
  OBVIOUS
<1>3. C \in Extras /\ C[a] = B[a] + 1 /\ \A b \in AddressIds : b # a => C[b] = B[b]
  BY <1>1, MoreLess
<1>4. D[a] = C[a] - 1 /\ \A b \in AddressIds : b # a => D[b] = C[b]
  BY <1>2, <1>3, MoreLess
<1>5. B[a] \in Nat /\ C[a] > 0
  BY <1>3 DEF Extras
<1>6. D \in Extras
  BY <1>2, <1>3, <1>5, MoreLess
<1>7. \A b \in AddressIds : D[b] = B[b]
  BY <1>3, <1>4, <1>5
<1>8. D = B
  BY <1>6, <1>7 DEF Extras
<1> QED BY <1>1, <1>2, <1>8

\* A holder has nothing any more.
LEMMA HavingLess ==
    ASSUME NEW W \in Claims, NEW w \in Places, NEW e, e = W[w].remote, e # Nobody,
           NEW V, V = Given(W, w, NoEvent)
    PROVE  /\ V \in Claims /\ V[w].remote = Nobody /\ V[w] = NoEvent
           /\ \A u \in Places : u # w => V[u] = W[u]
           /\ \A d \in EndPointIds : Cardinality(Having(W, d)) = Cardinality(Having(V, d)) + Same(e, d)
           /\ \A d \in EndPointIds : Cardinality(Having(W, d)) \in Nat /\ Cardinality(Having(V, d)) \in Nat
<1>1. PICK c : c = NoEvent
  OBVIOUS
<1>2. c \in Claim /\ c.remote = Nobody
  BY <1>1 DEF NoEvent, Claim, MaybeEndPoint, MaybeRemote
<1>3. V = Given(W, w, c)
  BY <1>1
<1>4. /\ V \in Claims /\ V[w] = c /\ \A u \in Places : u # w => V[u] = W[u]
      /\ \A d : /\ Cardinality(Having(W, d)) \in Nat /\ Cardinality(Having(V, d)) \in Nat
                /\ Cardinality(Having(V, d)) + Same(W[w].remote, d)
                     = Cardinality(Having(W, d)) + Same(c.remote, d)
  <2>1. W \in Claims /\ c \in Claim
    BY <1>2
  <2> QED BY ONLY <2>1, <1>3, w \in Places, HavingGiven
<1>5. ASSUME NEW d \in EndPointIds
      PROVE  Cardinality(Having(W, d)) = Cardinality(Having(V, d)) + Same(e, d)
  <2>1. Same(c.remote, d) = 0
    BY <1>2, NobodyIs DEF Same
  <2>2. /\ Cardinality(Having(W, d)) \in Nat
        /\ Cardinality(Having(V, d)) + Same(e, d) = Cardinality(Having(W, d)) + Same(c.remote, d)
    BY <1>4
  <2> QED BY <2>1, <2>2
<1> QED BY <1>1, <1>2, <1>4, <1>5

\* What an endpoint names, or its address, becomes nothing.
LEMMA NobodyGiven ==
    ASSUME NEW T, Nobody \in T, NEW f \in [EndPointIds -> T], NEW e \in EndPointIds,
           NEW g, g = [f EXCEPT ![e] = Nobody]
    PROVE  g \in [EndPointIds -> T]
OBVIOUS

\* A count becomes zero.
LEMMA ZeroGiven ==
    ASSUME NEW f \in [EndPointIds -> Nat], NEW e \in EndPointIds, NEW g, g = [f EXCEPT ![e] = 0]
    PROVE  g \in [EndPointIds -> Nat]
OBVIOUS

\* The last holder of an endpoint lets go: the endpoint goes, and gives its address up.
LEMMA FreedSound ==
    ASSUME NEW h, NEW W, NEW B, HeapSound(h, W, B), NEW w \in Places, NEW e, e = W[w].remote, e # Nobody,
           h.count[e] = h.lost[e] + 1, NEW g, g = Freed(h, e), NEW V, V = Given(W, w, NoEvent)
    PROVE  HeapSound(g, V, B)
<1>1. h \in HeapType /\ W \in Claims /\ B \in Extras /\ ~h.wild /\ Counted(h, W, B) /\ Named(h) /\ Known(h, W)
  BY DEF HeapSound
<1>2. e \in EndPointIds /\ h.address[e] \in AddressIds
  BY ClaimedIs
<1>3. PICK a \in AddressIds : a = h.address[e]
  BY <1>2
<1>4. PICK k : k = [h EXCEPT !.count[e] = 0, !.lost[e] = 0, !.names[e] = Nobody, !.address[e] = Nobody]
  OBVIOUS
<1>5. g = AddressDestroy(k, a)
  BY <1>3, <1>4 DEF Freed
<1>6. /\ k \in HeapType /\ k.wild = h.wild /\ k.refs = h.refs /\ k.value = h.value
      /\ k.count[e] = 0 /\ k.lost[e] = 0 /\ k.address[e] = Nobody
      /\ \A d \in EndPointIds : d # e => /\ k.count[d] = h.count[d] /\ k.names[d] = h.names[d]
                                       /\ k.address[d] = h.address[d] /\ k.lost[d] = h.lost[d]
  <2>1. /\ k.wild = h.wild /\ k.refs = h.refs /\ k.value = h.value
        /\ k.count = [h.count EXCEPT ![e] = 0] /\ k.lost = [h.lost EXCEPT ![e] = 0]
        /\ k.names = [h.names EXCEPT ![e] = Nobody] /\ k.address = [h.address EXCEPT ![e] = Nobody]
    BY <1>1, <1>4 DEF HeapType
  <2>2. /\ h.count \in [EndPointIds -> Nat] /\ h.names \in [EndPointIds -> MaybeRemote]
        /\ h.lost \in [EndPointIds -> Nat]
        /\ h.address \in [EndPointIds -> AddressIds \cup {Nobody}]
    BY <1>1 DEF HeapType
  <2>3. /\ k.count \in [EndPointIds -> Nat] /\ k.names \in [EndPointIds -> MaybeRemote]
        /\ k.lost \in [EndPointIds -> Nat]
        /\ k.address \in [EndPointIds -> AddressIds \cup {Nobody}]
    <3>1. k.count \in [EndPointIds -> Nat]
      BY <1>2, <2>1, <2>2, ZeroGiven
    <3>4. k.lost \in [EndPointIds -> Nat]
      BY <1>2, <2>1, <2>2, ZeroGiven
    <3>2. k.names \in [EndPointIds -> MaybeRemote]
      <4>1. Nobody \in MaybeRemote
        BY DEF MaybeRemote
      <4> QED BY <1>2, <2>1, <2>2, <4>1, NobodyGiven
    <3>3. k.address \in [EndPointIds -> AddressIds \cup {Nobody}]
      <4>1. PICK T : T = AddressIds \cup {Nobody}
        OBVIOUS
      <4>2. Nobody \in T /\ h.address \in [EndPointIds -> T]
        BY <2>2, <4>1
      <4>3. k.address \in [EndPointIds -> T]
        BY <1>2, <2>1, <4>2, NobodyGiven
      <4> QED BY <4>1, <4>3
    <3> QED BY <3>1, <3>2, <3>3, <3>4
  <2>4. k = [h EXCEPT !.count = k.count, !.lost = k.lost, !.names = k.names, !.address = k.address]
    BY <1>1, <1>4, <2>1 DEF HeapType
  <2>5. k \in HeapType
    BY <1>1, <2>3, <2>4 DEF HeapType
  <2> QED BY <1>2, <2>1, <2>2, <2>5
<1>7. PICK C : C = More(B, a)
  OBVIOUS
<1>8. C \in Extras /\ C[a] = B[a] + 1 /\ \A b \in AddressIds : b # a => C[b] = B[b]
  BY <1>1, <1>7, MoreLess
<1>9. /\ V \in Claims /\ V[w].remote = Nobody /\ \A u \in Places : u # w => V[u] = W[u]
      /\ \A d \in EndPointIds : Cardinality(Having(W, d)) = Cardinality(Having(V, d)) + Same(e, d)
      /\ \A d \in EndPointIds : Cardinality(Having(W, d)) \in Nat /\ Cardinality(Having(V, d)) \in Nat
  BY <1>1, HavingLess
<1>10. Cardinality(Having(V, e)) = 0
  <2>1. h.count[e] = Cardinality(Having(W, e)) + h.lost[e] /\ h.lost[e] \in Nat
    BY <1>1, <1>2 DEF Counted, HeapType
  <2>2. Cardinality(Having(W, e)) = Cardinality(Having(V, e)) + Same(e, e)
    BY <1>2, <1>9
  <2>3. Cardinality(Having(W, e)) \in Nat /\ Cardinality(Having(V, e)) \in Nat
    BY <1>2, <1>9
  <2> QED BY <2>1, <2>2, <2>3 DEF Same
<1>11. Counted(k, V, C)
  <2>1. ASSUME NEW d \in EndPointIds PROVE k.count[d] = Cardinality(Having(V, d)) + k.lost[d]
    <3>1. CASE d = e
      BY <1>6, <1>10, <3>1
    <3>2. CASE d # e
      <4>1. h.count[d] = Cardinality(Having(W, d)) + h.lost[d]
        BY <1>1 DEF Counted
      <4>2. Cardinality(Having(W, d)) = Cardinality(Having(V, d))
        BY <1>9, <3>2 DEF Same
      <4> QED BY <1>6, <3>2, <4>1, <4>2
    <3> QED BY <3>1, <3>2
  <2>2. ASSUME NEW b \in AddressIds PROVE k.refs[b] = Cardinality(UsersOf(k, b)) + C[b]
    <3>1. /\ Cardinality(UsersOf(h, b)) \in Nat /\ Cardinality(UsersOf(k, b)) \in Nat
          /\ Cardinality(UsersOf(k, b)) + Same(h.address[e], b)
               = Cardinality(UsersOf(h, b)) + Same(k.address[e], b)
      <4>1. e \in EndPointIds /\ OthersStay(h, k, e)
        BY <1>2, <1>6 DEF OthersStay
      <4> QED BY ONLY <4>1, UsersChanged
    <3>2. h.refs[b] = Cardinality(UsersOf(h, b)) + B[b] /\ B[b] \in Nat
      BY <1>1 DEF Counted, Extras
    <3>3. Same(k.address[e], b) = 0
      BY <1>6, NobodyIs DEF Same
    <3>4. CASE b = a
      <4>1. Same(h.address[e], b) = 1
        BY <1>3, <3>4 DEF Same
      <4> QED BY <1>6, <1>8, <3>1, <3>2, <3>3, <3>4, <4>1
    <3>5. CASE b # a
      <4>1. Same(h.address[e], b) = 0
        BY <1>3, <3>5 DEF Same
      <4> QED BY <1>6, <1>8, <3>1, <3>2, <3>3, <3>5, <4>1
    <3> QED BY <3>4, <3>5
  <2> QED BY <2>1, <2>2 DEF Counted
<1>12. Named(k)
  BY <1>1, <1>6 DEF Named
<1>13. Known(k, V)
  <2>1. \A u \in Places : V[u].remote # e
    BY <1>10, HavingCounted
  <2> QED BY <1>1, <1>6, <1>9, <2>1 DEF Known, Claims, Claim, MaybeEndPoint
<1>14. HeapSound(k, V, C)
  BY <1>1, <1>6, <1>8, <1>9, <1>11, <1>12, <1>13 DEF HeapSound
<1>15. PICK D : D = Less(C, a)
  OBVIOUS
<1>16. D = B
  BY <1>1, <1>7, <1>15, MoreThenLess
<1>17. C[a] > 0
  BY <1>1, <1>8 DEF Extras
<1> QED BY <1>5, <1>14, <1>15, <1>16, <1>17, AddressDestroySound

\* A holder lets go of what others have, or of what was lost before: the count, or what
\* is lost of it, tells.
LEMMA LessSound ==
    ASSUME NEW h, NEW W, NEW B, HeapSound(h, W, B), NEW w \in Places, NEW e, e = W[w].remote, e # Nobody,
           h.count[e] # h.lost[e] + 1, NEW V, V = Given(W, w, NoEvent),
           NEW g, g = [h EXCEPT !.count[e] = @ - 1] \/ g = [h EXCEPT !.lost[e] = @ + 1]
    PROVE  HeapSound(g, V, B)
<1>1. h \in HeapType /\ W \in Claims /\ B \in Extras /\ ~h.wild /\ Counted(h, W, B) /\ Named(h) /\ Known(h, W)
  BY DEF HeapSound
<1>2. e \in EndPointIds /\ h.count[e] > h.lost[e]
  BY ClaimedIs
<1>3. h.count[e] \in Nat /\ h.lost[e] \in Nat
  BY <1>1, <1>2 DEF HeapType
<1>4. /\ g \in HeapType /\ g.wild = h.wild /\ g.refs = h.refs /\ g.value = h.value
      /\ g.names = h.names /\ g.address = h.address
      /\ g.count[e] - g.lost[e] = h.count[e] - h.lost[e] - 1 /\ g.count[e] > 0
      /\ \A d \in EndPointIds : d # e => g.count[d] = h.count[d] /\ g.lost[d] = h.lost[d]
  <2>1. CASE g = [h EXCEPT !.count[e] = @ - 1]
    BY <1>1, <1>2, <1>3, <2>1 DEF HeapType
  <2>2. CASE g = [h EXCEPT !.lost[e] = @ + 1]
    BY <1>1, <1>2, <1>3, <2>2 DEF HeapType
  <2> QED BY <2>1, <2>2
<1>5. /\ V \in Claims /\ V[w].remote = Nobody /\ \A u \in Places : u # w => V[u] = W[u]
      /\ \A d \in EndPointIds : Cardinality(Having(W, d)) = Cardinality(Having(V, d)) + Same(e, d)
      /\ \A d \in EndPointIds : Cardinality(Having(W, d)) \in Nat /\ Cardinality(Having(V, d)) \in Nat
  BY <1>1, HavingLess
<1>6. Counted(g, V, B)
  <2>1. ASSUME NEW d \in EndPointIds PROVE g.count[d] = Cardinality(Having(V, d)) + g.lost[d]
    <3>1. h.count[d] = Cardinality(Having(W, d)) + h.lost[d]
      BY <1>1 DEF Counted
    <3>2. /\ Cardinality(Having(W, d)) = Cardinality(Having(V, d)) + Same(e, d)
          /\ Cardinality(Having(V, d)) \in Nat
      BY <1>5
    <3>3. CASE d = e
      <4>1. Same(e, d) = 1
        BY <3>3 DEF Same
      <4>2. g.count[e] \in Nat /\ g.lost[e] \in Nat
        BY <1>2, <1>4 DEF HeapType
      <4> QED BY <1>3, <1>4, <3>1, <3>2, <3>3, <4>1, <4>2
    <3>4. CASE d # e
      <4>1. Same(e, d) = 0
        BY <3>4 DEF Same
      <4> QED BY <1>4, <3>1, <3>2, <3>4, <4>1
    <3> QED BY <3>3, <3>4
  <2>2. \A b : UsersOf(g, b) = UsersOf(h, b)
    BY <1>4 DEF UsersOf
  <2> QED BY <1>1, <1>4, <2>1, <2>2 DEF Counted
<1>7. Named(g)
  <2>1. h.count[e] > 0
    BY <1>2, <1>3
  <2> QED BY <1>1, <1>4, <2>1 DEF Named
<1>8. Known(g, V)
  BY <1>1, <1>4, <1>5 DEF Known
<1> QED BY <1>1, <1>4, <1>5, <1>6, <1>7, <1>8 DEF HeapSound

\* A holder gives up what it has.
LEMMA DestroySound ==
    ASSUME NEW h, NEW W, NEW B, HeapSound(h, W, B), NEW w \in Places,
           NEW g, g = Destroy(h, W[w].remote), NEW V, V = Given(W, w, NoEvent)
    PROVE  HeapSound(g, V, B) /\ V[w] = NoEvent /\ \A u \in Places : u # w => V[u] = W[u]
<1>1. PICK e : e = W[w].remote
  OBVIOUS
<1>2. W \in Claims
  BY DEF HeapSound
<1>3. V \in Claims /\ V[w] = NoEvent /\ \A u \in Places : u # w => V[u] = W[u]
  BY <1>2 DEF Given, Claims, Claim, NoEvent, MaybeEndPoint, MaybeRemote
<1>4. CASE e = Nobody
  <2>1. g = h
    BY <1>1, <1>4 DEF Destroy
  <2>2. Alike(W, V)
    <3>1. V[w].remote = Nobody /\ W[w].remote = Nobody
      BY <1>1, <1>3, <1>4 DEF NoEvent
    <3> QED BY <1>3, <3>1 DEF Alike
  <2> QED BY <1>3, <2>1, <2>2, AlikeSound
<1>5. CASE e # Nobody
  <2>1. h.count[e] > h.lost[e] /\ e \in EndPointIds
    BY <1>1, <1>5, ClaimedIs
  <2>2. h.count[e] \in Nat /\ h.lost[e] \in Nat
    BY <2>1 DEF HeapSound, HeapType
  <2>3. CASE h.count[e] = h.lost[e] + 1
    <3>1. g = Freed(h, e)
      BY <1>1, <1>5, <2>2, <2>3 DEF Destroy
    <3> QED BY <1>1, <1>3, <1>5, <2>3, <3>1, FreedSound
  <2>4. CASE h.count[e] # h.lost[e] + 1
    <3>1. g = [h EXCEPT !.count[e] = @ - 1]
      BY <1>1, <1>5, <2>1, <2>2, <2>4 DEF Destroy
    <3> QED BY <1>1, <1>3, <1>5, <2>4, <3>1, LessSound
  <2> QED BY <2>3, <2>4
<1> QED BY <1>4, <1>5

\* The library forgets what it has.
LEMMA LoseSound ==
    ASSUME NEW h, NEW W, NEW B, HeapSound(h, W, B), NEW w \in Places, W[w].remote # Nobody,
           NEW g, g = Lose(h, W[w].remote), NEW V, V = Given(W, w, NoEvent)
    PROVE  HeapSound(g, V, B) /\ V[w] = NoEvent /\ \A u \in Places : u # w => V[u] = W[u]
<1>1. PICK e : e = W[w].remote
  OBVIOUS
<1>2. W \in Claims
  BY DEF HeapSound
<1>3. V \in Claims /\ V[w] = NoEvent /\ \A u \in Places : u # w => V[u] = W[u]
  BY <1>2 DEF Given, Claims, Claim, NoEvent, MaybeEndPoint, MaybeRemote
<1>4. CASE h.count[e] = h.lost[e] + 1
  <2>1. g = Freed(h, e)
    BY <1>1, <1>4 DEF Lose
  <2> QED BY <1>1, <1>3, <1>4, <2>1, FreedSound
<1>5. CASE h.count[e] # h.lost[e] + 1
  <2>1. g = [h EXCEPT !.lost[e] = @ + 1]
    BY <1>1, <1>5 DEF Lose
  <2> QED BY <1>1, <1>3, <1>5, <2>1, LessSound
<1> QED BY <1>4, <1>5

-----------------------------------------------------------------------------
(* The address of an endpoint is replaced.                                 *)

\* An endpoint has another address.
Moved(h, e, a) == [h EXCEPT !.address[e] = a]

\* An endpoint takes over the caller's reference to an address with the same value, and
\* the caller that to its old one.
LEMMA MoveSound ==
    ASSUME NEW h, NEW W, NEW B, NEW C, NEW A \in Extras, NEW a \in AddressIds, NEW b \in AddressIds,
           C = More(A, a), B = More(A, b), HeapSound(h, W, C),
           NEW e \in EndPointIds, h.count[e] # 0, h.address[e] = b, a # b,
           h.value[a] = AddressOf[h.names[e]],
           NEW g, g = Moved(h, e, a)
    PROVE  HeapSound(g, W, B)
<1>1. h \in HeapType /\ W \in Claims /\ ~h.wild /\ Counted(h, W, C) /\ Named(h) /\ Known(h, W)
  BY DEF HeapSound
<1>2. /\ g \in HeapType /\ g.wild = h.wild /\ g.lost = h.lost /\ g.refs = h.refs /\ g.value = h.value
      /\ g.count = h.count /\ g.names = h.names /\ g.address[e] = a
      /\ \A d \in EndPointIds : d # e => g.address[d] = h.address[d]
  BY <1>1 DEF HeapType, Moved
<1>3. /\ C[a] = A[a] + 1 /\ \A x \in AddressIds : x # a => C[x] = A[x]
      /\ B \in Extras /\ B[b] = A[b] + 1 /\ \A x \in AddressIds : x # b => B[x] = A[x]
  BY MoreLess
<1>4. ASSUME NEW x \in AddressIds PROVE g.refs[x] = Cardinality(UsersOf(g, x)) + B[x]
  <2>1. /\ Cardinality(UsersOf(h, x)) \in Nat /\ Cardinality(UsersOf(g, x)) \in Nat
        /\ Cardinality(UsersOf(g, x)) + Same(b, x) = Cardinality(UsersOf(h, x)) + Same(a, x)
    <3>1. OthersStay(h, g, e) /\ e \in EndPointIds
      BY <1>2 DEF OthersStay
    <3>2. /\ Cardinality(UsersOf(h, x)) \in Nat /\ Cardinality(UsersOf(g, x)) \in Nat
          /\ Cardinality(UsersOf(g, x)) + Same(h.address[e], x)
               = Cardinality(UsersOf(h, x)) + Same(g.address[e], x)
      BY ONLY <3>1, UsersChanged
    <3> QED BY <1>2, <3>2
  <2>2. h.refs[x] = Cardinality(UsersOf(h, x)) + C[x] /\ A[x] \in Nat
    BY <1>1 DEF Counted, Extras
  <2>3. CASE x = a
    <3>1. Same(b, x) = 0 /\ Same(a, x) = 1
      BY <2>3 DEF Same
    <3> QED BY <1>2, <1>3, <2>1, <2>2, <2>3, <3>1
  <2>4. CASE x = b
    <3>1. Same(b, x) = 1 /\ Same(a, x) = 0
      BY <2>4 DEF Same
    <3> QED BY <1>2, <1>3, <2>1, <2>2, <2>4, <3>1
  <2>5. CASE x # a /\ x # b
    <3>1. Same(b, x) = 0 /\ Same(a, x) = 0
      BY <2>5 DEF Same
    <3> QED BY <1>2, <1>3, <2>1, <2>2, <2>5, <3>1
  <2> QED BY <2>3, <2>4, <2>5
<1>5. Counted(g, W, B)
  BY <1>1, <1>2, <1>4 DEF Counted
<1>6. Named(g)
  BY <1>1, <1>2 DEF Named
<1>7. Known(g, W)
  BY <1>1, <1>2 DEF Known
<1> QED BY <1>1, <1>2, <1>3, <1>5, <1>6, <1>7 DEF HeapSound

\* An address can be given up before an endpoint moves to another, or after.
LEMMA MoveBefore ==
    ASSUME NEW h \in HeapType, NEW a, NEW b, NEW e,
           NEW k, k = Moved(h, e, a)
    PROVE  AddressDestroy(k, b) = Moved(AddressDestroy(h, b), e, a)
<1>1. k.refs = h.refs /\ k = [h EXCEPT !.address[e] = a]
  BY DEF HeapType, Moved
<1>2. CASE h.refs[b] = 0
  <2>1. AddressDestroy(k, b) = [k EXCEPT !.wild = TRUE] /\ AddressDestroy(h, b) = [h EXCEPT !.wild = TRUE]
    BY <1>1, <1>2 DEF AddressDestroy
  <2>2. Moved(AddressDestroy(h, b), e, a) = [[h EXCEPT !.wild = TRUE] EXCEPT !.address[e] = a]
    BY <2>1 DEF Moved
  <2>3. [[h EXCEPT !.wild = TRUE] EXCEPT !.address[e] = a] = [k EXCEPT !.wild = TRUE]
    BY ONLY <1>1, h \in HeapType DEF HeapType
  <2> QED BY <2>1, <2>2, <2>3
<1>3. CASE h.refs[b] = 1
  <2>1. /\ AddressDestroy(k, b) = [k EXCEPT !.refs[b] = 0, !.value[b] = Nobody]
        /\ AddressDestroy(h, b) = [h EXCEPT !.refs[b] = 0, !.value[b] = Nobody]
    BY <1>1, <1>3 DEF AddressDestroy
  <2>2. PICK R : R = [h.refs EXCEPT ![b] = 0]
    OBVIOUS
  <2>3. PICK U : U = [h.value EXCEPT ![b] = Nobody]
    OBVIOUS
  <2>4. k.refs = h.refs /\ k.value = h.value
    BY <1>1 DEF HeapType
  <2>5. AddressDestroy(k, b) = [k EXCEPT !.refs = R, !.value = U]
    BY <2>1, <2>2, <2>3, <2>4
  <2>6. AddressDestroy(h, b) = [h EXCEPT !.refs = R, !.value = U]
    BY <2>1, <2>2, <2>3
  <2>7. Moved(AddressDestroy(h, b), e, a) = [[h EXCEPT !.refs = R, !.value = U] EXCEPT !.address[e] = a]
    BY <2>6 DEF Moved
  <2>8. [[h EXCEPT !.refs = R, !.value = U] EXCEPT !.address[e] = a] = [k EXCEPT !.refs = R, !.value = U]
    BY ONLY <1>1, h \in HeapType DEF HeapType
  <2> QED BY <2>5, <2>7, <2>8
<1>4. CASE h.refs[b] # 0 /\ h.refs[b] # 1
  <2>1. AddressDestroy(k, b) = [k EXCEPT !.refs[b] = @ - 1] /\ AddressDestroy(h, b) = [h EXCEPT !.refs[b] = @ - 1]
    BY <1>1, <1>4 DEF AddressDestroy
  <2>2. PICK R : R = [h.refs EXCEPT ![b] = @ - 1]
    OBVIOUS
  <2>3. AddressDestroy(k, b) = [k EXCEPT !.refs = R]
    BY <1>1, <2>1, <2>2
  <2>4. AddressDestroy(h, b) = [h EXCEPT !.refs = R]
    BY <2>1, <2>2
  <2>5. Moved(AddressDestroy(h, b), e, a) = [[h EXCEPT !.refs = R] EXCEPT !.address[e] = a]
    BY <2>4 DEF Moved
  <2>6. [[h EXCEPT !.refs = R] EXCEPT !.address[e] = a] = [k EXCEPT !.refs = R]
    BY ONLY <1>1, h \in HeapType DEF HeapType
  <2> QED BY <2>3, <2>5, <2>6
<1> QED BY <1>2, <1>3, <1>4

\* gekkota_ipendpoint_set_address.
LEMMA SetAddressSound ==
    ASSUME NEW h, NEW W, NEW B, HeapSound(h, W, B), NEW w \in Places, NEW e, e = W[w].remote, e # Nobody,
           NEW a \in AddressIds, h.refs[a] > 0, h.value[a] = AddressOf[h.names[e]],
           NEW g, g = SetAddress(h, e, a)
    PROVE  HeapSound(g, W, B) /\ g.names = h.names
<1>1. h \in HeapType /\ W \in Claims /\ B \in Extras
  BY DEF HeapSound
<1>2. /\ e \in EndPointIds /\ h.address[e] \in AddressIds /\ h.count[e] # 0
  <2>1. h.count[e] > 0 /\ e \in EndPointIds /\ h.address[e] \in AddressIds
    BY ClaimedIs
  <2> QED BY <2>1
<1>3. CASE a = h.address[e]
  BY <1>3 DEF SetAddress
<1>4. CASE a # h.address[e]
  <2>1. PICK b \in AddressIds : b = h.address[e]
    BY <1>2
  <2>2. PICK i : i = AddressShare(h, a)
    OBVIOUS
  <2>3. PICK C : C = More(B, a)
    OBVIOUS
  <2>4. PICK D : D = More(B, b)
    OBVIOUS
  <2>5. HeapSound(i, W, C) /\ SameEndPoints(h, i) /\ i.value = h.value
    BY <2>2, <2>3, AddressShareSound
  <2>6. PICK k : k = Moved(i, e, a)
    OBVIOUS
  <2>7. i.count[e] # 0 /\ i.address[e] = b /\ a # b /\ i.value[a] = AddressOf[i.names[e]]
    BY <1>2, <1>4, <2>1, <2>5 DEF SameEndPoints
  <2>8. HeapSound(k, W, D)
    BY <1>1, <1>2, <2>3, <2>4, <2>5, <2>6, <2>7, MoveSound
  <2>9. i \in HeapType
    BY <2>5 DEF HeapSound
  <2>10. g = AddressDestroy(k, b)
    <3>1. g = Moved(AddressDestroy(i, b), e, a)
      BY <1>4, <2>1, <2>2 DEF SetAddress, Moved
    <3> QED BY <2>6, <2>9, <3>1, MoveBefore
  <2>11. D[b] > 0
    <3>1. D[b] = B[b] + 1 /\ B[b] \in Nat
      BY <1>1, <2>4, MoreLess DEF Extras
    <3> QED BY <3>1
  <2>12. PICK A : A = Less(D, b)
    OBVIOUS
  <2>13. HeapSound(g, W, A) /\ SameEndPoints(k, g)
    BY <2>8, <2>10, <2>11, <2>12, AddressDestroySound
  <2>14. A = B
    BY <1>1, <2>4, <2>12, MoreThenLess
  <2>15. k.names = i.names
    BY <2>6, <2>9 DEF HeapType, Moved
  <2> QED BY <2>5, <2>13, <2>14, <2>15 DEF SameEndPoints
<1> QED BY <1>3, <1>4

-----------------------------------------------------------------------------
(* New endpoints.                                                          *)

\* Some number of a set is the least.
LEMMA LeastExists ==
    ASSUME NEW S \in SUBSET Nat, S # {}
    PROVE  \E x \in S : \A y \in S : x =< y
<1>1. \E x \in S : \A y \in S : ~ (<<y, x>> \in OpToRel(<, Nat))
  BY NatLessThanWellFounded, WFMin
<1>2. PICK x \in S : \A y \in S : ~(y < x)
  BY <1>1 DEF OpToRel
<1> QED BY <1>2

\* Min chooses one of a set.
LEMMA MinChosen ==
    ASSUME NEW S \in SUBSET Nat, S # {}
    PROVE  Min(S) \in S
BY LeastExists DEF Min

\* Where there is room, the next endpoint and the next address are not in use.
LEMMA NextIs ==
    ASSUME Room
    PROVE  /\ NextEndPoint \in EndPointIds /\ heap.count[NextEndPoint] = 0
           /\ NextAddress \in AddressIds /\ heap.refs[NextAddress] = 0
<1>1. PICK S : S = {e \in EndPointIds : heap.count[e] = 0}
  OBVIOUS
<1>2. PICK T : T = {a \in AddressIds : heap.refs[a] = 0}
  OBVIOUS
<1>3. S \in SUBSET Nat /\ S # {} /\ T \in SUBSET Nat /\ T # {}
  BY <1>1, <1>2 DEF Room, EndPointIds, AddressIds
<1>4. NextEndPoint = Min(S) /\ NextAddress = Min(T)
  BY <1>1, <1>2 DEF NextEndPoint, NextAddress
<1>5. NextEndPoint \in S /\ NextAddress \in T
  BY <1>3, <1>4, MinChosen
<1> QED BY <1>1, <1>2, <1>5

\* The caller has no references to addresses.
Zero == [a \in AddressIds |-> 0]

\* Nothing is an extra reference.
LEMMA ZeroIs == Zero \in Extras /\ \A a \in AddressIds : Zero[a] = 0
BY DEF Zero, Extras

\* gekkota_ipendpoint_new_2: an endpoint and an address, both anew.
LEMMA MadeSound ==
    ASSUME NEW W, HeapSound(heap, W, Zero), Room, NEW n, n = NextEndPoint, NEW r \in Remotes,
           NEW w \in Places, W[w].remote = Nobody,
           NEW g, g = Made(r), NEW V, V = Given(W, w, To(n, r))
    PROVE  HeapSound(g, V, Zero)
<1>1. PICK a \in AddressIds : a = NextAddress
  BY NextIs
<1>2. n \in EndPointIds /\ heap.count[n] = 0 /\ heap.refs[a] = 0
  BY <1>1, NextIs
<1>3. PICK C : C = More(Zero, a)
  OBVIOUS
<1>4. PICK h : h = AddressNew(heap, AddressOf[r])
  OBVIOUS
<1>5. h = AddressAt(heap, a, AddressOf[r])
  BY <1>1, <1>4 DEF AddressNew, AddressAt
<1>6. HeapSound(h, W, C) /\ SameEndPoints(heap, h) /\ h.value[a] = AddressOf[r] /\ C[a] = 1
  BY <1>2, <1>3, <1>5, AddressNewSound
<1>7. g = EndPointNew(h, a, r) /\ h.count[n] = 0 /\ C[a] > 0
  BY <1>1, <1>2, <1>4, <1>6 DEF Made, SameEndPoints
<1>8. PICK D : D = Less(C, a)
  OBVIOUS
<1>10. HeapSound(g, V, D)
  BY ONLY <1>2, <1>6, <1>7, <1>8, n = NextEndPoint, W[w].remote = Nobody, w \in Places, r \in Remotes,
          V = Given(W, w, To(n, r)), EndPointNewSound
<1>11. D = Zero
  BY <1>3, <1>8, ZeroIs, MoreThenLess
<1> QED BY <1>10, <1>11

\* An endpoint on the address of an entry, which the caller still has.
LEMMA EntrySound ==
    ASSUME NEW W, HeapSound(heap, W, Zero), Room, NEW n, n = NextEndPoint, NEW r \in Remotes,
           NEW w \in Places, W[w].remote = Nobody, NEW a, a = NextAddress,
           NEW g, g = EndPointAt(HostEntryNew(heap, r), a, r), NEW V, V = Given(W, w, To(n, r)),
           NEW C, C = More(Zero, a)
    PROVE  HeapSound(g, V, C) /\ a \in AddressIds /\ C[a] > 0
<1>1. a \in AddressIds
  BY NextIs
<1>2. n \in EndPointIds /\ heap.count[n] = 0 /\ heap.refs[a] = 0
  BY NextIs
<1>3. PICK h : h = HostEntryNew(heap, r)
  OBVIOUS
<1>4. h = AddressAt(heap, a, AddressOf[r])
  BY <1>3 DEF HostEntryNew, AddressNew, AddressAt
<1>5. /\ HeapSound(h, W, C) /\ SameEndPoints(heap, h) /\ h.value[a] = AddressOf[r] /\ C[a] = 1
      /\ h.refs[a] > 0
  BY <1>1, <1>2, <1>4, AddressNewSound
<1>6. g = EndPointAt(h, a, r) /\ h.count[n] = 0
  BY <1>2, <1>3, <1>5 DEF SameEndPoints
<1>8. HeapSound(g, V, C)
  BY ONLY <1>1, <1>2, <1>5, <1>6, n = NextEndPoint, W[w].remote = Nobody, w \in Places, r \in Remotes,
          V = Given(W, w, To(n, r)), EndPointAtSound
<1> QED BY <1>1, <1>5, <1>8

\* The entry is given up.
LEMMA EntryGone ==
    ASSUME NEW h, NEW W, NEW a \in AddressIds, NEW C, C = More(Zero, a), HeapSound(h, W, C),
           NEW g, g = AddressDestroy(h, a)
    PROVE  HeapSound(g, W, Zero)
<1>1. C[a] > 0
  BY ZeroIs, MoreLess DEF Extras
<1>2. PICK D : D = Less(C, a)
  OBVIOUS
<1>3. HeapSound(g, W, D)
  BY <1>1, <1>2, AddressDestroySound
<1>4. D = Zero
  BY <1>2, ZeroIs, MoreThenLess
<1> QED BY <1>3, <1>4

\* A holder shares what the call has, which then gives it up.
LEMMA PassedSound ==
    ASSUME NEW h, NEW W, NEW B, HeapSound(h, W, B), NEW u \in Places, NEW w \in Places, u # w,
           NEW e, e = W[u].remote, e # Nobody, W[w].remote = Nobody,
           NEW g, g = Destroy(ShareEndPoint(h, e), e),
           NEW V, V = Given(Given(W, w, W[u]), u, NoEvent)
    PROVE  /\ HeapSound(g, V, B) /\ V[u] = NoEvent /\ V[w] = W[u]
           /\ \A x \in Places : x # u /\ x # w => V[x] = W[x]
<1>1. PICK X : X = Given(W, w, W[u])
  OBVIOUS
<1>2. PICK i : i = ShareEndPoint(h, e)
  OBVIOUS
<1>3. HeapSound(i, X, B) /\ X[w] = W[u]
  BY <1>1, <1>2, ShareSound
<1>4. \A x \in Places : x # w => X[x] = W[x]
  BY <1>1 DEF Given, HeapSound, Claims
<1>5. g = Destroy(i, X[u].remote) /\ V = Given(X, u, NoEvent)
  BY <1>1, <1>2, <1>4
<1>6. HeapSound(g, V, B) /\ V[u] = NoEvent /\ \A x \in Places : x # u => V[x] = X[x]
  BY ONLY <1>3, <1>5, u \in Places, DestroySound
<1> QED BY <1>3, <1>4, <1>6

-----------------------------------------------------------------------------
(* One after the other.                                                    *)

\* Numbers are reached one after the other.
LEMMA SetInduction ==
    ASSUME NEW T \in SUBSET Nat, 0 \in T, \A n \in T : n + 1 \in T
    PROVE  T = Nat
<1> DEFINE U == Nat \ T
<1>1. SUFFICES ASSUME U # {} PROVE FALSE
  OBVIOUS
<1>2. \E x \in U : \A y \in U : ~ (<<y, x>> \in OpToRel(<, Nat))
  BY <1>1, NatLessThanWellFounded, WFMin
<1>3. PICK x \in U : \A y \in U : ~(y < x)
  BY <1>2 DEF OpToRel
<1>4. x # 0 /\ x - 1 \in Nat /\ x - 1 \in T
  BY <1>3
<1> QED BY <1>4


\* The results of steps that are taken one after the other, from the first.
Iterated(f, N, first, step) == f = [k \in 0 .. N |-> IF k = 0 THEN first ELSE step[k][f[k - 1]]]

\* There are such results if each step can be taken after the one before.
LEMMA IterationDefined ==
    ASSUME NEW N \in Nat, NEW D, NEW first \in D[0], NEW step,
           \A k \in 1 .. N : step[k] \in [D[k - 1] -> D[k]]
    PROVE  \E f : Iterated(f, N, first, step) /\ \A k \in 0 .. N : f[k] \in D[k]
<1> DEFINE Good(f, n) == Iterated(f, n, first, step) /\ \A k \in 0 .. n : f[k] \in D[k]
           T == {n \in Nat : n <= N => \E f : Good(f, n)}
<1>1. 0 \in T
  <2> DEFINE f == [k \in 0 .. 0 |-> first]
  <2>1. Iterated(f, 0, first, step)
    BY DEF Iterated
  <2>2. \A k \in 0 .. 0 : f[k] \in D[k]
    OBVIOUS
  <2> HIDE DEF f
  <2> QED BY <2>1, <2>2
<1>2. ASSUME NEW n \in T PROVE n + 1 \in T
  <2> SUFFICES ASSUME n + 1 <= N PROVE \E f : Good(f, n + 1)
    OBVIOUS
  <2>1. PICK f : Good(f, n)
    OBVIOUS
  <2> DEFINE g == [k \in 0 .. (n + 1) |-> IF k <= n THEN f[k] ELSE step[n + 1][f[n]]]
  <2>2. \A k \in 0 .. n : f[k] = IF k = 0 THEN first ELSE step[k][f[k - 1]]
    BY <2>1 DEF Iterated
  <2>3. \A k \in 0 .. (n + 1) : g[k] = IF k = 0 THEN first ELSE step[k][g[k - 1]]
    BY <2>2
  <2>4. Iterated(g, n + 1, first, step)
    BY <2>3, Zenon DEF Iterated
  <2>5. ASSUME NEW k \in 0 .. (n + 1) PROVE g[k] \in D[k]
    <3>1. CASE k <= n
      BY <2>1, <3>1
    <3>2. CASE ~(k <= n)
      <4>1. k = n + 1 /\ n + 1 \in 1 .. N /\ (n + 1) - 1 = n /\ n \in 0 .. n
        BY <3>2
      <4>2. f[n] \in D[n] /\ step[n + 1] \in [D[n] -> D[n + 1]]
        BY <2>1, <4>1
      <4>3. step[n + 1][f[n]] \in D[n + 1]
        BY <4>2
      <4>4. g[k] = step[n + 1][f[n]]
        BY <3>2
      <4> QED BY <4>1, <4>3, <4>4
    <3> QED BY <3>1, <3>2
  <2> HIDE DEF g
  <2> QED BY <2>4, <2>5
<1> HIDE DEF T, Good
<1>3. T = Nat
  BY <1>1, <1>2, SetInduction DEF T
<1>4. \E f : Good(f, N)
  BY <1>3 DEF T
<1> QED BY <1>4 DEF Good


\* Messages that wait in a slot, and who sent them.
Message == [remote : EndPointIds, from : Remotes]

\* What holders have after the first k messages of a queue were lost.
Emptied(W, V, s, k) ==
    /\ \A i \in 1 .. k : V[MessagePlace(s, i)] = NoEvent
    /\ \A w \in Places : (\A i \in 1 .. k : w # MessagePlace(s, i)) => V[w] = W[w]

\* Heaps in which that is so.
LosingTo(W, B, s, k) == {h \in HeapType : \E V : HeapSound(h, V, B) /\ Emptied(W, V, s, k)}

\* The heaps as one message after the other is lost.
LosesIs(lose, h, q) ==
    lose = [i \in 0 .. Len(q) |-> IF i = 0 THEN h ELSE Lose(lose[i - 1], q[i].remote)]

\* One message more is lost.
LEMMA LoseOne ==
    ASSUME NEW W, NEW B, NEW s \in SlotIds, NEW k \in 1 .. MaxQueued,
           NEW h \in LosingTo(W, B, s, k - 1),
           W[MessagePlace(s, k)].remote # Nobody,
           NEW g, g = Lose(h, W[MessagePlace(s, k)].remote)
    PROVE  g \in LosingTo(W, B, s, k)
<1>1. k \in Nat /\ k - 1 \in Nat /\ 1 .. k = 1 .. (k - 1) \cup {k} /\ k \notin 1 .. (k - 1)
  BY EndPointAssumption
<1>2. PICK V : HeapSound(h, V, B) /\ Emptied(W, V, s, k - 1)
  BY DEF LosingTo
<1>3. PICK w \in Places : w = MessagePlace(s, k)
  BY PlaceCases
<1>4. \A i \in 1 .. (k - 1) : w # MessagePlace(s, i)
  BY <1>1, <1>3, PlacesDiffer
<1>5. V[w] = W[w]
  BY <1>2, <1>4 DEF Emptied
<1>6. V[w].remote # Nobody /\ g = Lose(h, V[w].remote)
  BY <1>3, <1>5
<1>7. PICK X : X = Given(V, w, NoEvent)
  OBVIOUS
<1>8. HeapSound(g, X, B) /\ X[w] = NoEvent /\ \A u \in Places : u # w => X[u] = V[u]
  BY ONLY <1>2, <1>6, <1>7, w \in Places, LoseSound
<1>9. Emptied(W, X, s, k)
  <2>1. ASSUME NEW i \in 1 .. k PROVE X[MessagePlace(s, i)] = NoEvent
    <3>1. CASE i = k
      BY <1>3, <1>8, <3>1
    <3>2. CASE i # k
      <4>1. i \in 1 .. (k - 1) /\ i \in 1 .. MaxQueued
        BY <3>2, EndPointAssumption
      <4>2. V[MessagePlace(s, i)] = NoEvent /\ w # MessagePlace(s, i) /\ MessagePlace(s, i) \in Places
        BY <1>2, <1>4, <4>1, PlaceCases DEF Emptied
      <4> QED BY <1>8, <4>2
    <3> QED BY <3>1, <3>2
  <2>2. ASSUME NEW u \in Places, \A i \in 1 .. k : u # MessagePlace(s, i) PROVE X[u] = W[u]
    <3>1. u # w /\ \A i \in 1 .. (k - 1) : u # MessagePlace(s, i)
      BY <1>1, <1>3, <2>2
    <3> QED BY <1>2, <1>8, <3>1 DEF Emptied
  <2> QED BY <2>1, <2>2 DEF Emptied
<1>10. g \in HeapType
  BY <1>8 DEF HeapSound
<1> QED BY <1>8, <1>9, <1>10 DEF LosingTo

\* Everything that waits in a slot is lost.
LEMMA LoseAllSound ==
    ASSUME NEW h, NEW W, NEW B, HeapSound(h, W, B), NEW s \in SlotIds, NEW q \in Seq(Message),
           Len(q) <= MaxQueued, \A i \in 1 .. Len(q) : W[MessagePlace(s, i)] = q[i],
           NEW g, g = LoseAll(h, q)
    PROVE  \E V : HeapSound(g, V, B) /\ Emptied(W, V, s, Len(q))
<1> DEFINE N == Len(q)
           Well(k) == LosingTo(W, B, s, k)
           D == [k \in 0 .. N |-> Well(k)]
           step == [k \in 1 .. N |-> [i \in Well(k - 1) |-> Lose(i, q[k].remote)]]
<1>1. N \in Nat /\ MaxQueued \in Nat
  BY EndPointAssumption
<1>2. h \in Well(0)
  <2>1. Emptied(W, W, s, 0) /\ h \in HeapType
    BY DEF Emptied, HeapSound
  <2> QED BY <2>1 DEF LosingTo
<1>3. ASSUME NEW k \in 1 .. N, NEW i \in Well(k - 1) PROVE Lose(i, q[k].remote) \in Well(k)
  <2>1. k \in 1 .. MaxQueued
    BY <1>1
  <2>2. W[MessagePlace(s, k)] = q[k] /\ q[k] \in Message
    OBVIOUS
  <2>3. q[k].remote # Nobody
    BY <2>2, NobodyIs DEF Message
  <2>4. PICK j : j = Lose(i, q[k].remote)
    OBVIOUS
  <2>5. j = Lose(i, W[MessagePlace(s, k)].remote) /\ W[MessagePlace(s, k)].remote # Nobody
    BY <2>2, <2>3, <2>4
  <2>6. j \in LosingTo(W, B, s, k)
    BY ONLY <2>1, <2>5, s \in SlotIds, i \in LosingTo(W, B, s, k - 1), LoseOne
  <2> QED BY <2>4, <2>6
<1>4. \A k \in 1 .. N : step[k] \in [D[k - 1] -> D[k]]
  <2>1. ASSUME NEW k \in 1 .. N PROVE step[k] \in [D[k - 1] -> D[k]]
    <3>1. k - 1 \in 0 .. N /\ k \in 0 .. N
      BY <1>1
    <3>2. D[k - 1] = Well(k - 1) /\ D[k] = Well(k)
      BY <3>1
    <3>3. step[k] = [i \in Well(k - 1) |-> Lose(i, q[k].remote)]
      OBVIOUS
    <3> HIDE DEF step, D
    <3>4. step[k] \in [Well(k - 1) -> Well(k)]
      BY <1>3, <3>3
    <3> QED BY <3>2, <3>4
  <2> QED BY <2>1
<1>5. h \in D[0]
  BY <1>1, <1>2
<1>6. \A k \in 1 .. N : \A i \in Well(k - 1) : step[k][i] = Lose(i, q[k].remote)
  OBVIOUS
<1>7. \A k \in 0 .. N : D[k] = Well(k)
  OBVIOUS
<1>8. \E lose : LosesIs(lose, h, q)
  <2> HIDE DEF D, step
  <2>1. PICK t : Iterated(t, N, h, step) /\ \A k \in 0 .. N : t[k] \in D[k]
    BY <1>1, <1>4, <1>5, IterationDefined
  <2>2. t = [k \in 0 .. N |-> IF k = 0 THEN h ELSE step[k][t[k - 1]]]
    BY <2>1 DEF Iterated
  <2>3. ASSUME NEW k \in 0 .. N, k # 0
        PROVE  step[k][t[k - 1]] = Lose(t[k - 1], q[k].remote)
    <3>1. k \in 1 .. N /\ k - 1 \in 0 .. N
      BY <1>1, <2>3
    <3>2. t[k - 1] \in Well(k - 1)
      BY <1>7, <2>1, <3>1
    <3> QED BY <1>6, <3>1, <3>2
  <2>4. t = [k \in 0 .. N |-> IF k = 0 THEN h ELSE Lose(t[k - 1], q[k].remote)]
    BY <2>2, <2>3
  <2>5. LosesIs(t, h, q)
    BY <2>4 DEF LosesIs
  <2> QED BY <2>5
<1>9. PICK lose : lose = CHOOSE t : LosesIs(t, h, q)
  OBVIOUS
<1>10. LosesIs(lose, h, q)
  BY <1>8, <1>9
<1>11. g = lose[N]
  BY <1>9, Zenon DEF LoseAll, LosesIs
<1> DEFINE T == {k \in Nat : k <= N => lose[k] \in Well(k)}
<1>12. 0 \in T
  BY <1>1, <1>2, <1>10 DEF LosesIs
<1>13. ASSUME NEW k \in T PROVE k + 1 \in T
  <2> SUFFICES ASSUME k + 1 <= N PROVE lose[k + 1] \in Well(k + 1)
    OBVIOUS
  <2>1. /\ k \in Nat /\ lose[k] \in Well(k) /\ (k + 1) - 1 = k /\ k + 1 # 0
        /\ k + 1 \in 0 .. N /\ k + 1 \in 1 .. N
    BY <1>1
  <2>2. lose[k + 1] = Lose(lose[(k + 1) - 1], q[k + 1].remote)
    BY <1>10, <2>1 DEF LosesIs
  <2> QED BY <1>3, <2>1, <2>2
<1> HIDE DEF T, D, step
<1>14. T = Nat
  BY <1>12, <1>13, SetInduction DEF T
<1>15. lose[N] \in Well(N)
  BY <1>1, <1>14 DEF T
<1> QED BY <1>11, <1>15 DEF LosingTo

-----------------------------------------------------------------------------
(* States.                                                                 *)

SlotRecord ==
    [state : SlotStates, remote : MaybeEndPoint, from : MaybeRemote, member : BOOLEAN, queue : Seq(Message)]

\* A slot that is not free has an endpoint.
SlotSound(c) ==
    /\ c \in SlotRecord /\ Len(c.queue) <= MaxQueued
    /\ IF c.state = "free" THEN c = FreeSlot ELSE c.remote # Nobody

\* What is seen of a state without looking at the heap.
Shape(x, c, t, o) ==
    /\ x \in [alive : BOOLEAN, local : MaybeEndPoint, remote : MaybeEndPoint]
    /\ x.alive \/ x = NoHost
    /\ c \in [SlotIds -> SlotRecord] /\ \A s \in SlotIds : SlotSound(c[s])
    /\ t \in [EventIds -> Claim]
    /\ o \in MaybeEndPoint

\* The claims are those of the state, but for what is said of nothing.
Agrees(a, remote, from) == a.remote = remote /\ (remote # Nobody => a.from = from)

Waiting(V, s, q) ==
    \A k \in 1 .. MaxQueued : V[MessagePlace(s, k)] = IF k \in DOMAIN q THEN q[k] ELSE NoEvent

Fits(V, x, c, t, o) ==
    /\ \A s \in SlotIds : Agrees(V[ClientPlace(s)], c[s].remote, c[s].from)
    /\ \A s \in SlotIds : Waiting(V, s, c[s].queue)
    /\ \A v \in EventIds : Agrees(V[EventPlace(v)], t[v].remote, t[v].from)
    /\ V[LocalPlace].remote = x.local /\ V[RemotePlace].remote = x.remote
    /\ V[OwnPlace].remote = o /\ V[CallPlace].remote = Nobody

\* The inductive invariant: every count is that of the claims, which tell the truth.
Sound(h, x, c, t, o) == Shape(x, c, t, o) /\ HeapSound(h, ClaimsOf(h, x, c, t, o), Zero)

\* A sound state has claims that fit.
LEMMA SoundClaims ==
    ASSUME NEW h, NEW x, NEW c, NEW t, NEW o, Sound(h, x, c, t, o)
    PROVE  \E V : HeapSound(h, V, Zero) /\ Fits(V, x, c, t, o)
<1>1. PICK W : W = ClaimsOf(h, x, c, t, o)
  OBVIOUS
<1> ClaimsAre(W, h, x, c, t, o)
  BY ONLY <1>1, ClaimIs
<1>2. Fits(W, x, c, t, o)
  <2>1. ASSUME NEW s \in SlotIds PROVE Agrees(W[ClientPlace(s)], c[s].remote, c[s].from)
    <3>1. W[ClientPlace(s)] = To(c[s].remote, c[s].from)
      BY DEF ClaimsAre
    <3> QED BY <3>1 DEF To, Agrees
  <2>2. \A s \in SlotIds : Waiting(W, s, c[s].queue)
    BY DEF ClaimsAre, To, Waiting
  <2>3. \A v \in EventIds : Agrees(W[EventPlace(v)], t[v].remote, t[v].from)
    BY DEF ClaimsAre, To, Agrees
  <2>4. W[LocalPlace].remote = x.local /\ W[RemotePlace].remote = x.remote
        /\ W[OwnPlace].remote = o /\ W[CallPlace].remote = Nobody
    BY DEF ClaimsAre, To, NoEvent
  <2> QED BY <2>1, <2>2, <2>3, <2>4 DEF Fits
<1> QED BY <1>1, <1>2 DEF Sound

\* A state with claims that fit is sound.
LEMMA SoundBy ==
    ASSUME NEW h, NEW x, NEW c, NEW t, NEW o, NEW V,
           Shape(x, c, t, o), HeapSound(h, V, Zero), Fits(V, x, c, t, o)
    PROVE  Sound(h, x, c, t, o)
<1>1. PICK W : W = ClaimsOf(h, x, c, t, o)
  OBVIOUS
<1>2. h \in HeapType /\ V \in Claims /\ Known(h, V)
  BY DEF HeapSound
<1> ClaimsAre(W, h, x, c, t, o)
  BY ONLY <1>1, ClaimIs
<1>3. h.names \in [EndPointIds -> MaybeRemote]
  BY <1>2 DEF HeapType
<1>4. \A u \in Places : V[u].remote # Nobody => V[u].from = h.names[V[u].remote]
  BY <1>2 DEF Known
<1>5. ASSUME NEW u \in Places
      PROVE  W[u] \in Claim /\ V[u].remote = W[u].remote /\ (W[u].remote # Nobody => V[u].from = W[u].from)
  <2>1. CASE \E s \in SlotIds : u = ClientPlace(s)
    <3>1. PICK s \in SlotIds : u = ClientPlace(s)
      BY <2>1
    <3>2. W[u] = To(c[s].remote, c[s].from) /\ Agrees(V[u], c[s].remote, c[s].from)
      BY <3>1 DEF ClaimsAre, Fits
    <3>3. c[s].remote \in MaybeEndPoint /\ c[s].from \in MaybeRemote
      BY DEF Shape, SlotSound, SlotRecord
    <3> QED BY <3>2, <3>3 DEF To, Claim, Agrees
  <2>2. CASE \E s \in SlotIds, k \in 1 .. MaxQueued : u = MessagePlace(s, k)
    <3>1. PICK s \in SlotIds, k \in 1 .. MaxQueued : u = MessagePlace(s, k)
      BY <2>2
    <3>2. W[u] = IF k \in DOMAIN c[s].queue THEN c[s].queue[k] ELSE NoEvent
      BY <3>1 DEF ClaimsAre
    <3>3. V[u] = IF k \in DOMAIN c[s].queue THEN c[s].queue[k] ELSE NoEvent
      BY <3>1 DEF Fits, Waiting
    <3>4. V[u] \in Claim
      BY <1>2 DEF Claims
    <3> QED BY <3>2, <3>3, <3>4
  <2>3. CASE \E v \in EventIds : u = EventPlace(v)
    <3>1. PICK v \in EventIds : u = EventPlace(v)
      BY <2>3
    <3>2. W[u] = t[v] /\ Agrees(V[u], t[v].remote, t[v].from)
      BY <3>1 DEF ClaimsAre, Fits
    <3>3. t[v] \in Claim
      BY DEF Shape
    <3> QED BY <3>2, <3>3 DEF Agrees
  <2>4. ASSUME NEW e \in MaybeEndPoint, W[u] = To(e, IF e = Nobody THEN Nobody ELSE h.names[e]),
               V[u].remote = e
        PROVE  W[u] \in Claim /\ V[u].remote = W[u].remote /\ (W[u].remote # Nobody => V[u].from = W[u].from)
    <3>1. W[u].remote = e /\ W[u].from = IF e = Nobody THEN Nobody ELSE h.names[e]
      BY <2>4 DEF To
    <3>2. CASE e = Nobody
      <4>1. W[u] = To(Nobody, Nobody)
        BY <2>4, <3>2
      <4> QED BY <2>4, <3>1, <3>2, <4>1 DEF To, Claim, MaybeEndPoint, MaybeRemote
    <3>3. CASE e # Nobody
      <4>1. W[u] = To(e, h.names[e]) /\ h.names[e] \in MaybeRemote
        BY <1>3, <2>4, <3>3 DEF MaybeEndPoint
      <4> QED BY <1>4, <2>4, <3>1, <3>3, <4>1 DEF To, Claim
    <3> QED BY <3>2, <3>3
  <2>5. CASE u = LocalPlace
    <3>1. x.local \in MaybeEndPoint /\ V[u].remote = x.local
      BY <2>5 DEF Shape, Fits
    <3>2. W[u] = To(x.local, IF x.local = Nobody THEN Nobody ELSE h.names[x.local])
      BY <2>5 DEF ClaimsAre
    <3> QED BY <2>4, <3>1, <3>2
  <2>6. CASE u = RemotePlace
    <3>1. x.remote \in MaybeEndPoint /\ V[u].remote = x.remote
      BY <2>6 DEF Shape, Fits
    <3>2. W[u] = To(x.remote, IF x.remote = Nobody THEN Nobody ELSE h.names[x.remote])
      BY <2>6 DEF ClaimsAre
    <3> QED BY <2>4, <3>1, <3>2
  <2>7. CASE u = OwnPlace
    <3>1. o \in MaybeEndPoint /\ V[u].remote = o
      BY <2>7 DEF Shape, Fits
    <3>2. W[u] = To(o, IF o = Nobody THEN Nobody ELSE h.names[o])
      BY <2>7 DEF ClaimsAre
    <3> QED BY <2>4, <3>1, <3>2
  <2>8. CASE u = CallPlace
    <3>1. W[u] = NoEvent /\ V[u].remote = Nobody
      BY <2>8 DEF ClaimsAre, Fits
    <3> QED BY <3>1 DEF NoEvent, Claim, MaybeEndPoint, MaybeRemote
  <2> QED BY <2>1, <2>2, <2>3, <2>5, <2>6, <2>7, <2>8, PlaceCases
<1>6. W \in Claims /\ Alike(V, W)
  <2>1. W = [u \in Places |-> W[u]]
    BY <1>1 DEF ClaimsOf
  <2>2. W \in Claims
    BY <1>5, <2>1 DEF Claims
  <2> QED BY <1>5, <2>2 DEF Alike
<1>7. HeapSound(h, W, Zero)
  BY <1>6, AlikeSound
<1> QED BY <1>1, <1>7 DEF Sound

-----------------------------------------------------------------------------
(* Claims and states change together.                                      *)

\* Only the slot s changes.
SlotOnly(c, d, s) == \A r \in SlotIds : r # s => d[r] = c[r]

\* Only the event v changes.
EventOnly(t, u, v) == \A w \in EventIds : w # v => u[w] = t[w]

\* Only what the slot s and its messages have changes.
SlotClaims(V, X, s) ==
    \A u \in Places : u # ClientPlace(s) /\ (\A k \in 1 .. MaxQueued : u # MessagePlace(s, k)) => X[u] = V[u]

\* Only what one holder has changes.
OneClaim(V, X, w) == \A u \in Places : u # w => X[u] = V[u]

\* A slot changes.
LEMMA FitsSlot ==
    ASSUME NEW V, NEW X, NEW x, NEW c, NEW d, NEW t, NEW o, Fits(V, x, c, t, o), NEW s \in SlotIds,
           SlotOnly(c, d, s), SlotClaims(V, X, s),
           Agrees(X[ClientPlace(s)], d[s].remote, d[s].from), Waiting(X, s, d[s].queue)
    PROVE  Fits(X, x, d, t, o)
<1>1. ASSUME NEW r \in SlotIds PROVE Agrees(X[ClientPlace(r)], d[r].remote, d[r].from)
  <2>1. CASE r = s
    BY <2>1
  <2>2. CASE r # s
    <3>1. X[ClientPlace(r)] = V[ClientPlace(r)]
      BY <2>2, PlaceCases, PlacesDiffer DEF SlotClaims
    <3> QED BY <2>2, <3>1 DEF Fits, SlotOnly
  <2> QED BY <2>1, <2>2
<1>2. ASSUME NEW r \in SlotIds PROVE Waiting(X, r, d[r].queue)
  <2>1. CASE r = s
    BY <2>1
  <2>2. CASE r # s
    <3>1. \A k \in 1 .. MaxQueued : X[MessagePlace(r, k)] = V[MessagePlace(r, k)]
      <4>1. ASSUME NEW k \in 1 .. MaxQueued PROVE X[MessagePlace(r, k)] = V[MessagePlace(r, k)]
        <5>1. /\ MessagePlace(r, k) \in Places /\ MessagePlace(r, k) # ClientPlace(s)
              /\ \A j \in 1 .. MaxQueued : MessagePlace(r, k) # MessagePlace(s, j)
          BY <2>2, PlaceCases, PlacesDiffer
        <5> QED BY <5>1 DEF SlotClaims
      <4> QED BY <4>1
    <3>2. Waiting(V, r, c[r].queue) /\ d[r] = c[r]
      BY <2>2 DEF Fits, SlotOnly
    <3> QED BY <3>1, <3>2 DEF Waiting
  <2> QED BY <2>1, <2>2
<1>3. \A v \in EventIds : X[EventPlace(v)] = V[EventPlace(v)]
  BY PlaceCases, PlacesDiffer DEF SlotClaims
<1>4. /\ X[LocalPlace] = V[LocalPlace] /\ X[RemotePlace] = V[RemotePlace]
      /\ X[OwnPlace] = V[OwnPlace] /\ X[CallPlace] = V[CallPlace]
  BY PlaceCases, PlacesDiffer DEF SlotClaims
<1> QED BY <1>1, <1>2, <1>3, <1>4 DEF Fits

\* Slots and messages are as they were.
LEMMA SlotsStay ==
    ASSUME NEW V, NEW X, NEW w, OneClaim(V, X, w),
           \/ \E v : w = EventPlace(v)
           \/ w \in {LocalPlace, RemotePlace, OwnPlace, CallPlace}
    PROVE  /\ \A s \in SlotIds : X[ClientPlace(s)] = V[ClientPlace(s)]
           /\ \A s \in SlotIds : \A q : Waiting(V, s, q) => Waiting(X, s, q)
<1>1. \A s \in SlotIds : ClientPlace(s) # w
  BY PlacesDiffer
<1>2. \A s \in SlotIds, k \in 1 .. MaxQueued : MessagePlace(s, k) # w
  BY PlacesDiffer
<1>3. \A s \in SlotIds, k \in 1 .. MaxQueued : X[MessagePlace(s, k)] = V[MessagePlace(s, k)]
  BY <1>2, PlaceCases DEF OneClaim
<1>4. \A s \in SlotIds : X[ClientPlace(s)] = V[ClientPlace(s)]
  BY <1>1, PlaceCases DEF OneClaim
<1> QED BY <1>3, <1>4 DEF Waiting

\* An event changes.
LEMMA FitsEvent ==
    ASSUME NEW V, NEW X, NEW x, NEW c, NEW t, NEW u, NEW o, Fits(V, x, c, t, o), NEW v \in EventIds,
           EventOnly(t, u, v), OneClaim(V, X, EventPlace(v)), Agrees(X[EventPlace(v)], u[v].remote, u[v].from)
    PROVE  Fits(X, x, c, u, o)
<1>1. /\ \A s \in SlotIds : X[ClientPlace(s)] = V[ClientPlace(s)]
      /\ \A s \in SlotIds : \A q : Waiting(V, s, q) => Waiting(X, s, q)
  BY SlotsStay
<1>2. \A w \in EventIds : w # v => X[EventPlace(w)] = V[EventPlace(w)]
  BY PlaceCases, PlacesDiffer DEF OneClaim
<1>3. /\ X[LocalPlace] = V[LocalPlace] /\ X[RemotePlace] = V[RemotePlace]
      /\ X[OwnPlace] = V[OwnPlace] /\ X[CallPlace] = V[CallPlace]
  BY PlaceCases, PlacesDiffer DEF OneClaim
<1>4. ASSUME NEW w \in EventIds PROVE Agrees(X[EventPlace(w)], u[w].remote, u[w].from)
  BY <1>2 DEF Fits, EventOnly
<1> QED BY <1>1, <1>3, <1>4 DEF Fits

\* Other than slots, messages and events, there are these.
Single == {LocalPlace, RemotePlace, OwnPlace, CallPlace}

\* Only these change.
SingleClaims(V, X) == \A u \in Places : u \notin Single => X[u] = V[u]

\* What the host, the application or the call has changes.
LEMMA FitsSingle ==
    ASSUME NEW V, NEW X, NEW x, NEW y, NEW c, NEW t, NEW o, NEW p,
           Fits(V, x, c, t, o), SingleClaims(V, X),
           X[LocalPlace].remote = y.local, X[RemotePlace].remote = y.remote,
           X[OwnPlace].remote = p, X[CallPlace].remote = Nobody
    PROVE  Fits(X, y, c, t, p)
<1>1. /\ \A s \in SlotIds : X[ClientPlace(s)] = V[ClientPlace(s)]
      /\ \A s \in SlotIds, k \in 1 .. MaxQueued : X[MessagePlace(s, k)] = V[MessagePlace(s, k)]
  BY PlaceCases, PlacesDiffer DEF SingleClaims, Single
<1>2. \A v \in EventIds : X[EventPlace(v)] = V[EventPlace(v)]
  BY PlaceCases, PlacesDiffer DEF SingleClaims, Single
<1>3. \A s \in SlotIds : \A q : Waiting(V, s, q) => Waiting(X, s, q)
  BY <1>1 DEF Waiting
<1> QED BY <1>1, <1>2, <1>3 DEF Fits

\* Only what the client itself has changes.
LEMMA SlotOne ==
    ASSUME NEW V, NEW X, NEW s \in SlotIds, OneClaim(V, X, ClientPlace(s))
    PROVE  SlotClaims(V, X, s) /\ \A q : Waiting(V, s, q) => Waiting(X, s, q)
<1>1. \A k \in 1 .. MaxQueued : X[MessagePlace(s, k)] = V[MessagePlace(s, k)]
  BY PlaceCases, PlacesDiffer DEF OneClaim
<1> QED BY <1>1 DEF OneClaim, SlotClaims, Waiting

\* A slot, or an event, becomes another one.
Put(f, i, k) == [f EXCEPT ![i] = k]

\* What a slot becomes leaves the shape of the state.
LEMMA ShapeSlot ==
    ASSUME NEW x, NEW c, NEW t, NEW o, Shape(x, c, t, o), NEW s \in SlotIds, NEW k, SlotSound(k),
           NEW d, d = Put(c, s, k)
    PROVE  Shape(x, d, t, o) /\ SlotOnly(c, d, s) /\ d[s] = k
<1>1. c \in [SlotIds -> SlotRecord] /\ k \in SlotRecord
  BY DEF Shape, SlotSound
<1>2. d \in [SlotIds -> SlotRecord] /\ SlotOnly(c, d, s) /\ d[s] = k
  BY <1>1 DEF Put, SlotOnly
<1>3. \A r \in SlotIds : SlotSound(d[r])
  BY <1>2 DEF Shape, SlotOnly
<1> QED BY <1>2, <1>3 DEF Shape

\* And so does what an event becomes.
LEMMA ShapeEvent ==
    ASSUME NEW x, NEW c, NEW t, NEW o, Shape(x, c, t, o), NEW v \in EventIds, NEW k \in Claim,
           NEW u, u = Put(t, v, k)
    PROVE  Shape(x, c, u, o) /\ EventOnly(t, u, v) /\ u[v] = k
BY DEF Shape, Put, EventOnly

-----------------------------------------------------------------------------
(* Operations of a state.                                                  *)

\* A datagram comes in: its endpoint takes the place of the last one.
LEMMA DatagramSound ==
    ASSUME NEW x, NEW c, NEW t, NEW o, Sound(heap, x, c, t, o), x.alive, Room, NEW r \in Hosts,
           NEW n, n = NextEndPoint, NEW y, y = [x EXCEPT !.remote = n],
           NEW g, g = Destroy(Made(r), x.remote)
    PROVE  Sound(g, y, c, t, o) /\ n # Nobody /\ y.remote = n /\ g.names[n] = r
<1>1. PICK V : HeapSound(heap, V, Zero) /\ Fits(V, x, c, t, o)
  BY SoundClaims
<1>2. r \in Remotes /\ n \in EndPointIds /\ n # Nobody
  BY NextIs, NobodyIs DEF Remotes
<1>3. PICK m : m = Made(r)
  OBVIOUS
<1>4. PICK X : X = Given(V, CallPlace, To(n, r))
  OBVIOUS
<1>5. CallPlace \in Places /\ RemotePlace \in Places /\ CallPlace # RemotePlace
  BY PlaceCases, PlacesDiffer
<1>6. V[CallPlace].remote = Nobody /\ V[RemotePlace].remote = x.remote
  BY <1>1 DEF Fits
<1>7. HeapSound(m, X, Zero)
  BY ONLY <1>1, <1>2, <1>3, <1>4, <1>5, <1>6, Room, n = NextEndPoint, MadeSound
<1>8. X[CallPlace] = To(n, r) /\ \A u \in Places : u # CallPlace => X[u] = V[u]
  BY <1>1, <1>4, <1>5 DEF HeapSound, Claims, Given
<1>9. PICK Y : Y = Given(X, RemotePlace, NoEvent)
  OBVIOUS
<1>10. g = Destroy(m, X[RemotePlace].remote)
  BY <1>3, <1>5, <1>6, <1>8
<1>11. HeapSound(g, Y, Zero) /\ Y[RemotePlace] = NoEvent /\ \A u \in Places : u # RemotePlace => Y[u] = X[u]
  BY ONLY <1>5, <1>7, <1>9, <1>10, DestroySound
<1>12. PICK Z : Z = Given(Given(Y, RemotePlace, Y[CallPlace]), CallPlace, NoEvent)
  OBVIOUS
<1>13. Y[CallPlace] = To(n, r) /\ Y[CallPlace].remote # Nobody /\ Y[RemotePlace].remote = Nobody
  BY <1>2, <1>5, <1>8, <1>11 DEF To, NoEvent
<1>14. /\ HeapSound(g, Z, Zero) /\ Z[RemotePlace] = Y[CallPlace] /\ Z[CallPlace] = NoEvent
       /\ \A u \in Places : u # CallPlace /\ u # RemotePlace => Z[u] = Y[u]
  BY ONLY <1>5, <1>11, <1>12, <1>13, HandedSound
<1>15. Fits(Z, y, c, t, o) /\ y.remote = n
  <2>1. SingleClaims(V, Z)
    BY <1>8, <1>11, <1>14 DEF SingleClaims, Single
  <2>2. Z[LocalPlace] = V[LocalPlace] /\ Z[OwnPlace] = V[OwnPlace]
    BY <1>8, <1>11, <1>14, PlaceCases, PlacesDiffer
  <2>3. y.local = x.local /\ y.remote = n
    BY DEF Sound, Shape
  <2>4. Z[RemotePlace].remote = y.remote /\ Z[CallPlace].remote = Nobody
    BY <1>13, <1>14, <2>3 DEF To, NoEvent
  <2>5. V[LocalPlace].remote = x.local /\ V[OwnPlace].remote = o
    BY <1>1 DEF Fits
  <2>6. Z[LocalPlace].remote = y.local /\ Z[OwnPlace].remote = o
    BY <2>2, <2>3, <2>5
  <2>7. Fits(V, x, c, t, o)
    BY <1>1
  <2>8. Fits(Z, y, c, t, o)
    BY ONLY <2>1, <2>4, <2>6, <2>7, FitsSingle
  <2> QED BY <2>3, <2>8
<1>16. Shape(y, c, t, o)
  <2>1. Shape(x, c, t, o)
    BY DEF Sound
  <2>2. y \in [alive : BOOLEAN, local : MaybeEndPoint, remote : MaybeEndPoint] /\ y.alive
    BY <1>2, <2>1 DEF Shape, MaybeEndPoint
  <2> QED BY <2>1, <2>2 DEF Shape
<1>17. g.names[n] = r
  <2>1. Z[RemotePlace].remote = n /\ Z[RemotePlace].from = r
    BY <1>13, <1>14 DEF To
  <2> QED BY <1>2, <1>5, <1>14, <2>1 DEF HeapSound, Known
<1> QED BY <1>2, <1>14, <1>15, <1>16, <1>17, SoundBy

\* An event gets an endpoint of its own.
LEMMA EventSound ==
    ASSUME NEW h, NEW x, NEW c, NEW t, NEW o, Sound(h, x, c, t, o),
           NEW e, NEW f, e # Nobody,
           \/ \E s \in SlotIds : c[s].remote = e /\ c[s].from = f
           \/ x.remote = e /\ h.names[e] = f,
           NEW v \in EventIds, t[v] = NoEvent, NEW u, u = Put(t, v, To(e, f)),
           NEW g, g = EventCopied(h, e)
    PROVE  Sound(g, x, c, u, o) /\ g.names = h.names /\ To(e, f) \in Claim
<1>1. PICK V : HeapSound(h, V, Zero) /\ Fits(V, x, c, t, o)
  BY SoundClaims
<1>2. PICK z \in Places : V[z] = To(e, f)
  <2>1. V \in Claims /\ Known(h, V)
    BY <1>1 DEF HeapSound
  <2>2. CASE \E s \in SlotIds : c[s].remote = e /\ c[s].from = f
    <3>1. PICK s \in SlotIds : c[s].remote = e /\ c[s].from = f
      BY <2>2
    <3>2. Agrees(V[ClientPlace(s)], e, f) /\ ClientPlace(s) \in Places
      BY <1>1, <3>1, PlaceCases DEF Fits
    <3>3. V[ClientPlace(s)] \in Claim /\ V[ClientPlace(s)].remote = e /\ V[ClientPlace(s)].from = f
      BY <2>1, <3>2 DEF Claims, Agrees
    <3> QED BY <3>2, <3>3 DEF Claim, To
  <2>3. CASE x.remote = e /\ h.names[e] = f
    <3>1. V[RemotePlace].remote = e /\ RemotePlace \in Places
      BY <1>1, <2>3, PlaceCases DEF Fits
    <3>2. V[RemotePlace] \in Claim /\ V[RemotePlace].from = f
      BY <2>1, <2>3, <3>1 DEF Claims, Known
    <3> QED BY <3>1, <3>2 DEF Claim, To
  <2> QED BY <2>2, <2>3
<1>3. e = V[z].remote /\ To(e, f) \in Claim
  BY <1>1, <1>2 DEF To, HeapSound, Claims
<1>4. PICK w \in Places : w = EventPlace(v)
  BY PlaceCases
<1>5. V[w].remote = Nobody
  BY <1>1, <1>4 DEF Fits, Agrees, NoEvent
<1>6. g = ShareEndPoint(h, e)
  BY DEF EventCopied
<1>7. PICK X : X = Given(V, w, V[z])
  OBVIOUS
<1>8. HeapSound(g, X, Zero) /\ g.names = h.names /\ X[w] = V[z]
  BY ONLY <1>1, <1>3, <1>5, <1>6, <1>7, e # Nobody, z \in Places, w \in Places, ShareSound
<1>9. OneClaim(V, X, w)
  BY <1>1, <1>7 DEF HeapSound, Claims, Given, OneClaim
<1>10. Shape(x, c, u, o) /\ EventOnly(t, u, v) /\ u[v] = To(e, f)
  BY <1>3, ShapeEvent DEF Sound
<1>11. Agrees(X[w], u[v].remote, u[v].from)
  BY <1>2, <1>8, <1>10 DEF Agrees
<1>12. Fits(X, x, c, u, o)
  BY <1>1, <1>4, <1>9, <1>10, <1>11, FitsEvent
<1> QED BY <1>3, <1>8, <1>10, <1>12, SoundBy

\* An event that names nobody.
LEMMA SilentSound ==
    ASSUME NEW h, NEW x, NEW c, NEW t, NEW o, Sound(h, x, c, t, o),
           NEW f \in MaybeRemote, NEW v \in EventIds, t[v] = NoEvent, NEW u, u = Put(t, v, To(Nobody, f))
    PROVE  Sound(h, x, c, u, o)
<1>1. PICK V : HeapSound(h, V, Zero) /\ Fits(V, x, c, t, o)
  BY SoundClaims
<1>2. To(Nobody, f) \in Claim
  BY DEF To, Claim, MaybeEndPoint
<1>3. Shape(x, c, u, o) /\ EventOnly(t, u, v) /\ u[v] = To(Nobody, f)
  BY <1>2, ShapeEvent DEF Sound
<1>4. Agrees(V[EventPlace(v)], u[v].remote, u[v].from)
  BY <1>1, <1>3 DEF Agrees, Fits, To, NoEvent
<1>5. Fits(V, x, c, u, o)
  BY <1>1, <1>3, <1>4, FitsEvent DEF OneClaim
<1> QED BY <1>1, <1>3, <1>5, SoundBy

\* gekkota_event_destroy.
LEMMA EventDestroyedSound ==
    ASSUME NEW h, NEW x, NEW c, NEW t, NEW o, Sound(h, x, c, t, o),
           NEW v \in EventIds, NEW u, u = Put(t, v, NoEvent), NEW g, g = Destroy(h, t[v].remote)
    PROVE  Sound(g, x, c, u, o)
<1>1. PICK V : HeapSound(h, V, Zero) /\ Fits(V, x, c, t, o)
  BY SoundClaims
<1>2. PICK w \in Places : w = EventPlace(v)
  BY PlaceCases
<1>3. g = Destroy(h, V[w].remote)
  BY <1>1, <1>2 DEF Fits, Agrees
<1>4. PICK X : X = Given(V, w, NoEvent)
  OBVIOUS
<1>5. HeapSound(g, X, Zero) /\ X[w] = NoEvent /\ \A z \in Places : z # w => X[z] = V[z]
  BY ONLY <1>1, <1>3, <1>4, w \in Places, DestroySound
<1>6. NoEvent \in Claim
  BY DEF NoEvent, Claim, MaybeEndPoint, MaybeRemote
<1>7. Shape(x, c, u, o) /\ EventOnly(t, u, v) /\ u[v] = NoEvent
  BY <1>6, ShapeEvent DEF Sound
<1>8. Agrees(X[w], u[v].remote, u[v].from) /\ OneClaim(V, X, w)
  BY <1>5, <1>7 DEF Agrees, OneClaim
<1>9. Fits(X, x, c, u, o)
  BY <1>1, <1>2, <1>7, <1>8, FitsEvent
<1> QED BY <1>5, <1>7, <1>9, SoundBy

\* A slot that is free can be put in the place of any.
LEMMA FreeIs == SlotSound(FreeSlot)
<1>1. "free" \in SlotStates /\ <<>> \in Seq(Message) /\ Len(<<>>) = 0 /\ 0 <= MaxQueued
  BY EndPointAssumption DEF SlotStates
<1>2. FreeSlot \in SlotRecord
  BY <1>1 DEF FreeSlot, SlotRecord, MaybeEndPoint, MaybeRemote
<1> QED BY <1>1, <1>2 DEF SlotSound, FreeSlot

\* Messages that wait are lost: what a slot with none becomes fits.
LEMMA QueueLost ==
    ASSUME NEW h, NEW x, NEW c, NEW t, NEW o, Shape(x, c, t, o), NEW s \in SlotIds,
           NEW W, HeapSound(h, W, Zero), Waiting(W, s, c[s].queue),
           NEW V, Fits(V, x, c, t, o), OneClaim(V, W, ClientPlace(s)),
           NEW g, g = LoseAll(h, c[s].queue),
           NEW k, SlotSound(k), k.queue = <<>>, Agrees(W[ClientPlace(s)], k.remote, k.from),
           NEW d, d = Put(c, s, k)
    PROVE  Sound(g, x, d, t, o)
<1>1. PICK q \in Seq(Message) : q = c[s].queue
  BY DEF Shape, SlotSound, SlotRecord
<1>2. Len(q) <= MaxQueued /\ Len(q) \in Nat /\ DOMAIN q = 1 .. Len(q)
  BY <1>1 DEF Shape, SlotSound
<1>3. \A i \in 1 .. Len(q) : W[MessagePlace(s, i)] = q[i]
  BY <1>1, <1>2, EndPointAssumption DEF Waiting
<1>4. g = LoseAll(h, q)
  BY <1>1
<1>5. PICK X : HeapSound(g, X, Zero) /\ Emptied(W, X, s, Len(q))
  BY ONLY HeapSound(h, W, Zero), s \in SlotIds, <1>2, <1>3, <1>4, q \in Seq(Message), LoseAllSound
<1>6. Shape(x, d, t, o) /\ SlotOnly(c, d, s) /\ d[s] = k
  BY ShapeSlot
<1>7. ClientPlace(s) \in Places /\ \A i : ClientPlace(s) # MessagePlace(s, i)
  BY PlaceCases, PlacesDiffer
<1>8. X[ClientPlace(s)] = W[ClientPlace(s)]
  BY <1>5, <1>7 DEF Emptied
<1>9. Waiting(X, s, k.queue)
  <2>1. ASSUME NEW i \in 1 .. MaxQueued PROVE X[MessagePlace(s, i)] = NoEvent
    <3>1. CASE i \in 1 .. Len(q)
      BY <1>5, <3>1 DEF Emptied
    <3>2. CASE i \notin 1 .. Len(q)
      <4>1. MessagePlace(s, i) \in Places /\ \A j \in 1 .. Len(q) : MessagePlace(s, i) # MessagePlace(s, j)
        BY <3>2, PlaceCases, PlacesDiffer
      <4>2. X[MessagePlace(s, i)] = W[MessagePlace(s, i)]
        BY <1>5, <4>1 DEF Emptied
      <4>3. W[MessagePlace(s, i)] = NoEvent
        BY <1>1, <1>2, <3>2 DEF Waiting
      <4> QED BY <4>2, <4>3
    <3> QED BY <3>1, <3>2
  <2> QED BY <2>1 DEF Waiting
<1>10. SlotClaims(V, X, s)
  <2>1. ASSUME NEW u \in Places, u # ClientPlace(s), \A i \in 1 .. MaxQueued : u # MessagePlace(s, i)
        PROVE  X[u] = V[u]
    <3>1. \A i \in 1 .. Len(q) : u # MessagePlace(s, i)
      BY <1>2, <2>1, EndPointAssumption
    <3>2. X[u] = W[u]
      BY <1>5, <3>1 DEF Emptied
    <3>3. W[u] = V[u]
      BY <2>1 DEF OneClaim
    <3> QED BY <3>2, <3>3
  <2> QED BY <2>1 DEF SlotClaims
<1>11. Fits(X, x, d, t, o)
  BY <1>6, <1>8, <1>9, <1>10, FitsSlot
<1> QED BY <1>5, <1>6, <1>11, SoundBy

\* _gekkota_xudpclient_clear_message_queues.
LEMMA QueuesClearedSound ==
    ASSUME NEW h, NEW x, NEW c, NEW t, NEW o, Sound(h, x, c, t, o), NEW s \in SlotIds,
           NEW g, g = QueuesCleared(h, c[s]),
           NEW k, SlotSound(k), k.queue = <<>>, k.remote = c[s].remote, k.from = c[s].from,
           NEW d, d = Put(c, s, k)
    PROVE  Sound(g, x, d, t, o)
<1>1. PICK V : HeapSound(h, V, Zero) /\ Fits(V, x, c, t, o)
  BY SoundClaims
<1>2. Shape(x, c, t, o)
  BY DEF Sound
<1>3. Waiting(V, s, c[s].queue) /\ Agrees(V[ClientPlace(s)], k.remote, k.from)
  BY <1>1 DEF Fits
<1>4. OneClaim(V, V, ClientPlace(s))
  BY DEF OneClaim
<1>5. g = LoseAll(h, c[s].queue)
  BY DEF QueuesCleared
<1> QED BY <1>1, <1>2, <1>3, <1>4, <1>5, QueueLost

\* gekkota_xudpclient_destroy.
LEMMA ClientDestroyedSound ==
    ASSUME NEW h, NEW x, NEW c, NEW t, NEW o, Sound(h, x, c, t, o), NEW s \in SlotIds,
           NEW g, g = ClientDestroyed(h, c[s]), NEW d, d = Put(c, s, FreeSlot)
    PROVE  Sound(g, x, d, t, o)
<1>1. PICK V : HeapSound(h, V, Zero) /\ Fits(V, x, c, t, o)
  BY SoundClaims
<1>2. Shape(x, c, t, o)
  BY DEF Sound
<1>3. PICK w \in Places : w = ClientPlace(s)
  BY PlaceCases
<1>4. PICK e : e = c[s].remote
  OBVIOUS
<1>5. V[w].remote = e
  BY <1>1, <1>3, <1>4 DEF Fits, Agrees
<1>6. PICK i : i = IF e = Nobody THEN h ELSE IF c[s].member THEN Destroy(h, e) ELSE Lose(h, e)
  OBVIOUS
<1>7. g = LoseAll(i, c[s].queue)
  BY <1>4, <1>6 DEF ClientDestroyed, QueuesCleared
<1>8. \E X : HeapSound(i, X, Zero) /\ X[w].remote = Nobody /\ OneClaim(V, X, w)
  <2>1. CASE e = Nobody
    <3>1. i = h /\ OneClaim(V, V, w)
      BY <1>6, <2>1 DEF OneClaim
    <3> QED BY <1>1, <1>5, <2>1, <3>1
  <2>2. CASE e # Nobody
    <3>1. PICK X : X = Given(V, w, NoEvent)
      OBVIOUS
    <3>2. CASE c[s].member
      <4>1. i = Destroy(h, V[w].remote)
        BY <1>5, <1>6, <2>2, <3>2
      <4>2. HeapSound(i, X, Zero) /\ X[w] = NoEvent /\ \A z \in Places : z # w => X[z] = V[z]
        BY ONLY <1>1, <3>1, <4>1, w \in Places, DestroySound
      <4> QED BY <4>2 DEF OneClaim, NoEvent
    <3>3. CASE ~c[s].member
      <4>1. i = Lose(h, V[w].remote) /\ V[w].remote # Nobody
        BY <1>5, <1>6, <2>2, <3>3
      <4>2. HeapSound(i, X, Zero) /\ X[w] = NoEvent /\ \A z \in Places : z # w => X[z] = V[z]
        BY ONLY <1>1, <3>1, <4>1, w \in Places, LoseSound
      <4> QED BY <4>2 DEF OneClaim, NoEvent
    <3> QED BY <3>2, <3>3
  <2> QED BY <2>1, <2>2
<1>9. PICK X : HeapSound(i, X, Zero) /\ X[w].remote = Nobody /\ OneClaim(V, X, w)
  BY <1>8
<1>10. Waiting(X, s, c[s].queue)
  BY <1>1, <1>3, <1>9, SlotOne DEF Fits
<1>11. SlotSound(FreeSlot) /\ FreeSlot.queue = <<>> /\ Agrees(X[ClientPlace(s)], FreeSlot.remote, FreeSlot.from)
  BY <1>3, <1>9, FreeIs DEF FreeSlot, Agrees
<1>12. OneClaim(V, X, ClientPlace(s))
  BY <1>3, <1>9
<1>13. PICK k : k = FreeSlot
  OBVIOUS
<1>14. SlotSound(k) /\ k.queue = <<>> /\ Agrees(X[ClientPlace(s)], k.remote, k.from) /\ d = Put(c, s, k)
  BY <1>11, <1>13
<1> QED BY ONLY <1>1, <1>2, <1>7, <1>9, <1>10, <1>12, <1>14, s \in SlotIds, QueueLost

\* A client changes its state, and nothing else.
LEMMA StateSound ==
    ASSUME NEW h, NEW x, NEW c, NEW t, NEW o, Sound(h, x, c, t, o), NEW s \in SlotIds,
           NEW k, SlotSound(k), k.queue = c[s].queue, k.remote = c[s].remote, k.from = c[s].from,
           NEW d, d = Put(c, s, k)
    PROVE  Sound(h, x, d, t, o)
<1>1. PICK V : HeapSound(h, V, Zero) /\ Fits(V, x, c, t, o)
  BY SoundClaims
<1>2. Shape(x, d, t, o) /\ SlotOnly(c, d, s) /\ d[s] = k
  BY ShapeSlot DEF Sound
<1>3. SlotClaims(V, V, s)
  BY DEF SlotClaims
<1>4. Agrees(V[ClientPlace(s)], d[s].remote, d[s].from) /\ Waiting(V, s, d[s].queue)
  BY <1>1, <1>2 DEF Fits
<1>5. Fits(V, x, d, t, o)
  BY <1>1, <1>2, <1>3, <1>4, FitsSlot
<1> QED BY <1>1, <1>2, <1>5, SoundBy

\* A message is queued: it shares the endpoint of the datagram.
LEMMA QueuedSound ==
    ASSUME NEW h, NEW x, NEW c, NEW t, NEW o, Sound(h, x, c, t, o), NEW s \in SlotIds,
           c[s].state # "free", Len(c[s].queue) < MaxQueued,
           NEW n, n = x.remote, n # Nobody, NEW r, h.names[n] = r,
           NEW g, g = Queued(h, n),
           NEW k, SlotSound(k), k.queue = Append(c[s].queue, To(n, r)),
           k.remote = c[s].remote, k.from = c[s].from,
           NEW d, d = Put(c, s, k)
    PROVE  Sound(g, x, d, t, o)
<1>1. PICK V : HeapSound(h, V, Zero) /\ Fits(V, x, c, t, o)
  BY SoundClaims
<1>2. PICK q \in Seq(Message) : q = c[s].queue
  BY DEF Sound, Shape, SlotSound, SlotRecord
<1>3. PICK j : j = Len(q) + 1
  OBVIOUS
<1>4. j \in 1 .. MaxQueued /\ Len(q) \in Nat
  BY <1>2, <1>3, EndPointAssumption
<1>5. PICK w \in Places : w = MessagePlace(s, j)
  BY <1>4, PlaceCases
<1>6. V[w] = NoEvent /\ V[w].remote = Nobody
  BY <1>1, <1>2, <1>3, <1>4, <1>5 DEF Fits, Waiting, NoEvent
<1>7. PICK z \in Places : z = RemotePlace
  BY PlaceCases
<1>8. n = V[z].remote
  BY <1>1, <1>7 DEF Fits
<1>9. V[z] = To(n, r)
  <2>1. V[z] \in Claim /\ V[z].from = r
    BY <1>1, <1>8 DEF HeapSound, Claims, Known
  <2> QED BY <1>8, <2>1 DEF Claim, To
<1>10. PICK X : X = Given(V, w, V[z])
  OBVIOUS
<1>11. g = ShareEndPoint(h, n)
  BY DEF Queued
<1>12. HeapSound(g, X, Zero) /\ X[w] = V[z]
  BY ONLY <1>1, <1>6, <1>8, <1>10, <1>11, n # Nobody, z \in Places, w \in Places, ShareSound
<1>13. OneClaim(V, X, w)
  BY <1>1, <1>10 DEF HeapSound, Claims, Given, OneClaim
<1>14. Shape(x, d, t, o) /\ SlotOnly(c, d, s) /\ d[s] = k
  BY ShapeSlot DEF Sound
<1>15. SlotClaims(V, X, s)
  BY <1>4, <1>5, <1>13 DEF OneClaim, SlotClaims
<1>16. Agrees(X[ClientPlace(s)], d[s].remote, d[s].from)
  <2>1. X[ClientPlace(s)] = V[ClientPlace(s)]
    BY <1>5, <1>13, PlaceCases, PlacesDiffer DEF OneClaim
  <2> QED BY <1>1, <1>14, <2>1 DEF Fits
<1>17. Waiting(X, s, d[s].queue)
  <2>1. To(n, r) \in Message
    <3>1. n \in EndPointIds /\ r \in Remotes
      <4>1. V[z].remote # Nobody
        BY <1>8
      <4>2. n \in EndPointIds /\ V[z].from \in Remotes
        BY ONLY <1>1, <1>8, <4>1, z \in Places, ClaimedIs
      <4> QED BY <1>9, <4>2 DEF To
    <3> QED BY <3>1 DEF To, Message
  <2>2. PICK p : p = Append(q, To(n, r))
    OBVIOUS
  <2>3. /\ Len(p) = j /\ p[j] = To(n, r) /\ DOMAIN p = 1 .. j
        /\ \A i \in 1 .. Len(q) : p[i] = q[i]
    BY <1>3, <2>1, <2>2
  <2>4. ASSUME NEW i \in 1 .. MaxQueued
        PROVE  X[MessagePlace(s, i)] = IF i \in DOMAIN p THEN p[i] ELSE NoEvent
    <3>1. CASE i = j
      BY <1>4, <1>5, <1>9, <1>12, <2>3, <3>1
    <3>2. CASE i # j
      <4>1. X[MessagePlace(s, i)] = V[MessagePlace(s, i)]
        BY <1>5, <1>13, <3>2, PlaceCases, PlacesDiffer DEF OneClaim
      <4>2. V[MessagePlace(s, i)] = IF i \in DOMAIN q THEN q[i] ELSE NoEvent
        BY <1>1, <1>2 DEF Fits, Waiting
      <4>3. i \in DOMAIN p <=> i \in DOMAIN q
        BY <1>3, <1>4, <2>3, <3>2
      <4>4. i \in DOMAIN q => p[i] = q[i]
        BY <2>3
      <4> QED BY <4>1, <4>2, <4>3, <4>4
    <3> QED BY <3>1, <3>2
  <2>5. d[s].queue = p
    BY <1>2, <1>14, <2>2
  <2> QED BY <2>4, <2>5 DEF Waiting
<1>18. Fits(X, x, d, t, o)
  BY <1>1, <1>14, <1>15, <1>16, <1>17, FitsSlot
<1> QED BY <1>12, <1>14, <1>18, SoundBy

\* What a slot becomes for a client that is new.
Taken(state, e, member, f) ==
    [FreeSlot EXCEPT !.state = state, !.remote = e, !.member = member, !.from = f]

\* It has an endpoint, and nothing waits.
LEMMA TakenIs ==
    ASSUME NEW state \in SlotStates \ {"free"}, NEW e \in EndPointIds, NEW member \in BOOLEAN,
           NEW f \in MaybeRemote, NEW k, k = Taken(state, e, member, f)
    PROVE  SlotSound(k) /\ k.queue = <<>> /\ k.remote = e /\ k.from = f
<1>1. k = [state |-> state, remote |-> e, from |-> f, member |-> member, queue |-> <<>>]
  BY DEF Taken, FreeSlot
<1>2. <<>> \in Seq(Message) /\ Len(<<>>) = 0 /\ 0 <= MaxQueued /\ e # Nobody
  BY EndPointAssumption, NobodyIs
<1>3. k \in SlotRecord
  BY <1>1, <1>2 DEF SlotRecord, MaybeEndPoint
<1> QED BY <1>1, <1>2, <1>3 DEF SlotSound

\* A slot is taken: the client shares the endpoint of the application, or of the
\* datagram.
LEMMA TakesSound ==
    ASSUME NEW h, NEW x, NEW c, NEW t, NEW o, Sound(h, x, c, t, o), NEW s \in SlotIds,
           c[s].state = "free", NEW e, e \in {x.remote, o}, e # Nobody,
           NEW g, g = ShareEndPoint(h, e),
           NEW state \in SlotStates \ {"free"}, NEW member \in BOOLEAN,
           NEW k, k = Taken(state, e, member, g.names[e]),
           NEW d, d = Put(c, s, k)
    PROVE  Sound(g, x, d, t, o)
<1>1. PICK V : HeapSound(h, V, Zero) /\ Fits(V, x, c, t, o)
  BY SoundClaims
<1>2. c[s] = FreeSlot
  BY DEF Sound, Shape, SlotSound
<1>3. PICK w \in Places : w = ClientPlace(s)
  BY PlaceCases
<1>4. V[w].remote = Nobody
  BY <1>1, <1>2, <1>3 DEF Fits, Agrees, FreeSlot
<1>5. PICK z \in Places : e = V[z].remote
  BY <1>1, PlaceCases DEF Fits
<1>6. PICK X : X = Given(V, w, V[z])
  OBVIOUS
<1>7. HeapSound(g, X, Zero) /\ X[w] = V[z] /\ g.names = h.names
  BY ONLY <1>1, <1>4, <1>5, <1>6, e # Nobody, g = ShareEndPoint(h, e), z \in Places, w \in Places, ShareSound
<1>8. OneClaim(V, X, ClientPlace(s))
  BY <1>1, <1>3, <1>6 DEF HeapSound, Claims, Given, OneClaim
<1>9. V[z].from = g.names[e] /\ e \in EndPointIds /\ V[z].from \in MaybeRemote
  BY <1>1, <1>5, <1>7 DEF HeapSound, Known, Claims, Claim, MaybeEndPoint
<1>15. SlotSound(k) /\ k.queue = <<>> /\ k.remote = e /\ k.from = g.names[e]
  BY <1>9, TakenIs
<1>10. Shape(x, d, t, o) /\ SlotOnly(c, d, s) /\ d[s] = k
  BY <1>15, ShapeSlot DEF Sound
<1>11. Agrees(X[ClientPlace(s)], d[s].remote, d[s].from)
  BY <1>3, <1>5, <1>7, <1>9, <1>10, <1>15 DEF Agrees
<1>12. SlotClaims(V, X, s) /\ Waiting(X, s, c[s].queue)
  BY <1>1, <1>8, SlotOne DEF Fits
<1>13. Waiting(X, s, d[s].queue)
  BY <1>2, <1>10, <1>12, <1>15 DEF FreeSlot
<1>14. Fits(X, x, d, t, o)
  BY <1>1, <1>10, <1>11, <1>12, <1>13, FitsSlot
<1> QED BY <1>7, <1>10, <1>14, SoundBy

\* A reference is made for an event that is then lost.
LEMMA TwiceSound ==
    ASSUME NEW h, NEW x, NEW c, NEW t, NEW o, Sound(h, x, c, t, o),
           NEW e, e = x.remote, e # Nobody, NEW g, g = Lose(EventCopied(h, e), e)
    PROVE  Sound(g, x, c, t, o)
<1>1. PICK V : HeapSound(h, V, Zero) /\ Fits(V, x, c, t, o)
  BY SoundClaims
<1>2. PICK i : i = ShareEndPoint(h, e)
  OBVIOUS
<1>3. CallPlace \in Places /\ RemotePlace \in Places
  BY PlaceCases
<1>4. V[CallPlace].remote = Nobody /\ e = V[RemotePlace].remote
  BY <1>1 DEF Fits
<1>5. PICK X : X = Given(V, CallPlace, V[RemotePlace])
  OBVIOUS
<1>6. HeapSound(i, X, Zero) /\ X[CallPlace] = V[RemotePlace]
  BY ONLY <1>1, <1>2, <1>3, <1>4, <1>5, e # Nobody, ShareSound
<1>7. \A u \in Places : u # CallPlace => X[u] = V[u]
  BY <1>1, <1>5 DEF HeapSound, Claims, Given
<1>8. g = Lose(i, X[CallPlace].remote) /\ X[CallPlace].remote # Nobody
  BY <1>2, <1>4, <1>6 DEF EventCopied
<1>9. PICK Y : Y = Given(X, CallPlace, NoEvent)
  OBVIOUS
<1>10. HeapSound(g, Y, Zero) /\ Y[CallPlace] = NoEvent /\ \A u \in Places : u # CallPlace => Y[u] = X[u]
  BY ONLY <1>3, <1>6, <1>8, <1>9, LoseSound
<1>11. SingleClaims(V, Y)
  BY <1>7, <1>10 DEF SingleClaims, Single
<1>12. Y[LocalPlace] = V[LocalPlace] /\ Y[RemotePlace] = V[RemotePlace] /\ Y[OwnPlace] = V[OwnPlace]
  BY <1>7, <1>10, PlaceCases, PlacesDiffer
<1>13. Fits(Y, x, c, t, o)
  <2>1. Y[LocalPlace].remote = x.local /\ Y[RemotePlace].remote = x.remote
        /\ Y[OwnPlace].remote = o /\ Y[CallPlace].remote = Nobody
    BY <1>1, <1>10, <1>12 DEF Fits, NoEvent
  <2> QED BY <1>1, <1>11, <2>1, FitsSingle
<1> QED BY <1>10, <1>13, SoundBy DEF Sound

-----------------------------------------------------------------------------
(* A packet is told of.                                                    *)

\* Holders may exchange what they have.
LEMMA Rearranged ==
    ASSUME NEW h, NEW V, NEW B, HeapSound(h, V, B), NEW p \in Bijection(Places, Places),
           NEW X, X = [u \in Places |-> V[p[u]]]
    PROVE  HeapSound(h, X, B)
<1>1. V \in Claims
  BY DEF HeapSound
<1>2. /\ p \in [Places -> Places] /\ \A u \in Places : \E z \in Places : p[z] = u
      /\ \A u, z \in Places : p[u] = p[z] => u = z
  BY DEF Bijection, Injection, Surjection, IsInjective
<1>3. X \in Claims
  BY <1>1, <1>2 DEF Claims
<1>4. ASSUME NEW e PROVE Cardinality(Having(X, e)) = Cardinality(Having(V, e))
  <2>1. PICK S : S = Having(X, e)
    OBVIOUS
  <2>2. PICK T : T = Having(V, e)
    OBVIOUS
  <2>3. IsFiniteSet(S)
    BY <2>1, Finite, FS_Subset DEF Having
  <2>4. PICK f : f = [u \in S |-> p[u]]
    OBVIOUS
  <2>5. f \in [S -> T] /\ \A u, z \in S : f[u] = f[z] => u = z
    BY <1>2, <2>1, <2>2, <2>4 DEF Having
  <2>6. \A z \in T : \E u \in S : f[u] = z
    BY <1>2, <2>1, <2>2, <2>4 DEF Having
  <2>7. f \in Bijection(S, T)
    BY <2>5, <2>6 DEF Bijection, Injection, Surjection, IsInjective
  <2>8. Cardinality(S) = Cardinality(T)
    BY <2>3, <2>7, FS_Bijection DEF ExistsBijection
  <2> QED BY <2>1, <2>2, <2>8
<1>5. Counted(h, X, B)
  BY <1>4 DEF HeapSound, Counted
<1>6. Known(h, X)
  BY <1>2 DEF HeapSound, Known
<1> QED BY <1>3, <1>5, <1>6 DEF HeapSound

\* Each message takes the place of the one before it, and the first one that of the last.
Turned(s) ==
    [u \in Places |->
       IF \E k \in 1 .. MaxQueued : u = MessagePlace(s, k)
       THEN IF u = MessagePlace(s, MaxQueued) THEN MessagePlace(s, 1) ELSE MessagePlace(s, u[3] + 1)
       ELSE u]

\* So they exchange what they have.
LEMMA TurnedIs ==
    ASSUME NEW s \in SlotIds, MaxQueued > 0, NEW p, p = Turned(s)
    PROVE  /\ p \in Bijection(Places, Places)
           /\ \A k \in 1 .. MaxQueued :
                p[MessagePlace(s, k)] = IF k = MaxQueued THEN MessagePlace(s, 1) ELSE MessagePlace(s, k + 1)
           /\ \A u \in Places : (\A k \in 1 .. MaxQueued : u # MessagePlace(s, k)) => p[u] = u
<1>1. MaxQueued \in Nat /\ 1 \in 1 .. MaxQueued /\ MaxQueued \in 1 .. MaxQueued
  BY EndPointAssumption
<1>2. \A k : MessagePlace(s, k)[3] = k
  BY DEF MessagePlace
<1>3. \A k \in 1 .. MaxQueued : MessagePlace(s, k) \in Places
  BY PlaceCases
<1>4. ASSUME NEW k \in 1 .. MaxQueued
      PROVE  p[MessagePlace(s, k)] = IF k = MaxQueued THEN MessagePlace(s, 1) ELSE MessagePlace(s, k + 1)
  <2>1. PICK u \in Places : u = MessagePlace(s, k)
    BY <1>3
  <2>2. p[u] = IF u = MessagePlace(s, MaxQueued) THEN MessagePlace(s, 1) ELSE MessagePlace(s, u[3] + 1)
    BY <2>1 DEF Turned
  <2>3. u = MessagePlace(s, MaxQueued) <=> k = MaxQueued
    BY <2>1, PlacesDiffer
  <2>4. u[3] = k
    BY <1>2, <2>1
  <2> QED BY <2>1, <2>2, <2>3, <2>4
<1>5. ASSUME NEW u \in Places, \A k \in 1 .. MaxQueued : u # MessagePlace(s, k) PROVE p[u] = u
  BY <1>5 DEF Turned
<1> DEFINE Mine(u) == \E k \in 1 .. MaxQueued : u = MessagePlace(s, k)
<1>6. DOMAIN p = Places /\ p = [u \in Places |-> p[u]]
  BY p = Turned(s) DEF Turned
<1>7. ASSUME NEW k \in 1 .. MaxQueued PROVE \E j \in 1 .. MaxQueued : p[MessagePlace(s, k)] = MessagePlace(s, j)
  <2>1. CASE k = MaxQueued
    BY <1>1, <1>4, <2>1
  <2>2. CASE k # MaxQueued
    <3>1. k + 1 \in 1 .. MaxQueued /\ p[MessagePlace(s, k)] = MessagePlace(s, k + 1)
      BY <1>1, <1>4, <2>2
    <3> QED BY <3>1
  <2> QED BY <2>1, <2>2
<1>8. \A u \in Places : (Mine(u) => Mine(p[u])) /\ (~Mine(u) => p[u] = u)
  <2>1. ASSUME NEW u \in Places, Mine(u) PROVE Mine(p[u])
    BY <1>7, <2>1
  <2>2. ASSUME NEW u \in Places, ~Mine(u) PROVE p[u] = u
    BY <1>5, <2>2
  <2> QED BY <2>1, <2>2
<1>9. p \in [Places -> Places]
  <2>1. \A u \in Places : p[u] \in Places
    BY <1>3, <1>8
  <2> QED BY <1>6, <2>1
<1>10. ASSUME NEW u \in Places, NEW z \in Places, p[u] = p[z] PROVE u = z
  <2>1. CASE ~Mine(u) /\ ~Mine(z)
    BY <1>8, <1>10, <2>1
  <2>2. CASE Mine(u) /\ ~Mine(z)
    <3>1. Mine(p[u]) /\ p[z] = z
      BY <1>8, <2>2
    <3> QED BY <1>10, <2>2, <3>1
  <2>3. CASE ~Mine(u) /\ Mine(z)
    <3>1. Mine(p[z]) /\ p[u] = u
      BY <1>8, <2>3
    <3> QED BY <1>10, <2>3, <3>1
  <2>4. CASE Mine(u) /\ Mine(z)
    <3>1. PICK j \in 1 .. MaxQueued : u = MessagePlace(s, j)
      BY <2>4
    <3>2. PICK k \in 1 .. MaxQueued : z = MessagePlace(s, k)
      BY <2>4
    <3>3. /\ p[u] = IF j = MaxQueued THEN MessagePlace(s, 1) ELSE MessagePlace(s, j + 1)
          /\ p[z] = IF k = MaxQueued THEN MessagePlace(s, 1) ELSE MessagePlace(s, k + 1)
      BY <1>4, <3>1, <3>2
    <3>4. (IF j = MaxQueued THEN 1 ELSE j + 1) = (IF k = MaxQueued THEN 1 ELSE k + 1)
      <4>1. PICK a : a = IF j = MaxQueued THEN 1 ELSE j + 1
        OBVIOUS
      <4>2. PICK b : b = IF k = MaxQueued THEN 1 ELSE k + 1
        OBVIOUS
      <4>3. p[u] = MessagePlace(s, a) /\ p[z] = MessagePlace(s, b)
        BY <3>3, <4>1, <4>2
      <4>4. MessagePlace(s, a) = MessagePlace(s, b)
        BY <1>10, <4>3
      <4>5. a = b
        BY ONLY <4>4, PlacesDiffer
      <4> QED BY ONLY <4>1, <4>2, <4>5
    <3>5. j = k
      BY <1>1, <3>4
    <3> QED BY <3>1, <3>2, <3>5
  <2> QED BY <2>1, <2>2, <2>3, <2>4
<1>11. ASSUME NEW z \in Places PROVE \E u \in Places : p[u] = z
  <2>1. CASE ~Mine(z)
    BY <1>8, <2>1
  <2>2. CASE Mine(z)
    <3>1. PICK k \in 1 .. MaxQueued : z = MessagePlace(s, k)
      BY <2>2
    <3>2. CASE k = 1
      <4>1. p[MessagePlace(s, MaxQueued)] = z
        BY <1>1, <1>4, <3>1, <3>2
      <4> QED BY <1>1, <1>3, <4>1
    <3>3. CASE k # 1
      <4>1. k - 1 \in 1 .. MaxQueued /\ k - 1 # MaxQueued /\ (k - 1) + 1 = k
        BY <1>1, <3>3
      <4>2. p[MessagePlace(s, k - 1)] = z
        BY <1>4, <3>1, <4>1
      <4> QED BY <1>3, <4>1, <4>2
    <3> QED BY <3>2, <3>3
  <2> QED BY <2>1, <2>2
<1>12. p \in Bijection(Places, Places)
  BY <1>9, <1>10, <1>11 DEF Bijection, Injection, Surjection, IsInjective
<1> QED BY <1>4, <1>5, <1>12

\* gekkota_xudpclient_receive, and the event of what it gave: the event has what the
\* message had, and every message has the place before its own.
LEMMA TellSound ==
    ASSUME NEW h, NEW x, NEW c, NEW t, NEW o, Sound(h, x, c, t, o), NEW s \in SlotIds,
           c[s].state # "free", c[s].queue # <<>>,
           NEW v \in EventIds, t[v] = NoEvent, NEW m, m = c[s].queue[1], NEW u, u = Put(t, v, m),
           NEW k, SlotSound(k), k.queue = Tail(c[s].queue), k.remote = c[s].remote, k.from = c[s].from,
           NEW d, d = Put(c, s, k)
    PROVE  Sound(h, x, d, u, o)
<1>1. PICK V : HeapSound(h, V, Zero) /\ Fits(V, x, c, t, o)
  BY SoundClaims
<1>2. PICK q \in Seq(Message) : q = c[s].queue
  BY DEF Sound, Shape, SlotSound, SlotRecord
<1>3. /\ q # <<>> /\ Len(q) \in Nat /\ Len(q) > 0 /\ Len(q) <= MaxQueued /\ MaxQueued \in Nat
      /\ DOMAIN q = 1 .. Len(q) /\ m = q[1] /\ m \in Message
  BY <1>2, EndPointAssumption DEF Sound, Shape, SlotSound
<1>4. 1 \in 1 .. MaxQueued /\ MaxQueued > 0 /\ 1 \in 1 .. Len(q) /\ MaxQueued \in 1 .. MaxQueued
  BY <1>3
<1>5. PICK w \in Places : w = EventPlace(v)
  BY PlaceCases
<1>6. PICK z \in Places : z = MessagePlace(s, 1)
  BY <1>4, PlaceCases
<1>7. V[z] = m /\ V[z].remote # Nobody
  <2>1. V[z] = m
    BY <1>1, <1>2, <1>3, <1>4, <1>6 DEF Fits, Waiting
  <2> QED BY <1>3, <2>1, NobodyIs DEF Message
<1>8. V[w].remote = Nobody
  BY <1>1, <1>5 DEF Fits, Agrees, NoEvent
<1>9. PICK X : X = Given(Given(V, w, V[z]), z, NoEvent)
  OBVIOUS
<1>10. /\ HeapSound(h, X, Zero) /\ X[w] = V[z] /\ X[z] = NoEvent
       /\ \A y \in Places : y # z /\ y # w => X[y] = V[y]
  BY ONLY <1>1, <1>7, <1>8, <1>9, z \in Places, w \in Places, HandedSound
<1>11. PICK p : p = Turned(s)
  OBVIOUS
<1>12. /\ p \in Bijection(Places, Places)
       /\ \A j \in 1 .. MaxQueued :
            p[MessagePlace(s, j)] = IF j = MaxQueued THEN MessagePlace(s, 1) ELSE MessagePlace(s, j + 1)
       /\ \A y \in Places : (\A j \in 1 .. MaxQueued : y # MessagePlace(s, j)) => p[y] = y
  BY ONLY <1>4, <1>11, s \in SlotIds, TurnedIs
<1>13. PICK Y : Y = [y \in Places |-> X[p[y]]]
  OBVIOUS
<1>14. HeapSound(h, Y, Zero)
  BY ONLY <1>10, <1>12, <1>13, Rearranged
<1>15. \A y \in Places : (\A j \in 1 .. MaxQueued : y # MessagePlace(s, j)) => Y[y] = X[y]
  BY <1>12, <1>13
<1>16. m \in Claim
  BY <1>3 DEF Message, Claim, MaybeEndPoint, MaybeRemote
<1>17. Shape(x, c, u, o) /\ EventOnly(t, u, v) /\ u[v] = m
  BY <1>16, ShapeEvent DEF Sound
<1>18. Shape(x, d, u, o) /\ SlotOnly(c, d, s) /\ d[s] = k
  BY <1>17, ShapeSlot
<1>19. PICK Z : Z = Given(V, w, m)
  OBVIOUS
<1>20. Z[w] = m /\ \A y \in Places : y # w => Z[y] = V[y]
  BY <1>1, <1>19 DEF HeapSound, Claims, Given
<1>21. Fits(Z, x, c, u, o)
  <2>1. OneClaim(V, Z, EventPlace(v)) /\ Agrees(Z[EventPlace(v)], u[v].remote, u[v].from)
    BY <1>5, <1>17, <1>20 DEF OneClaim, Agrees
  <2> QED BY <1>1, <1>17, <2>1, FitsEvent
<1>22. SlotClaims(Z, Y, s)
  <2>1. ASSUME NEW y \in Places, y # ClientPlace(s), \A j \in 1 .. MaxQueued : y # MessagePlace(s, j)
        PROVE  Y[y] = Z[y]
    <3>1. Y[y] = X[y] /\ y # z
      BY <1>4, <1>6, <1>15, <2>1
    <3> QED BY <1>7, <1>10, <1>20, <3>1
  <2> QED BY <2>1 DEF SlotClaims
<1>23. Agrees(Y[ClientPlace(s)], d[s].remote, d[s].from)
  <2>1. PICK y \in Places : y = ClientPlace(s)
    BY PlaceCases
  <2>2. y # w /\ y # z /\ \A j \in 1 .. MaxQueued : y # MessagePlace(s, j)
    BY <1>5, <1>6, <2>1, PlacesDiffer
  <2>3. Y[y] = V[y]
    BY <1>10, <1>15, <2>2
  <2>4. Agrees(V[y], c[s].remote, c[s].from)
    BY <1>1, <2>1 DEF Fits
  <2> QED BY <1>18, <2>1, <2>3, <2>4
<1>24. Waiting(Y, s, d[s].queue)
  <2>1. PICK f : f = Tail(q)
    OBVIOUS
  <2>2. /\ f \in Seq(Message) /\ Len(f) = Len(q) - 1 /\ DOMAIN f = 1 .. (Len(q) - 1)
        /\ \A j \in 1 .. (Len(q) - 1) : f[j] = q[j + 1]
    BY <1>3, <2>1
  <2>3. ASSUME NEW j \in 1 .. MaxQueued
        PROVE  Y[MessagePlace(s, j)] = IF j \in DOMAIN f THEN f[j] ELSE NoEvent
    <3>1. PICK y \in Places : y = MessagePlace(s, j)
      BY PlaceCases
    <3>2. Y[y] = X[p[y]]
      BY <1>13
    <3>3. CASE j = MaxQueued
      <4>1. p[y] = z
        BY <1>6, <1>12, <3>1, <3>3
      <4>2. Y[y] = NoEvent
        BY <1>10, <3>2, <4>1
      <4>3. j \notin DOMAIN f
        BY <1>3, <2>2, <3>3
      <4> QED BY <3>1, <4>2, <4>3
    <3>4. CASE j # MaxQueued
      <4>1. j + 1 \in 1 .. MaxQueued /\ p[y] = MessagePlace(s, j + 1)
        BY <1>3, <1>12, <3>1, <3>4
      <4>2. MessagePlace(s, j + 1) \in Places /\ MessagePlace(s, j + 1) # w /\ MessagePlace(s, j + 1) # z
        BY <1>5, <1>6, <4>1, PlaceCases, PlacesDiffer
      <4>3. Y[y] = V[MessagePlace(s, j + 1)]
        BY <1>10, <3>2, <4>1, <4>2
      <4>4. V[MessagePlace(s, j + 1)] = IF (j + 1) \in DOMAIN q THEN q[j + 1] ELSE NoEvent
        BY <1>1, <1>2, <4>1 DEF Fits, Waiting
      <4>5. (j + 1) \in DOMAIN q <=> j \in DOMAIN f
        BY <1>3, <2>2, <4>1
      <4>6. j \in DOMAIN f => f[j] = q[j + 1]
        BY <2>2
      <4> QED BY <3>1, <4>3, <4>4, <4>5, <4>6
    <3> QED BY <3>3, <3>4
  <2>4. d[s].queue = f
    BY <1>2, <1>18, <2>1
  <2> QED BY <2>3, <2>4 DEF Waiting
<1>25. Fits(Y, x, d, u, o)
  BY <1>18, <1>21, <1>22, <1>23, <1>24, FitsSlot
<1> QED BY <1>14, <1>18, <1>25, SoundBy

-----------------------------------------------------------------------------
(* The application, and the host.                                          *)

\* A holder has the endpoint n that names r, and the call has none any more.
Passed(V, X, w, n, r) ==
    /\ X[w] = To(n, r) /\ X[CallPlace] = NoEvent
    /\ \A u \in Places : u # CallPlace /\ u # w => X[u] = V[u]

\* A new endpoint on the address of an entry is shared by a holder, and given up.
LEMMA ByName ==
    ASSUME NEW V, HeapSound(heap, V, Zero), Room, NEW n, n = NextEndPoint, NEW r \in Remotes,
           NEW w \in Places, w # CallPlace, V[w].remote = Nobody, V[CallPlace].remote = Nobody,
           NEW a, a = NextAddress,
           NEW g, g = AddressDestroy(Destroy(ShareEndPoint(EndPointAt(HostEntryNew(heap, r), a, r), n), n), a)
    PROVE  \E X : HeapSound(g, X, Zero) /\ Passed(V, X, w, n, r)
<1>1. PICK h : h = EndPointAt(HostEntryNew(heap, r), a, r)
  OBVIOUS
<1>2. PICK W : W = Given(V, CallPlace, To(n, r))
  OBVIOUS
<1>3. PICK C : C = More(Zero, a)
  OBVIOUS
<1>4. CallPlace \in Places
  BY PlaceCases
<1>5. HeapSound(h, W, C) /\ a \in AddressIds
  BY ONLY HeapSound(heap, V, Zero), Room, n = NextEndPoint, r \in Remotes, V[CallPlace].remote = Nobody,
          a = NextAddress, <1>1, <1>2, <1>3, <1>4, EntrySound
<1>6. W[CallPlace] = To(n, r) /\ \A u \in Places : u # CallPlace => W[u] = V[u]
  BY <1>2, <1>4 DEF HeapSound, Claims, Given
<1>7. W[CallPlace].remote = n /\ n # Nobody /\ W[w].remote = Nobody
  BY <1>6, NextIs, NobodyIs DEF To
<1>8. PICK X : X = Given(Given(W, w, W[CallPlace]), CallPlace, NoEvent)
  OBVIOUS
<1>9. PICK i : i = Destroy(ShareEndPoint(h, n), n)
  OBVIOUS
<1>10. /\ HeapSound(i, X, C) /\ X[CallPlace] = NoEvent /\ X[w] = W[CallPlace]
       /\ \A u \in Places : u # CallPlace /\ u # w => X[u] = W[u]
  BY ONLY <1>4, <1>5, <1>7, <1>8, <1>9, w \in Places, w # CallPlace, PassedSound
<1>11. g = AddressDestroy(i, a)
  BY <1>1, <1>9
<1>12. HeapSound(g, X, Zero)
  BY ONLY <1>3, <1>5, <1>10, <1>11, EntryGone
<1>13. Passed(V, X, w, n, r)
  BY <1>6, <1>10 DEF Passed
<1> QED BY <1>12, <1>13

\* A new endpoint is shared by a holder, and given up.
LEMMA ByPort ==
    ASSUME NEW V, HeapSound(heap, V, Zero), Room, NEW n, n = NextEndPoint, NEW r \in Remotes,
           NEW w \in Places, w # CallPlace, V[w].remote = Nobody, V[CallPlace].remote = Nobody,
           NEW g, g = Destroy(ShareEndPoint(Made(r), n), n)
    PROVE  \E X : HeapSound(g, X, Zero) /\ Passed(V, X, w, n, r)
<1>1. PICK h : h = Made(r)
  OBVIOUS
<1>2. PICK W : W = Given(V, CallPlace, To(n, r))
  OBVIOUS
<1>4. CallPlace \in Places
  BY PlaceCases
<1>5. HeapSound(h, W, Zero)
  BY ONLY HeapSound(heap, V, Zero), Room, n = NextEndPoint, r \in Remotes, V[CallPlace].remote = Nobody,
          <1>1, <1>2, <1>4, MadeSound
<1>6. W[CallPlace] = To(n, r) /\ \A u \in Places : u # CallPlace => W[u] = V[u]
  BY <1>2, <1>4 DEF HeapSound, Claims, Given
<1>7. W[CallPlace].remote = n /\ n # Nobody /\ W[w].remote = Nobody
  BY <1>6, NextIs, NobodyIs DEF To
<1>8. PICK X : X = Given(Given(W, w, W[CallPlace]), CallPlace, NoEvent)
  OBVIOUS
<1>9. g = Destroy(ShareEndPoint(h, n), n)
  BY <1>1
<1>10. /\ HeapSound(g, X, Zero) /\ X[CallPlace] = NoEvent /\ X[w] = W[CallPlace]
       /\ \A u \in Places : u # CallPlace /\ u # w => X[u] = W[u]
  BY ONLY <1>4, <1>5, <1>7, <1>8, <1>9, w \in Places, w # CallPlace, PassedSound
<1>11. Passed(V, X, w, n, r)
  BY <1>6, <1>10 DEF Passed
<1> QED BY <1>10, <1>11

\* The application makes an endpoint.
LEMMA NewOwnSound ==
    ASSUME NEW x, NEW c, NEW t, Sound(heap, x, c, t, Nobody), Room, NEW r \in Remotes,
           NEW n, n = NextEndPoint, NEW a, a = NextAddress,
           NEW g, g = AddressDestroy(EndPointAt(AddressNew(heap, AddressOf[r]), a, r), a)
    PROVE  Sound(g, x, c, t, n)
<1>1. PICK V : HeapSound(heap, V, Zero) /\ Fits(V, x, c, t, Nobody)
  BY SoundClaims
<1>2. OwnPlace \in Places /\ V[OwnPlace].remote = Nobody
  BY <1>1, PlaceCases DEF Fits
<1>3. PICK h : h = EndPointAt(HostEntryNew(heap, r), a, r)
  OBVIOUS
<1>4. PICK X : X = Given(V, OwnPlace, To(n, r))
  OBVIOUS
<1>5. PICK C : C = More(Zero, a)
  OBVIOUS
<1>6. HeapSound(h, X, C) /\ a \in AddressIds
  BY ONLY <1>1, <1>2, <1>3, <1>4, <1>5, Room, n = NextEndPoint, r \in Remotes, a = NextAddress, EntrySound
<1>7. g = AddressDestroy(h, a)
  BY <1>3 DEF HostEntryNew
<1>8. HeapSound(g, X, Zero)
  BY ONLY <1>5, <1>6, <1>7, EntryGone
<1>9. X[OwnPlace] = To(n, r) /\ \A u \in Places : u # OwnPlace => X[u] = V[u]
  BY <1>1, <1>2, <1>4 DEF HeapSound, Claims, Given
<1>10. Fits(X, x, c, t, n)
  <2>1. SingleClaims(V, X)
    BY <1>9 DEF SingleClaims, Single
  <2>2. X[OwnPlace].remote = n
    BY <1>9 DEF To
  <2>3. X[LocalPlace] = V[LocalPlace] /\ X[RemotePlace] = V[RemotePlace] /\ X[CallPlace] = V[CallPlace]
    BY <1>9, PlaceCases, PlacesDiffer
  <2>4. V[LocalPlace].remote = x.local /\ V[RemotePlace].remote = x.remote /\ V[CallPlace].remote = Nobody
    BY <1>1 DEF Fits
  <2> QED BY <1>1, <2>1, <2>2, <2>3, <2>4, FitsSingle
<1>11. Shape(x, c, t, n)
  <2>1. n \in MaybeEndPoint
    BY NextIs DEF MaybeEndPoint
  <2> QED BY <2>1 DEF Sound, Shape
<1> QED BY <1>8, <1>10, <1>11, SoundBy

\* The application gives its endpoint up.
LEMMA OwnDestroyedSound ==
    ASSUME NEW h, NEW x, NEW c, NEW t, NEW o, Sound(h, x, c, t, o), NEW g, g = Destroy(h, o)
    PROVE  Sound(g, x, c, t, Nobody)
<1>1. PICK V : HeapSound(h, V, Zero) /\ Fits(V, x, c, t, o)
  BY SoundClaims
<1>2. OwnPlace \in Places /\ V[OwnPlace].remote = o
  BY <1>1, PlaceCases DEF Fits
<1>3. PICK X : X = Given(V, OwnPlace, NoEvent)
  OBVIOUS
<1>4. g = Destroy(h, V[OwnPlace].remote)
  BY <1>2
<1>5. HeapSound(g, X, Zero) /\ X[OwnPlace] = NoEvent /\ \A u \in Places : u # OwnPlace => X[u] = V[u]
  BY ONLY <1>1, <1>2, <1>3, <1>4, DestroySound
<1>6. Fits(X, x, c, t, Nobody)
  <2>1. SingleClaims(V, X)
    BY <1>5 DEF SingleClaims, Single
  <2>2. X[OwnPlace].remote = Nobody
    BY <1>5 DEF NoEvent
  <2>3. X[LocalPlace] = V[LocalPlace] /\ X[RemotePlace] = V[RemotePlace] /\ X[CallPlace] = V[CallPlace]
    BY <1>5, PlaceCases, PlacesDiffer
  <2>4. V[LocalPlace].remote = x.local /\ V[RemotePlace].remote = x.remote /\ V[CallPlace].remote = Nobody
    BY <1>1 DEF Fits
  <2> QED BY <1>1, <2>1, <2>2, <2>3, <2>4, FitsSingle
<1>7. Shape(x, c, t, Nobody)
  BY DEF Sound, Shape, MaybeEndPoint
<1> QED BY <1>5, <1>6, <1>7, SoundBy

\* A host that is there, bound to n.
BoundTo(n) == [NoHost EXCEPT !.alive = TRUE, !.local = n]

\* A host comes to be: its socket has what the claims say.
LEMMA HostMade ==
    ASSUME NEW h, NEW x, NEW c, NEW t, NEW o, Sound(h, x, c, t, o), ~x.alive,
           NEW V, Fits(V, x, c, t, o), NEW n \in EndPointIds, NEW y, y = BoundTo(n),
           NEW g, NEW X, HeapSound(g, X, Zero), X[LocalPlace].remote = n, X[CallPlace].remote = Nobody,
           \A u \in Places : u # CallPlace /\ u # LocalPlace => X[u] = V[u]
    PROVE  Sound(g, y, c, t, o)
<1>1. Shape(x, c, t, o) /\ x = NoHost
  BY DEF Sound, Shape
<1>2. y.alive /\ y.local = n /\ y.remote = Nobody
      /\ y \in [alive : BOOLEAN, local : MaybeEndPoint, remote : MaybeEndPoint]
  BY DEF BoundTo, NoHost, MaybeEndPoint
<1>3. Shape(y, c, t, o)
  BY <1>1, <1>2 DEF Shape
<1>4. SingleClaims(V, X)
  BY DEF SingleClaims, Single
<1>5. X[RemotePlace] = V[RemotePlace] /\ X[OwnPlace] = V[OwnPlace]
  BY PlaceCases, PlacesDiffer
<1>6. V[RemotePlace].remote = Nobody /\ V[OwnPlace].remote = o
  BY <1>1 DEF Fits, NoHost
<1>7. Fits(X, y, c, t, o)
  BY <1>2, <1>4, <1>5, <1>6, FitsSingle
<1> QED BY <1>3, <1>7, SoundBy

\* gekkota_xudp_new_5.
LEMMA NewHostSound ==
    ASSUME NEW h, NEW x, NEW c, NEW t, NEW o, Sound(h, x, c, t, o), ~x.alive, o # Nobody,
           NEW y, y = BoundTo(o), NEW g, g = SocketNew(h, o)
    PROVE  Sound(g, y, c, t, o)
<1>1. PICK V : HeapSound(h, V, Zero) /\ Fits(V, x, c, t, o)
  BY SoundClaims
<1>2. /\ OwnPlace \in Places /\ V[OwnPlace].remote = o /\ LocalPlace \in Places
      /\ V[LocalPlace].remote = Nobody /\ V[CallPlace].remote = Nobody
  BY <1>1, PlaceCases DEF Fits, Sound, Shape, NoHost
<1>3. PICK X : X = Given(V, LocalPlace, V[OwnPlace])
  OBVIOUS
<1>4. g = ShareEndPoint(h, o)
  BY DEF SocketNew
<1>5. HeapSound(g, X, Zero) /\ X[LocalPlace] = V[OwnPlace]
  BY ONLY <1>1, <1>2, <1>3, <1>4, o # Nobody, ShareSound
<1>6. \A u \in Places : u # LocalPlace => X[u] = V[u]
  BY <1>1, <1>3 DEF HeapSound, Claims, Given
<1>7. X[CallPlace].remote = Nobody
  BY <1>2, <1>6, PlaceCases, PlacesDiffer
<1>8. o \in EndPointIds
  BY DEF Sound, Shape, MaybeEndPoint
<1> QED BY <1>1, <1>2, <1>5, <1>6, <1>7, <1>8, HostMade

\* gekkota_xudp_new_4, and gekkota_xudp_new_6.
LEMMA NewHostOfSound ==
    ASSUME NEW x, NEW c, NEW t, NEW o, Sound(heap, x, c, t, o), ~x.alive, Room, NEW r \in Hosts,
           NEW n, n = NextEndPoint, NEW a, a = NextAddress, NEW y, y = BoundTo(n),
           NEW g, \/ g = Destroy(ShareEndPoint(Made(r), n), n)
                  \/ g = AddressDestroy(Destroy(ShareEndPoint(EndPointAt(HostEntryNew(heap, r), a, r), n), n), a)
    PROVE  Sound(g, y, c, t, o)
<1>1. PICK V : HeapSound(heap, V, Zero) /\ Fits(V, x, c, t, o)
  BY SoundClaims
<1>2. /\ LocalPlace \in Places /\ LocalPlace # CallPlace /\ r \in Remotes
      /\ V[LocalPlace].remote = Nobody /\ V[CallPlace].remote = Nobody
  BY <1>1, PlaceCases, PlacesDiffer DEF Fits, Sound, Shape, NoHost, Remotes
<1>3. \E X : HeapSound(g, X, Zero) /\ Passed(V, X, LocalPlace, n, r)
  <2>1. CASE g = Destroy(ShareEndPoint(Made(r), n), n)
    BY ONLY <1>1, <1>2, <2>1, Room, n = NextEndPoint, ByPort
  <2>2. CASE g = AddressDestroy(Destroy(ShareEndPoint(EndPointAt(HostEntryNew(heap, r), a, r), n), n), a)
    BY ONLY <1>1, <1>2, <2>2, Room, n = NextEndPoint, a = NextAddress, ByName
  <2> QED BY <2>1, <2>2
<1>4. PICK X : HeapSound(g, X, Zero) /\ Passed(V, X, LocalPlace, n, r)
  BY <1>3
<1>5. /\ X[LocalPlace].remote = n /\ X[CallPlace].remote = Nobody
      /\ \A u \in Places : u # CallPlace /\ u # LocalPlace => X[u] = V[u]
  BY <1>4 DEF Passed, To, NoEvent
<1>6. n \in EndPointIds
  BY NextIs
<1> QED BY <1>1, <1>4, <1>5, <1>6, HostMade

\* gekkota_xudp_connect_2.
LEMMA ConnectSound ==
    ASSUME NEW x, NEW c, NEW t, NEW o, Sound(heap, x, c, t, o), Room, NEW s \in SlotIds,
           c[s].state = "free", NEW r \in Hosts,
           NEW n, n = NextEndPoint, NEW a, a = NextAddress,
           NEW g, g = AddressDestroy(Destroy(ShareEndPoint(EndPointAt(HostEntryNew(heap, r), a, r), n), n), a),
           NEW state \in SlotStates \ {"free"}, NEW k, k = Taken(state, n, FALSE, g.names[n]),
           NEW d, d = Put(c, s, k)
    PROVE  Sound(g, x, d, t, o)
<1>1. PICK V : HeapSound(heap, V, Zero) /\ Fits(V, x, c, t, o)
  BY SoundClaims
<1>2. c[s] = FreeSlot
  BY DEF Sound, Shape, SlotSound
<1>3. PICK w \in Places : w = ClientPlace(s)
  BY PlaceCases
<1>4. w # CallPlace /\ V[w].remote = Nobody /\ V[CallPlace].remote = Nobody /\ r \in Remotes
  BY <1>1, <1>2, <1>3, PlacesDiffer DEF Fits, Agrees, FreeSlot, Remotes
<1>5. PICK X : HeapSound(g, X, Zero) /\ Passed(V, X, w, n, r)
  BY ONLY <1>1, <1>4, w \in Places, Room, n = NextEndPoint, a = NextAddress,
          g = AddressDestroy(Destroy(ShareEndPoint(EndPointAt(HostEntryNew(heap, r), a, r), n), n), a), ByName
<1>6. PICK Y : Y = Given(V, w, To(n, r))
  OBVIOUS
<1>7. Y[w] = To(n, r) /\ \A u \in Places : u # w => Y[u] = V[u]
  BY <1>1, <1>6 DEF HeapSound, Claims, Given
<1>8. g.names[n] = r /\ n \in EndPointIds
  <2>1. X[w].remote = n /\ X[w].from = r /\ n # Nobody /\ n \in EndPointIds
    BY <1>5, NextIs, NobodyIs DEF Passed, To
  <2> QED BY <1>5, <2>1 DEF HeapSound, Known
<1>16. SlotSound(k) /\ k.queue = <<>> /\ k.remote = n /\ k.from = r
  <2>1. PICK b \in BOOLEAN : b = FALSE
    OBVIOUS
  <2>2. k = Taken(state, n, b, r) /\ n \in EndPointIds /\ r \in MaybeRemote
    BY <1>4, <1>8, <2>1 DEF MaybeRemote
  <2> QED BY ONLY <2>2, b \in BOOLEAN, state \in SlotStates \ {"free"}, TakenIs
<1>9. Shape(x, d, t, o) /\ SlotOnly(c, d, s) /\ d[s] = k
  <2>1. Shape(x, c, t, o)
    BY DEF Sound
  <2> QED BY ONLY <1>16, <2>1, s \in SlotIds, d = Put(c, s, k), ShapeSlot
<1>10. Agrees(Y[ClientPlace(s)], d[s].remote, d[s].from)
  <2>1. Agrees(Y[ClientPlace(s)], n, r)
    BY <1>3, <1>7 DEF Agrees, To
  <2> QED BY ONLY <1>9, <1>16, <2>1
<1>11. OneClaim(V, Y, ClientPlace(s))
  BY <1>3, <1>7 DEF OneClaim
<1>12. SlotClaims(V, Y, s) /\ Waiting(Y, s, c[s].queue)
  BY <1>1, <1>11, SlotOne DEF Fits
<1>13. Waiting(Y, s, d[s].queue)
  <2>1. c[s].queue = <<>>
    BY ONLY <1>2 DEF FreeSlot
  <2>2. d[s].queue = <<>>
    BY ONLY <1>9, <1>16
  <2> QED BY ONLY <1>12, <2>1, <2>2
<1>14. Fits(Y, x, d, t, o)
  BY <1>1, <1>9, <1>10, <1>12, <1>13, FitsSlot
<1>15. Fits(X, x, d, t, o)
  <2>1. \A u \in Places : u # CallPlace => X[u] = Y[u]
    BY <1>5, <1>7 DEF Passed
  <2>2. SingleClaims(Y, X)
    BY <2>1 DEF SingleClaims, Single
  <2>3. X[LocalPlace] = Y[LocalPlace] /\ X[RemotePlace] = Y[RemotePlace] /\ X[OwnPlace] = Y[OwnPlace]
    BY <2>1, PlaceCases, PlacesDiffer
  <2>4. Y[LocalPlace].remote = x.local /\ Y[RemotePlace].remote = x.remote /\ Y[OwnPlace].remote = o
    BY <1>14 DEF Fits
  <2>5. X[CallPlace].remote = Nobody
    BY <1>5 DEF Passed, NoEvent
  <2> QED BY <1>14, <2>2, <2>3, <2>4, <2>5, FitsSingle
<1> QED BY <1>5, <1>9, <1>15, SoundBy

\* The address of a member's endpoint is lent to that of the application.
LEMMA LentSound ==
    ASSUME NEW h, NEW x, NEW c, NEW t, NEW o, Sound(h, x, c, t, o), o # Nobody,
           NEW s \in SlotIds, c[s].state # "free", NEW a, a = h.address[c[s].remote],
           h.value[a] = h.value[h.address[o]],
           NEW g, g = SetAddress(h, o, a)
    PROVE  Sound(g, x, c, t, o) /\ g.names = h.names
<1>1. PICK V : HeapSound(h, V, Zero) /\ Fits(V, x, c, t, o)
  BY SoundClaims
<1>2. PICK e : e = c[s].remote
  OBVIOUS
<1>3. ClientPlace(s) \in Places /\ V[ClientPlace(s)].remote = e /\ e # Nobody
  BY <1>1, <1>2, PlaceCases DEF Fits, Agrees, Sound, Shape, SlotSound
<1>4. h.address[e] \in AddressIds /\ h.refs[h.address[e]] > 0
  BY ONLY <1>1, <1>3, ClaimedIs
<1>5. OwnPlace \in Places /\ V[OwnPlace].remote = o
  BY <1>1, PlaceCases DEF Fits
<1>6. /\ h.value[h.address[o]] = AddressOf[V[OwnPlace].from] /\ h.names[o] = V[OwnPlace].from
  BY ONLY <1>1, <1>5, o # Nobody, ClaimedIs
<1>7. a \in AddressIds /\ h.refs[a] > 0 /\ h.value[a] = AddressOf[h.names[o]]
  BY <1>2, <1>4, <1>6
<1>8. o = V[OwnPlace].remote
  BY <1>5
<1>9. HeapSound(g, V, Zero) /\ g.names = h.names
  BY ONLY <1>1, <1>5, <1>7, <1>8, o # Nobody, g = SetAddress(h, o, a), SetAddressSound
<1> QED BY <1>1, <1>9, SoundBy DEF Sound

\* The host's endpoints are given up, those of its socket.
LEMMA HostGoneSound ==
    ASSUME NEW h, NEW x, NEW c, NEW t, NEW o, Sound(h, x, c, t, o),
           NEW g, g = Destroy(Destroy(h, x.local), x.remote)
    PROVE  Sound(g, NoHost, c, t, o)
<1>1. PICK V : HeapSound(h, V, Zero) /\ Fits(V, x, c, t, o)
  BY SoundClaims
<1>2. LocalPlace \in Places /\ RemotePlace \in Places /\ LocalPlace # RemotePlace
  BY PlaceCases, PlacesDiffer
<1>3. PICK i : i = Destroy(h, x.local)
  OBVIOUS
<1>4. PICK X : X = Given(V, LocalPlace, NoEvent)
  OBVIOUS
<1>5. i = Destroy(h, V[LocalPlace].remote)
  BY <1>1, <1>3 DEF Fits
<1>6. HeapSound(i, X, Zero) /\ X[LocalPlace] = NoEvent /\ \A u \in Places : u # LocalPlace => X[u] = V[u]
  BY ONLY <1>1, <1>2, <1>4, <1>5, DestroySound
<1>7. PICK Y : Y = Given(X, RemotePlace, NoEvent)
  OBVIOUS
<1>8. g = Destroy(i, X[RemotePlace].remote)
  BY <1>1, <1>2, <1>3, <1>6 DEF Fits
<1>9. HeapSound(g, Y, Zero) /\ Y[RemotePlace] = NoEvent /\ \A u \in Places : u # RemotePlace => Y[u] = X[u]
  BY ONLY <1>2, <1>6, <1>7, <1>8, DestroySound
<1>10. Fits(Y, NoHost, c, t, o)
  <2>1. SingleClaims(V, Y)
    BY <1>6, <1>9 DEF SingleClaims, Single
  <2>2. Y[LocalPlace] = NoEvent /\ Y[OwnPlace] = V[OwnPlace] /\ Y[CallPlace] = V[CallPlace]
    BY <1>2, <1>6, <1>9, PlaceCases, PlacesDiffer
  <2>3. V[OwnPlace].remote = o /\ V[CallPlace].remote = Nobody
    BY <1>1 DEF Fits
  <2>4. Y[LocalPlace].remote = NoHost.local /\ Y[RemotePlace].remote = NoHost.remote
    BY <1>9, <2>2 DEF NoEvent, NoHost
  <2> QED BY <1>1, <2>1, <2>2, <2>3, <2>4, FitsSingle
<1>11. Shape(NoHost, c, t, o)
  <2>1. Shape(x, c, t, o)
    BY DEF Sound
  <2>2. NoHost \in [alive : BOOLEAN, local : MaybeEndPoint, remote : MaybeEndPoint]
    BY DEF NoHost, MaybeEndPoint
  <2> QED BY <2>1, <2>2 DEF Shape
<1> QED BY <1>9, <1>10, <1>11, SoundBy

\* The first k slots are free.
SlotsGone(c, k) == [s \in SlotIds |-> IF s <= k THEN FreeSlot ELSE c[s]]

\* Heaps in which that is so.
GoneTo(x, c, t, o, k) == {h \in HeapType : Sound(h, x, SlotsGone(c, k), t, o)}

\* The heaps as one client after the other is destroyed.
GoneIs(gone, h, c) ==
    gone = [s \in 0 .. SlotCount |-> IF s = 0 THEN h ELSE ClientDestroyed(gone[s - 1], c[s])]

\* One client more is destroyed.
LEMMA GoneOne ==
    ASSUME NEW x, NEW c, NEW t, NEW o, NEW k \in SlotIds, NEW h \in GoneTo(x, c, t, o, k - 1),
           NEW g, g = ClientDestroyed(h, c[k])
    PROVE  g \in GoneTo(x, c, t, o, k)
<1>1. PICK b : b = SlotsGone(c, k - 1)
  OBVIOUS
<1>2. PICK d : d = Put(b, k, FreeSlot)
  OBVIOUS
<1>3. k \in Nat /\ SlotIds \subseteq Nat /\ ~(k <= k - 1)
  BY EndPointAssumption DEF SlotIds
<1>4. Sound(h, x, b, t, o) /\ b[k] = c[k]
  BY <1>1, <1>3 DEF GoneTo, SlotsGone
<1>5. g = ClientDestroyed(h, b[k])
  BY <1>4
<1>6. Sound(g, x, d, t, o)
  BY ONLY <1>2, <1>4, <1>5, k \in SlotIds, ClientDestroyedSound
<1>7. d = SlotsGone(c, k)
  <2>1. \A s \in SlotIds : d[s] = IF s <= k THEN FreeSlot ELSE c[s]
    BY <1>1, <1>2, <1>3 DEF Put, SlotsGone
  <2>2. d = [s \in SlotIds |-> d[s]]
    BY <1>1, <1>2 DEF Put, SlotsGone
  <2> QED BY <2>1, <2>2 DEF SlotsGone
<1>8. g \in HeapType
  BY <1>6 DEF Sound, HeapSound
<1> QED BY <1>6, <1>7, <1>8 DEF GoneTo

\* What is chosen among those who do something does it.
LEMMA GoneChosen ==
    ASSUME NEW h, NEW c, NEW gone, gone = CHOOSE f : GoneIs(f, h, c), \E f : GoneIs(f, h, c)
    PROVE  GoneIs(gone, h, c)
<1> HIDE DEF GoneIs
<1> QED OBVIOUS

\* Some function does it.
LEMMA GoneExists ==
    ASSUME NEW h, NEW x, NEW c, NEW t, NEW o, Sound(h, x, c, t, o)
    PROVE  \E f : GoneIs(f, h, c)
<1> DEFINE Well(k) == GoneTo(x, c, t, o, k)
           D == [k \in 0 .. SlotCount |-> Well(k)]
           step == [k \in 1 .. SlotCount |-> [i \in Well(k - 1) |-> ClientDestroyed(i, c[k])]]
<1>1. SlotCount \in Nat /\ SlotIds = 1 .. SlotCount
  BY EndPointAssumption DEF SlotIds
<1>2. h \in Well(0)
  <2>1. c = SlotsGone(c, 0)
    <3>1. c = [s \in SlotIds |-> c[s]]
      BY DEF Sound, Shape
    <3>2. \A s \in SlotIds : ~(s <= 0)
      BY <1>1
    <3> QED BY <3>1, <3>2 DEF SlotsGone
  <2>2. h \in HeapType
    BY DEF Sound, HeapSound
  <2> QED BY <2>1, <2>2 DEF GoneTo
<1>3. ASSUME NEW k \in 1 .. SlotCount, NEW i \in Well(k - 1) PROVE ClientDestroyed(i, c[k]) \in Well(k)
  BY <1>1, GoneOne
<1>4. \A k \in 1 .. SlotCount : step[k] \in [D[k - 1] -> D[k]]
  <2>1. ASSUME NEW k \in 1 .. SlotCount PROVE step[k] \in [D[k - 1] -> D[k]]
    <3>1. k - 1 \in 0 .. SlotCount /\ k \in 0 .. SlotCount
      BY <1>1
    <3>2. D[k - 1] = Well(k - 1) /\ D[k] = Well(k)
      BY <3>1
    <3>3. step[k] = [i \in Well(k - 1) |-> ClientDestroyed(i, c[k])]
      OBVIOUS
    <3> HIDE DEF step, D
    <3>4. step[k] \in [Well(k - 1) -> Well(k)]
      BY <1>3, <3>3
    <3> QED BY <3>2, <3>4
  <2> QED BY <2>1
<1>5. h \in D[0]
  BY <1>1, <1>2
<1>6. \A k \in 1 .. SlotCount : \A i \in Well(k - 1) : step[k][i] = ClientDestroyed(i, c[k])
  OBVIOUS
<1>7. \A k \in 0 .. SlotCount : D[k] = Well(k)
  OBVIOUS
<1> QED
  <2> HIDE DEF D, step
  <2>1. PICK f : Iterated(f, SlotCount, h, step) /\ \A k \in 0 .. SlotCount : f[k] \in D[k]
    BY <1>1, <1>4, <1>5, IterationDefined
  <2>2. f = [k \in 0 .. SlotCount |-> IF k = 0 THEN h ELSE step[k][f[k - 1]]]
    BY <2>1 DEF Iterated
  <2>3. ASSUME NEW k \in 0 .. SlotCount, k # 0
        PROVE  step[k][f[k - 1]] = ClientDestroyed(f[k - 1], c[k])
    <3>1. k \in 1 .. SlotCount /\ k - 1 \in 0 .. SlotCount
      BY <1>1, <2>3
    <3>2. f[k - 1] \in Well(k - 1)
      BY <1>7, <2>1, <3>1
    <3> QED BY <1>6, <3>1, <3>2
  <2>4. f = [k \in 0 .. SlotCount |-> IF k = 0 THEN h ELSE ClientDestroyed(f[k - 1], c[k])]
    BY <2>2, <2>3
  <2>5. GoneIs(f, h, c)
    BY <2>4 DEF GoneIs
  <2> QED BY <2>5

\* All clients are destroyed.
LEMMA GoneSound ==
    ASSUME NEW h, NEW x, NEW c, NEW t, NEW o, Sound(h, x, c, t, o),
           NEW gone, GoneIs(gone, h, c), NEW g, g = gone[SlotCount]
    PROVE  Sound(g, x, [s \in SlotIds |-> FreeSlot], t, o)
<1> DEFINE Well(k) == GoneTo(x, c, t, o, k)
<1>1. SlotCount \in Nat /\ SlotIds = 1 .. SlotCount
  BY EndPointAssumption DEF SlotIds
<1>2. h \in Well(0)
  <2>1. c = SlotsGone(c, 0)
    <3>1. c = [s \in SlotIds |-> c[s]]
      BY DEF Sound, Shape
    <3>2. \A s \in SlotIds : ~(s <= 0)
      BY <1>1
    <3> QED BY <3>1, <3>2 DEF SlotsGone
  <2>2. h \in HeapType
    BY DEF Sound, HeapSound
  <2> QED BY <2>1, <2>2 DEF GoneTo
<1>3. ASSUME NEW k \in 1 .. SlotCount, NEW i \in Well(k - 1) PROVE ClientDestroyed(i, c[k]) \in Well(k)
  BY <1>1, GoneOne
<1> DEFINE T == {k \in Nat : k <= SlotCount => gone[k] \in Well(k)}
<1>10. 0 \in T
  BY <1>1, <1>2 DEF GoneIs
<1>11. ASSUME NEW k \in T PROVE k + 1 \in T
  <2> SUFFICES ASSUME k + 1 <= SlotCount PROVE gone[k + 1] \in Well(k + 1)
    OBVIOUS
  <2>1. /\ k \in Nat /\ gone[k] \in Well(k) /\ (k + 1) - 1 = k /\ k + 1 # 0
        /\ k + 1 \in 0 .. SlotCount /\ k + 1 \in 1 .. SlotCount
    BY <1>1
  <2>2. gone[k + 1] = ClientDestroyed(gone[(k + 1) - 1], c[k + 1])
    BY <2>1 DEF GoneIs
  <2> QED BY <1>3, <2>1, <2>2
<1> HIDE DEF T
<1>12. T = Nat
  BY <1>10, <1>11, SetInduction DEF T
<1>13. gone[SlotCount] \in Well(SlotCount)
  BY <1>1, <1>12 DEF T
<1>14. SlotsGone(c, SlotCount) = [s \in SlotIds |-> FreeSlot]
  BY <1>1 DEF SlotsGone
<1> QED BY <1>13, <1>14 DEF GoneTo

-----------------------------------------------------------------------------
(* The actions.                                                            *)

\* The inductive invariant of the specification.
Inv == Sound(heap, xudp, slot, told, own)

\* The application's own endpoint.
LEMMA OwnSteps ==
    ASSUME Inv, (\E r \in Remotes : NewEndPoint(r)) \/ DestroyEndPoint
    PROVE  Inv'
<1>1. ASSUME NEW r \in Remotes, NewEndPoint(r) PROVE Inv'
  <2>1. Room /\ own = Nobody /\ own' = NextEndPoint /\ UNCHANGED <<xudp, slot, told>>
        /\ heap' = AddressDestroy(EndPointAt(AddressNew(heap, AddressOf[r]), NextAddress, r), NextAddress)
    BY <1>1 DEF NewEndPoint
  <2>2. Sound(heap, xudp, slot, told, Nobody)
    BY <2>1 DEF Inv
  <2>3. Sound(heap', xudp, slot, told, own')
    BY ONLY <2>1, <2>2, r \in Remotes, NewOwnSound
  <2> QED BY <2>1, <2>3 DEF Inv
<1>2. CASE DestroyEndPoint
  <2>1. heap' = Destroy(heap, own) /\ own' = Nobody /\ UNCHANGED <<xudp, slot, told>>
    BY <1>2 DEF DestroyEndPoint
  <2>2. Sound(heap', xudp, slot, told, Nobody)
    BY ONLY <2>1, Inv, OwnDestroyedSound DEF Inv
  <2> QED BY <2>1, <2>2 DEF Inv
<1> QED BY <1>1, <1>2

\* The host comes and goes.
LEMMA HostSteps ==
    ASSUME Inv, NewHost \/ (\E r \in Hosts : NewHostOfPort(r) \/ NewHostByName(r)) \/ DestroyHost
    PROVE  Inv'
<1>1. CASE NewHost
  <2>1. /\ ~xudp.alive /\ own # Nobody /\ heap' = SocketNew(heap, own) /\ xudp' = BoundTo(own)
        /\ UNCHANGED <<slot, told, own>>
    BY <1>1 DEF NewHost, BoundTo
  <2>2. Sound(heap', xudp', slot, told, own)
    BY ONLY <2>1, Inv, NewHostSound DEF Inv
  <2> QED BY <2>1, <2>2 DEF Inv
<1>2. ASSUME NEW r \in Hosts, NewHostOfPort(r) PROVE Inv'
  <2>1. /\ ~xudp.alive /\ Room /\ xudp' = BoundTo(NextEndPoint) /\ UNCHANGED <<slot, told, own>>
        /\ heap' = Destroy(ShareEndPoint(Made(r), NextEndPoint), NextEndPoint)
    BY <1>2 DEF NewHostOfPort, BoundTo, SocketNew
  <2>2. Sound(heap', xudp', slot, told, own)
    BY ONLY <2>1, Inv, r \in Hosts, NewHostOfSound DEF Inv
  <2> QED BY <2>1, <2>2 DEF Inv
<1>3. ASSUME NEW r \in Hosts, NewHostByName(r) PROVE Inv'
  <2>1. /\ ~xudp.alive /\ Room /\ xudp' = BoundTo(NextEndPoint) /\ UNCHANGED <<slot, told, own>>
        /\ heap' = AddressDestroy(Destroy(ShareEndPoint(EndPointAt(HostEntryNew(heap, r), NextAddress, r),
                                                        NextEndPoint), NextEndPoint), NextAddress)
    BY <1>3 DEF NewHostByName, BoundTo, SocketNew, HostEntryDestroyed
  <2>2. Sound(heap', xudp', slot, told, own)
    BY ONLY <2>1, Inv, r \in Hosts, NewHostOfSound DEF Inv
  <2> QED BY <2>1, <2>2 DEF Inv
<1>4. CASE DestroyHost
  <2>1. PICK gone : gone = CHOOSE f : GoneIs(f, heap, slot)
    OBVIOUS
  <2>2. PICK i : i = gone[SlotCount]
    OBVIOUS
  <2>3. /\ heap' = Destroy(Destroy(i, xudp.local), xudp.remote) /\ xudp' = NoHost
        /\ slot' = [s \in SlotIds |-> FreeSlot] /\ UNCHANGED <<told, own>>
    BY <1>4, <2>1, <2>2, Zenon DEF DestroyHost, GoneIs, SocketDestroyed
  <2>4. Sound(heap, xudp, slot, told, own)
    BY DEF Inv
  <2>5. Sound(i, xudp, [s \in SlotIds |-> FreeSlot], told, own)
    <3>1. GoneIs(gone, heap, slot)
      BY ONLY <2>1, <2>4, GoneExists, GoneChosen
    <3> QED BY ONLY <2>2, <2>4, <3>1, GoneSound
  <2>6. Sound(i, xudp, slot', told, own)
    BY <2>3, <2>5
  <2>7. Sound(heap', NoHost, slot', told, own)
    BY ONLY <2>3, <2>6, HostGoneSound
  <2> QED BY <2>3, <2>7 DEF Inv
<1> QED BY <1>1, <1>2, <1>3, <1>4

-----------------------------------------------------------------------------
(* What the actions make of a slot.                                        *)

Becomes(c, s, state) == [c EXCEPT ![s].state = state]
Emptying(c, s, state) == [c EXCEPT ![s].queue = <<>>, ![s].state = state]
Popped(c, s) == [c EXCEPT ![s].queue = Tail(@)]
Pushed(c, s, m) == [c EXCEPT ![s].queue = Append(@, m)]

\* The slot of a client, which is not free.
LEMMA SlotFields ==
    ASSUME NEW h, NEW x, NEW c, NEW t, NEW o, Sound(h, x, c, t, o), NEW s \in SlotIds, c[s].state # "free"
    PROVE  /\ c[s] \in SlotRecord /\ c[s].queue \in Seq(Message) /\ Len(c[s].queue) <= MaxQueued
           /\ c[s].remote \in EndPointIds /\ c[s].remote # Nobody /\ c[s].from \in MaybeRemote
           /\ c[s].member \in BOOLEAN /\ c[s].state \in SlotStates
           /\ c = [r \in SlotIds |-> c[r]]
<1>1. c[s] \in SlotRecord /\ Len(c[s].queue) <= MaxQueued /\ c[s].remote # Nobody
  BY DEF Sound, Shape, SlotSound
<1>2. c = [r \in SlotIds |-> c[r]]
  BY DEF Sound, Shape
<1> QED BY <1>1, <1>2 DEF SlotRecord, MaybeEndPoint

\* What has the fields of a client that is not free is one.
LEMMA RecordSound ==
    ASSUME NEW k, NEW state \in SlotStates \ {"free"}, NEW e \in EndPointIds, NEW f \in MaybeRemote,
           NEW member \in BOOLEAN, NEW q \in Seq(Message), Len(q) <= MaxQueued,
           k = [state |-> state, remote |-> e, from |-> f, member |-> member, queue |-> q]
    PROVE  SlotSound(k)
<1>1. k \in SlotRecord
  BY DEF SlotRecord, MaybeEndPoint
<1> QED BY <1>1, NobodyIs DEF SlotSound

\* A client whose state changes.
LEMMA BecomesSound ==
    ASSUME NEW h, NEW x, NEW c, NEW t, NEW o, Sound(h, x, c, t, o), NEW s \in SlotIds, c[s].state # "free",
           NEW state \in SlotStates \ {"free"}, NEW d, d = Becomes(c, s, state)
    PROVE  Sound(h, x, d, t, o)
<1>1. PICK k : k = [c[s] EXCEPT !.state = state]
  OBVIOUS
<1>2. /\ c[s] \in SlotRecord /\ c[s].queue \in Seq(Message) /\ Len(c[s].queue) <= MaxQueued
      /\ c[s].remote \in EndPointIds /\ c[s].from \in MaybeRemote /\ c[s].member \in BOOLEAN
  BY SlotFields
<1>3. k = [state |-> state, remote |-> c[s].remote, from |-> c[s].from, member |-> c[s].member,
           queue |-> c[s].queue]
  BY <1>1, <1>2 DEF SlotRecord
<1>4. SlotSound(k)
  BY ONLY <1>2, <1>3, state \in SlotStates \ {"free"}, RecordSound
<1>5. k.queue = c[s].queue /\ k.remote = c[s].remote /\ k.from = c[s].from
  BY <1>3
<1>6. d = Put(c, s, k)
  BY <1>1 DEF Becomes, Put
<1> QED BY ONLY <1>4, <1>5, <1>6, Sound(h, x, c, t, o), s \in SlotIds, StateSound

\* A client whose queues are cleared, too.
LEMMA EmptyingSound ==
    ASSUME NEW h, NEW x, NEW c, NEW t, NEW o, Sound(h, x, c, t, o), NEW s \in SlotIds, c[s].state # "free",
           NEW state \in SlotStates \ {"free"}, NEW d, d = Emptying(c, s, state),
           NEW g, g = QueuesCleared(h, c[s])
    PROVE  Sound(g, x, d, t, o)
<1>1. PICK k : k = [c[s] EXCEPT !.queue = <<>>, !.state = state]
  OBVIOUS
<1>2. /\ c[s] \in SlotRecord /\ c[s].remote \in EndPointIds /\ c[s].from \in MaybeRemote
      /\ c[s].member \in BOOLEAN /\ c = [r \in SlotIds |-> c[r]]
  BY SlotFields
<1>3. PICK q : q = <<>>
  OBVIOUS
<1>4. q \in Seq(Message) /\ Len(q) <= MaxQueued
  BY <1>3, EndPointAssumption
<1>5. k = [state |-> state, remote |-> c[s].remote, from |-> c[s].from, member |-> c[s].member,
           queue |-> q]
  BY <1>1, <1>2, <1>3 DEF SlotRecord
<1>6. SlotSound(k)
  BY ONLY <1>2, <1>4, <1>5, state \in SlotStates \ {"free"}, RecordSound
<1>7. k.queue = <<>> /\ k.remote = c[s].remote /\ k.from = c[s].from
  BY <1>3, <1>5
<1>8. d = Put(c, s, k)
  BY <1>1, <1>2 DEF Emptying, Put
<1> QED BY ONLY <1>6, <1>7, <1>8, Sound(h, x, c, t, o), s \in SlotIds, g = QueuesCleared(h, c[s]), QueuesClearedSound

\* A client that gets a message.
LEMMA PushedSound ==
    ASSUME NEW h, NEW x, NEW c, NEW t, NEW o, Sound(h, x, c, t, o), NEW s \in SlotIds, c[s].state # "free",
           Len(c[s].queue) < MaxQueued, NEW n, n = x.remote, n # Nobody, NEW r \in Remotes, h.names[n] = r,
           NEW g, g = Queued(h, n), NEW d, d = Pushed(c, s, To(n, r))
    PROVE  Sound(g, x, d, t, o)
<1>1. PICK q : q = Append(c[s].queue, To(n, r))
  OBVIOUS
<1>2. PICK k : k = [c[s] EXCEPT !.queue = q]
  OBVIOUS
<1>3. /\ c[s] \in SlotRecord /\ c[s].remote \in EndPointIds /\ c[s].from \in MaybeRemote
      /\ c[s].member \in BOOLEAN /\ c[s].queue \in Seq(Message) /\ c[s].state \in SlotStates \ {"free"}
  BY SlotFields
<1>4. n \in EndPointIds
  BY DEF Sound, Shape, MaybeEndPoint
<1>5. To(n, r) \in Message
  BY <1>4 DEF To, Message
<1>6. Len(c[s].queue) + 1 <= MaxQueued
  BY <1>3, EndPointAssumption
<1>7. q \in Seq(Message) /\ Len(q) <= MaxQueued
  BY <1>1, <1>3, <1>5, <1>6
<1>8. k = [state |-> c[s].state, remote |-> c[s].remote, from |-> c[s].from, member |-> c[s].member,
           queue |-> q]
  BY <1>2, <1>3 DEF SlotRecord
<1>9. SlotSound(k)
  BY ONLY <1>3, <1>7, <1>8, RecordSound
<1>10. k.queue = Append(c[s].queue, To(n, r)) /\ k.remote = c[s].remote /\ k.from = c[s].from
  BY <1>1, <1>8
<1>11. d = Put(c, s, k)
  BY <1>1, <1>2 DEF Pushed, Put
<1> QED BY ONLY <1>9, <1>10, <1>11, Sound(h, x, c, t, o), s \in SlotIds, c[s].state # "free",
               Len(c[s].queue) < MaxQueued, n = x.remote, n # Nobody, h.names[n] = r, g = Queued(h, n), QueuedSound

\* A client whose first message is told.
LEMMA PoppedSound ==
    ASSUME NEW h, NEW x, NEW c, NEW t, NEW o, Sound(h, x, c, t, o), NEW s \in SlotIds, c[s].state # "free",
           c[s].queue # <<>>, NEW d, d = Popped(c, s), NEW v \in EventIds, t[v] = NoEvent,
           NEW m, m = c[s].queue[1], NEW u, u = Put(t, v, To(m.remote, m.from))
    PROVE  Sound(h, x, d, u, o)
<1>1. PICK q : q = Tail(c[s].queue)
  OBVIOUS
<1>2. PICK k : k = [c[s] EXCEPT !.queue = q]
  OBVIOUS
<1>3. /\ c[s] \in SlotRecord /\ c[s].remote \in EndPointIds /\ c[s].from \in MaybeRemote
      /\ c[s].member \in BOOLEAN /\ c[s].queue \in Seq(Message) /\ Len(c[s].queue) <= MaxQueued
      /\ c[s].state \in SlotStates \ {"free"}
  BY SlotFields
<1>4. q \in Seq(Message) /\ Len(q) <= MaxQueued
  BY <1>1, <1>3, EndPointAssumption
<1>5. m \in Message
  BY <1>3
<1>6. u = Put(t, v, m)
  BY <1>5 DEF To, Message
<1>7. k = [state |-> c[s].state, remote |-> c[s].remote, from |-> c[s].from, member |-> c[s].member,
           queue |-> q]
  BY <1>2, <1>3 DEF SlotRecord
<1>8. SlotSound(k)
  BY ONLY <1>3, <1>4, <1>7, RecordSound
<1>9. k.queue = Tail(c[s].queue) /\ k.remote = c[s].remote /\ k.from = c[s].from
  BY <1>1, <1>7
<1>10. d = Put(c, s, k)
  BY <1>1, <1>2 DEF Popped, Put
<1> QED BY ONLY <1>6, <1>8, <1>9, <1>10, Sound(h, x, c, t, o), s \in SlotIds, c[s].state # "free",
               c[s].queue # <<>>, v \in EventIds, t[v] = NoEvent, m = c[s].queue[1], TellSound

-----------------------------------------------------------------------------
(* The actions of the clients.                                             *)

\* Some number of a set that has a bound is the greatest.
LEMMA MaxChosen ==
    ASSUME NEW N \in Nat, NEW S \in SUBSET (1 .. N), S # {}
    PROVE  Max(S) \in S
<1>0. PICK T : T = {N - x : x \in S}
  OBVIOUS
<1>1. T \in SUBSET Nat /\ T # {}
  <2>1. \A x \in S : x \in 1 .. N /\ N - x \in Nat
    OBVIOUS
  <2> QED BY <1>0, <2>1
<1>2. PICK y \in T : \A z \in T : y =< z
  BY <1>1, LeastExists
<1>3. PICK x \in S : y = N - x
  BY <1>0
<1>4. \A z \in S : z =< x
  <2>1. ASSUME NEW z \in S PROVE z =< x
    <3>1. N - z \in T
      BY <1>0
    <3>2. N - x =< N - z
      BY <1>2, <1>3, <3>1
    <3> QED BY <3>2
  <2> QED BY <2>1
<1> QED BY <1>4 DEF Max

\* What a client gets that is new.
LEMMA TakesIs ==
    ASSUME NEW s \in SlotIds, NEW e, NEW state, NEW member, Takes(s, e, state, member)
    PROVE  slot' = Put(slot, s, Taken(state, e, member, heap'.names[e]))
BY DEF Takes, Put, Taken

\* A slot that is taken was free.
LEMMA FirstIsFree ==
    ASSUME NEW s, s \in FirstFreeSlot
    PROVE  s \in SlotIds /\ slot[s].state = "free"
BY DEF FirstFreeSlot

\* gekkota_xudp_connect_3.
LEMMA ConnectToKeeps ==
    ASSUME Inv, NEW s \in SlotIds, ConnectTo(s)
    PROVE  Inv'
<1>1. PICK state : state = "connecting"
  OBVIOUS
<1>2. PICK member \in BOOLEAN : member = FALSE
  OBVIOUS
<1>3. /\ slot[s].state = "free" /\ own # Nobody /\ heap' = ShareEndPoint(heap, own)
      /\ Takes(s, own, state, member) /\ UNCHANGED <<xudp, told, own>>
  BY <1>1, <1>2, FirstIsFree DEF ConnectTo
<1>4. PICK k : k = Taken(state, own, member, heap'.names[own])
  OBVIOUS
<1>5. slot' = Put(slot, s, k)
  BY <1>3, <1>4, TakesIs
<1>6. own \in {xudp.remote, own} /\ state \in SlotStates \ {"free"}
  BY <1>1 DEF SlotStates
<1>7. Sound(heap', xudp, slot', told, own)
  BY ONLY <1>2, <1>3, <1>4, <1>5, <1>6, s \in SlotIds, Inv, TakesSound DEF Inv
<1> QED BY <1>3, <1>7 DEF Inv

\* gekkota_xudp_connect_2.
LEMMA ConnectByNameKeeps ==
    ASSUME Inv, NEW s \in SlotIds, NEW r \in Hosts, ConnectByName(s, r)
    PROVE  Inv'
<1>1. PICK state : state = "connecting"
  OBVIOUS
<1>2. PICK n : n = NextEndPoint
  OBVIOUS
<1>3. PICK a : a = NextAddress
  OBVIOUS
<1>4. /\ slot[s].state = "free" /\ Room
      /\ heap' = AddressDestroy(Destroy(ShareEndPoint(EndPointAt(HostEntryNew(heap, r), a, r), n), n), a)
      /\ Takes(s, n, state, FALSE) /\ UNCHANGED <<xudp, told, own>>
  BY <1>1, <1>2, <1>3, FirstIsFree DEF ConnectByName, HostEntryDestroyed
<1>5. PICK k : k = Taken(state, n, FALSE, heap'.names[n])
  OBVIOUS
<1>6. slot' = Put(slot, s, k)
  BY <1>4, <1>5, TakesIs
<1>7. state \in SlotStates \ {"free"}
  BY <1>1 DEF SlotStates
<1>8. Sound(heap', xudp, slot', told, own)
  BY ONLY <1>2, <1>3, <1>4, <1>5, <1>6, <1>7, s \in SlotIds, r \in Hosts, Inv, ConnectSound DEF Inv
<1> QED BY <1>4, <1>8 DEF Inv

\* gekkota_xudp_join_multicast_group_1: a member lends its address, if there is one with
\* the same, and the client shares the endpoint of the application.
LEMMA JoinGroupKeeps ==
    ASSUME Inv, NEW s \in SlotIds, JoinGroup(s)
    PROVE  Inv'
<1>1. PICK state : state = "connected"
  OBVIOUS
<1>2. PICK member \in BOOLEAN : member = TRUE
  OBVIOUS
<1>3. PICK same : same = SameAddress(s)
  OBVIOUS
<1>4. PICK g : g = IF same = {} THEN heap ELSE SetAddress(heap, own, heap.address[slot[Max(same)].remote])
  OBVIOUS
<1>5. /\ slot[s].state = "free" /\ own # Nobody /\ heap' = ShareEndPoint(g, own)
      /\ Takes(s, own, state, member) /\ UNCHANGED <<xudp, told, own>>
  BY <1>1, <1>2, <1>3, <1>4, FirstIsFree DEF JoinGroup
<1>6. Sound(g, xudp, slot, told, own)
  <2>1. CASE same = {}
    BY <1>4, <2>1 DEF Inv
  <2>2. CASE same # {}
    <3>1. PICK m : m = Max(same)
      OBVIOUS
    <3>2. s \in Nat /\ same \in SUBSET (1 .. s)
      BY <1>3, EndPointAssumption DEF SameAddress, SlotIds
    <3>3. m \in same
      BY <2>2, <3>1, <3>2, MaxChosen
    <3>4. PICK a : a = heap.address[slot[m].remote]
      OBVIOUS
    <3>5. /\ m \in 1 .. (s - 1) /\ slot[m].state = "connected"
          /\ heap.value[a] = heap.value[heap.address[own]]
      BY <1>3, <3>3, <3>4 DEF SameAddress
    <3>6. m \in SlotIds /\ slot[m].state # "free"
      BY <3>5, EndPointAssumption DEF SlotIds
    <3>7. g = SetAddress(heap, own, a)
      BY <1>4, <2>2, <3>1, <3>4
    <3> QED BY ONLY <1>5, <3>4, <3>5, <3>6, <3>7, Inv, LentSound DEF Inv
  <2> QED BY <2>1, <2>2
<1>7. PICK k : k = Taken(state, own, member, heap'.names[own])
  OBVIOUS
<1>8. slot' = Put(slot, s, k)
  BY <1>5, <1>7, TakesIs
<1>9. own \in {xudp.remote, own} /\ state \in SlotStates \ {"free"}
  BY <1>1 DEF SlotStates
<1>10. Sound(heap', xudp, slot', told, own)
  BY ONLY <1>2, <1>5, <1>6, <1>7, <1>8, <1>9, s \in SlotIds, TakesSound
<1> QED BY <1>5, <1>10 DEF Inv

\* gekkota_xudpclient_destroy, and _gekkota_xudpclient_close_now.
LEMMA DestroyClientKeeps ==
    ASSUME Inv, NEW s \in SlotIds, DestroyClient(s)
    PROVE  Inv'
<1>1. heap' = ClientDestroyed(heap, slot[s]) /\ UNCHANGED <<xudp, told, own>>
  BY DEF DestroyClient
<1>2. slot' = Put(slot, s, FreeSlot)
  BY DEF DestroyClient, Put
<1>3. Sound(heap', xudp, slot', told, own)
  BY ONLY <1>1, <1>2, s \in SlotIds, Inv, ClientDestroyedSound DEF Inv
<1> QED BY <1>1, <1>3 DEF Inv

\* _gekkota_xudpclient_close_gracefully.
LEMMA CloseGracefullyKeeps ==
    ASSUME Inv, NEW s \in SlotIds, CloseGracefully(s)
    PROVE  Inv'
<1>1. slot[s].state # "free" /\ UNCHANGED <<xudp, told, own>>
  BY DEF CloseGracefully
<1>2. CASE slot[s].state = "connected" /\ ~slot[s].member
  <2>1. PICK state : state = "closing"
    OBVIOUS
  <2>2. heap' = QueuesCleared(heap, slot[s]) /\ slot' = Emptying(slot, s, state)
    BY <1>2, <2>1 DEF CloseGracefully, Emptying
  <2>3. state \in SlotStates \ {"free"}
    BY <2>1 DEF SlotStates
  <2>4. Sound(heap', xudp, slot', told, own)
    BY ONLY <1>1, <2>2, <2>3, s \in SlotIds, Inv, EmptyingSound DEF Inv
  <2> QED BY <1>1, <2>4 DEF Inv
<1>3. CASE ~(slot[s].state = "connected" /\ ~slot[s].member)
  <2>1. heap' = ClientDestroyed(heap, slot[s]) /\ slot' = [slot EXCEPT ![s] = FreeSlot]
    BY <1>3 DEF CloseGracefully
  <2>2. slot' = Put(slot, s, FreeSlot)
    BY <2>1 DEF Put
  <2>3. Sound(heap', xudp, slot', told, own)
    BY ONLY <2>1, <2>2, s \in SlotIds, Inv, ClientDestroyedSound DEF Inv
  <2> QED BY <1>1, <2>3 DEF Inv
<1> QED BY <1>2, <1>3

\* The acknowledgement of a DISCONNECT leaves.
LEMMA AcknowledgesKeeps ==
    ASSUME Inv, NEW s \in SlotIds, AcknowledgesDisconnect(s)
    PROVE  Inv'
<1>1. PICK state : state = "zombie"
  OBVIOUS
<1>2. slot[s].state # "free" /\ slot' = Becomes(slot, s, state) /\ UNCHANGED <<heap, xudp, told, own>>
  BY <1>1 DEF AcknowledgesDisconnect, Becomes
<1>3. state \in SlotStates \ {"free"}
  BY <1>1 DEF SlotStates
<1>4. Sound(heap, xudp, slot', told, own)
  BY ONLY <1>2, <1>3, s \in SlotIds, Inv, BecomesSound DEF Inv
<1> QED BY <1>2, <1>4 DEF Inv

-----------------------------------------------------------------------------
(* The actions of poll.                                                    *)

\* What is told has a place of its own.
LEMMA FreeEventIs ==
    ASSUME NEW v, v \in FreeEvent
    PROVE  v \in EventIds /\ told[v] = NoEvent
BY DEF FreeEvent

\* _gekkota_xudp_notify_connect, of a state x of the host and a heap h that are sound.
LEMMA NotifyConnectKeeps ==
    ASSUME NEW h, NEW x, Sound(h, x, slot, told, own), NEW s \in SlotIds, slot[s].state # "free",
           NEW v, NEW sink \in BOOLEAN, NotifyConnect(h, s, v, sink)
    PROVE  Sound(heap', x, slot', told', own)
<1>1. CASE sink
  <2>1. PICK e : e = slot[s].remote
    OBVIOUS
  <2>2. PICK f : f = slot[s].from
    OBVIOUS
  <2>3. PICK state : state = "connected"
    OBVIOUS
  <2>4. /\ v \in FreeEvent /\ heap' = EventCopied(h, e) /\ told' = Put(told, v, To(e, f))
        /\ slot' = Becomes(slot, s, state)
    BY <1>1, <2>1, <2>2, <2>3 DEF NotifyConnect, EventIs, Put, To, Becomes
  <2>5. v \in EventIds /\ told[v] = NoEvent
    BY <2>4, FreeEventIs
  <2>6. e # Nobody
    BY <2>1, SlotFields
  <2>7. \E r \in SlotIds : slot[r].remote = e /\ slot[r].from = f
    BY <2>1, <2>2
  <2>8. Sound(heap', x, slot, told', own)
    BY ONLY <2>4, <2>5, <2>6, <2>7, Sound(h, x, slot, told, own), EventSound
  <2>9. state \in SlotStates \ {"free"}
    BY <2>3 DEF SlotStates
  <2> QED BY ONLY <2>4, <2>8, <2>9, s \in SlotIds, slot[s].state # "free", BecomesSound
<1>2. CASE ~sink
  <2>1. PICK state : state = IF slot[s].state = "connecting" THEN "succeeded" ELSE "pending"
    OBVIOUS
  <2>2. heap' = h /\ told' = told /\ slot' = Becomes(slot, s, state)
    BY <1>2, <2>1 DEF NotifyConnect, Becomes
  <2>3. state \in SlotStates \ {"free"}
    BY <2>1 DEF SlotStates
  <2>4. Sound(h, x, slot', told, own)
    BY ONLY <2>2, <2>3, Sound(h, x, slot, told, own), s \in SlotIds, slot[s].state # "free", BecomesSound
  <2> QED BY <2>2, <2>4
<1> QED BY <1>1, <1>2

\* _gekkota_xudp_notify_disconnect.
LEMMA NotifyDisconnectKeeps ==
    ASSUME NEW h, NEW x, Sound(h, x, slot, told, own), NEW s \in SlotIds, slot[s].state # "free",
           NEW v, NEW sink \in BOOLEAN, NotifyDisconnect(h, s, v, sink)
    PROVE  Sound(heap', x, slot', told', own)
<1>1. CASE slot[s].state \in {"ackConnect", "pending"}
  <2>1. heap' = ClientDestroyed(h, slot[s]) /\ told' = told /\ slot' = Put(slot, s, FreeSlot)
    BY <1>1 DEF NotifyDisconnect, Put
  <2>2. Sound(heap', x, slot', told, own)
    BY ONLY <2>1, Sound(h, x, slot, told, own), s \in SlotIds, ClientDestroyedSound
  <2> QED BY <2>1, <2>2
<1>2. CASE slot[s].state \notin {"ackConnect", "pending"} /\ sink
  <2>1. PICK e : e = slot[s].remote
    OBVIOUS
  <2>2. PICK f : f = slot[s].from
    OBVIOUS
  <2>3. PICK g : g = EventCopied(h, e)
    OBVIOUS
  <2>4. /\ v \in FreeEvent /\ heap' = ClientDestroyed(g, slot[s]) /\ told' = Put(told, v, To(e, f))
        /\ slot' = Put(slot, s, FreeSlot)
    BY <1>2, <2>1, <2>2, <2>3 DEF NotifyDisconnect, EventIs, Put, To
  <2>5. v \in EventIds /\ told[v] = NoEvent
    BY <2>4, FreeEventIs
  <2>6. e # Nobody
    BY <2>1, SlotFields
  <2>7. \E r \in SlotIds : slot[r].remote = e /\ slot[r].from = f
    BY <2>1, <2>2
  <2>8. Sound(g, x, slot, told', own)
    BY ONLY <2>3, <2>4, <2>5, <2>6, <2>7, Sound(h, x, slot, told, own), EventSound
  <2> QED BY ONLY <2>4, <2>8, s \in SlotIds, ClientDestroyedSound
<1>3. CASE slot[s].state \notin {"ackConnect", "pending"} /\ ~sink
  <2>1. PICK state : state = "zombie"
    OBVIOUS
  <2>2. heap' = h /\ told' = told /\ slot' = Becomes(slot, s, state)
    BY <1>3, <2>1 DEF NotifyDisconnect, Becomes
  <2>3. state \in SlotStates \ {"free"}
    BY <2>1 DEF SlotStates
  <2>4. Sound(h, x, slot', told, own)
    BY ONLY <2>2, <2>3, Sound(h, x, slot, told, own), s \in SlotIds, slot[s].state # "free", BecomesSound
  <2> QED BY <2>2, <2>4
<1> QED BY <1>1, <1>2, <1>3

\* _gekkota_xudp_dispatch, of a connection that was not told yet.
LEMMA TellConnectKeeps ==
    ASSUME Inv, NEW s \in SlotIds, NEW v, TellConnect(s, v)
    PROVE  Inv'
<1>1. PICK sink \in BOOLEAN : sink = TRUE
  OBVIOUS
<1>2. slot[s].state # "free" /\ NotifyConnect(heap, s, v, sink) /\ UNCHANGED <<xudp, own>>
  BY <1>1 DEF TellConnect, NotifyConnect
<1>3. Sound(heap', xudp, slot', told', own)
  BY ONLY <1>2, s \in SlotIds, sink \in BOOLEAN, Inv, NotifyConnectKeeps DEF Inv
<1> QED BY <1>2, <1>3 DEF Inv

\* ... of an end that was not: the client is destroyed first, and the event names nobody.
LEMMA TellDisconnectKeeps ==
    ASSUME Inv, NEW s \in SlotIds, NEW v, TellDisconnect(s, v)
    PROVE  Inv'
<1>1. PICK f : f = slot[s].from
  OBVIOUS
<1>2. /\ slot[s].state # "free" /\ v \in FreeEvent /\ heap' = ClientDestroyed(heap, slot[s])
      /\ slot' = Put(slot, s, FreeSlot) /\ told' = Put(told, v, To(Nobody, f)) /\ UNCHANGED <<xudp, own>>
  BY <1>1 DEF TellDisconnect, EventIs, Put, To
<1>3. v \in EventIds /\ told[v] = NoEvent
  BY <1>2, FreeEventIs
<1>4. f \in MaybeRemote
  BY <1>1, <1>2, SlotFields DEF Inv
<1>5. Sound(heap', xudp, slot', told, own)
  BY ONLY <1>2, s \in SlotIds, Inv, ClientDestroyedSound DEF Inv
<1>6. Sound(heap', xudp, slot', told', own)
  BY ONLY <1>2, <1>3, <1>4, <1>5, SilentSound
<1> QED BY <1>2, <1>6 DEF Inv

\* ... of a packet that came in.
LEMMA TellPacketKeeps ==
    ASSUME Inv, NEW s \in SlotIds, NEW v, TellPacket(s, v)
    PROVE  Inv'
<1>1. PICK m : m = slot[s].queue[1]
  OBVIOUS
<1>2. /\ slot[s].state # "free" /\ slot[s].queue # <<>> /\ v \in FreeEvent
      /\ slot' = Popped(slot, s) /\ told' = Put(told, v, To(m.remote, m.from)) /\ UNCHANGED <<heap, xudp, own>>
  BY <1>1 DEF TellPacket, EventIs, Put, To, Popped
<1>3. v \in EventIds /\ told[v] = NoEvent
  BY <1>2, FreeEventIs
<1>4. Sound(heap, xudp, slot', told', own)
  BY ONLY <1>1, <1>2, <1>3, s \in SlotIds, Inv, PoppedSound DEF Inv
<1> QED BY <1>2, <1>4 DEF Inv

\* gekkota_event_destroy.
LEMMA EventDestroyedKeeps ==
    ASSUME Inv, NEW v \in EventIds, EventDestroyed(v)
    PROVE  Inv'
<1>1. /\ told' = Put(told, v, NoEvent) /\ heap' = Destroy(heap, told[v].remote) /\ UNCHANGED <<xudp, slot, own>>
  BY DEF EventDestroyed, Put
<1>2. Sound(heap', xudp, slot, told', own)
  BY ONLY <1>1, v \in EventIds, Inv, EventDestroyedSound DEF Inv
<1> QED BY <1>1, <1>2 DEF Inv

\* A message of a client was sent too often.
LEMMA TimesOutKeeps ==
    ASSUME Inv, NEW s \in SlotIds, NEW v, NEW sink \in BOOLEAN, TimesOut(s, v, sink)
    PROVE  Inv'
<1>1. slot[s].state # "free" /\ NotifyDisconnect(heap, s, v, sink) /\ UNCHANGED <<xudp, own>>
  BY DEF TimesOut
<1>2. Sound(heap', xudp, slot', told', own)
  BY ONLY <1>1, s \in SlotIds, sink \in BOOLEAN, Inv, NotifyDisconnectKeeps DEF Inv
<1> QED BY <1>1, <1>2 DEF Inv

-----------------------------------------------------------------------------
(* The datagrams.                                                          *)

\* Whoever a datagram is for, the host and the heap are sound, and know who sent it.
LEMMA ArrivalSound ==
    ASSUME Inv, NEW r \in Hosts, DatagramArrives, NEW g, g = DatagramOf(r), NEW n, n = NextEndPoint
    PROVE  /\ Sound(g, xudp', slot, told, own) /\ own' = own
           /\ n # Nobody /\ n = xudp'.remote /\ g.names[n] = r /\ r \in Remotes
<1>1. xudp.alive /\ Room /\ own' = own /\ xudp' = [xudp EXCEPT !.remote = n]
  BY DEF DatagramArrives
<1>2. g = Destroy(Made(r), xudp.remote)
  BY DEF DatagramOf
<1>3. Sound(g, xudp', slot, told, own) /\ n # Nobody /\ xudp'.remote = n /\ g.names[n] = r
  BY ONLY <1>1, <1>2, Inv, r \in Hosts, n = NextEndPoint, DatagramSound DEF Inv
<1> QED BY <1>1, <1>3 DEF Remotes

\* Nothing in it is for anybody.
LEMMA IgnoredKeeps ==
    ASSUME Inv, NEW r \in Hosts, Ignored(r)
    PROVE  Inv'
<1>1. DatagramArrives /\ heap' = DatagramOf(r) /\ UNCHANGED <<slot, told>>
  BY DEF Ignored
<1>2. Sound(heap', xudp', slot, told, own) /\ own' = own
  BY ONLY <1>1, Inv, r \in Hosts, ArrivalSound
<1> QED BY <1>1, <1>2 DEF Inv

\* _gekkota_xudp_on_connect_message.
LEMMA OnConnectKeeps ==
    ASSUME Inv, NEW r \in Hosts, NEW s \in SlotIds, OnConnect(r, s)
    PROVE  Inv'
<1>1. PICK state : state = "ackConnect"
  OBVIOUS
<1>2. PICK member \in BOOLEAN : member = FALSE
  OBVIOUS
<1>3. PICK n : n = NextEndPoint
  OBVIOUS
<1>4. PICK g : g = DatagramOf(r)
  OBVIOUS
<1>5. /\ DatagramArrives /\ slot[s].state = "free" /\ heap' = ShareEndPoint(g, n)
      /\ Takes(s, n, state, member) /\ told' = told
  BY <1>1, <1>2, <1>3, <1>4, FirstIsFree DEF OnConnect
<1>6. Sound(g, xudp', slot, told, own) /\ own' = own /\ n # Nobody /\ n = xudp'.remote
  BY ONLY <1>3, <1>4, <1>5, Inv, r \in Hosts, ArrivalSound
<1>7. PICK k : k = Taken(state, n, member, heap'.names[n])
  OBVIOUS
<1>8. slot' = Put(slot, s, k)
  BY <1>5, <1>7, TakesIs
<1>9. n \in {xudp'.remote, own} /\ state \in SlotStates \ {"free"}
  BY <1>1, <1>6 DEF SlotStates
<1>10. Sound(heap', xudp', slot', told, own)
  BY ONLY <1>2, <1>5, <1>6, <1>7, <1>8, <1>9, s \in SlotIds, TakesSound
<1> QED BY <1>5, <1>6, <1>10 DEF Inv

\* _gekkota_xudp_on_validate_connect_message, or the acknowledgement of one.
LEMMA OnEstablishedKeeps ==
    ASSUME Inv, NEW r \in Hosts, NEW s \in SlotIds, NEW v, NEW sink \in BOOLEAN, OnEstablished(r, s, v, sink)
    PROVE  Inv'
<1>1. PICK g : g = DatagramOf(r)
  OBVIOUS
<1>2. DatagramArrives /\ slot[s].state # "free" /\ NotifyConnect(g, s, v, sink)
  BY <1>1 DEF OnEstablished
<1>3. Sound(g, xudp', slot, told, own) /\ own' = own
  BY ONLY <1>1, <1>2, Inv, r \in Hosts, ArrivalSound
<1>4. Sound(heap', xudp', slot', told', own)
  BY ONLY <1>2, <1>3, s \in SlotIds, sink \in BOOLEAN, NotifyConnectKeeps
<1> QED BY <1>3, <1>4 DEF Inv

\* The acknowledgement of a DISCONNECT.
LEMMA OnDisconnectedKeeps ==
    ASSUME Inv, NEW r \in Hosts, NEW s \in SlotIds, NEW v, NEW sink \in BOOLEAN, OnDisconnected(r, s, v, sink)
    PROVE  Inv'
<1>1. PICK g : g = DatagramOf(r)
  OBVIOUS
<1>2. DatagramArrives /\ slot[s].state # "free" /\ NotifyDisconnect(g, s, v, sink)
  BY <1>1 DEF OnDisconnected
<1>3. Sound(g, xudp', slot, told, own) /\ own' = own
  BY ONLY <1>1, <1>2, Inv, r \in Hosts, ArrivalSound
<1>4. Sound(heap', xudp', slot', told', own)
  BY ONLY <1>2, <1>3, s \in SlotIds, sink \in BOOLEAN, NotifyDisconnectKeeps
<1> QED BY <1>3, <1>4 DEF Inv

\* _gekkota_xudp_on_disconnect_message.
LEMMA OnDisconnectKeeps ==
    ASSUME Inv, NEW r \in Hosts, NEW s \in SlotIds, NEW ack \in BOOLEAN, OnDisconnect(r, s, ack)
    PROVE  Inv'
<1>1. PICK g : g = DatagramOf(r)
  OBVIOUS
<1>2. DatagramArrives /\ told' = told /\ ~slot[s].member /\ IsFor(r, s)
  BY DEF OnDisconnect
<1>3. slot[s].state # "free"
  BY <1>2 DEF IsFor
<1>4. Sound(g, xudp', slot, told, own) /\ own' = own
  BY ONLY <1>1, <1>2, Inv, r \in Hosts, ArrivalSound
<1>5. CASE slot[s].state \in {"succeeded", "connected"}
  <2>1. PICK state : state = IF slot[s].state = "connected" /\ ack THEN "ackDisconnect" ELSE "zombie"
    OBVIOUS
  <2>2. heap' = QueuesCleared(g, slot[s]) /\ slot' = Emptying(slot, s, state)
    <3>1. PICK b : b = [slot EXCEPT ![s].queue = <<>>]
      OBVIOUS
    <3>2. heap' = QueuesCleared(g, slot[s]) /\ slot' = [b EXCEPT ![s].state = state]
      BY <1>1, <1>5, <2>1, <3>1 DEF OnDisconnect
    <3> QED BY <3>1, <3>2 DEF Emptying
  <2>3. state \in SlotStates \ {"free"}
    BY <2>1 DEF SlotStates
  <2>4. Sound(heap', xudp', slot', told, own)
    BY ONLY <1>3, <1>4, <2>2, <2>3, s \in SlotIds, EmptyingSound
  <2> QED BY <1>2, <1>4, <2>4 DEF Inv
<1>6. CASE slot[s].state \notin {"succeeded", "connected"}
  <2>1. heap' = ClientDestroyed(g, slot[s]) /\ slot' = Put(slot, s, FreeSlot)
    BY <1>1, <1>6 DEF OnDisconnect, Put
  <2>2. Sound(heap', xudp', slot', told, own)
    BY ONLY <1>4, <2>1, s \in SlotIds, ClientDestroyedSound
  <2> QED BY <1>2, <1>4, <2>2 DEF Inv
<1> QED BY <1>5, <1>6

\* _gekkota_xudp_on_reliable_data_message and those like it.
LEMMA OnDataKeeps ==
    ASSUME Inv, NEW r \in Hosts, NEW s \in SlotIds, OnData(r, s)
    PROVE  Inv'
<1>1. PICK n : n = NextEndPoint
  OBVIOUS
<1>2. PICK g : g = DatagramOf(r)
  OBVIOUS
<1>3. /\ DatagramArrives /\ slot[s].state # "free" /\ Len(slot[s].queue) < MaxQueued
      /\ heap' = Queued(g, n) /\ slot' = Pushed(slot, s, To(n, r)) /\ told' = told
  BY <1>1, <1>2 DEF OnData, Pushed, To
<1>4. /\ Sound(g, xudp', slot, told, own) /\ own' = own
      /\ n # Nobody /\ n = xudp'.remote /\ g.names[n] = r /\ r \in Remotes
  BY ONLY <1>1, <1>2, <1>3, Inv, r \in Hosts, ArrivalSound
<1>5. Sound(heap', xudp', slot', told, own)
  BY ONLY <1>3, <1>4, s \in SlotIds, PushedSound
<1> QED BY <1>3, <1>4, <1>5 DEF Inv

\* _gekkota_xudp_on_join_multicast_group_message, and its twin for leaving.
LEMMA OnMembershipKeeps ==
    ASSUME Inv, NEW r \in Hosts, NEW s \in SlotIds, NEW v, NEW twice \in BOOLEAN, OnMembership(r, s, v, twice)
    PROVE  Inv'
<1>1. PICK n : n = NextEndPoint
  OBVIOUS
<1>2. PICK g : g = DatagramOf(r)
  OBVIOUS
<1>3. PICK i : i = EventCopied(g, n)
  OBVIOUS
<1>4. /\ DatagramArrives /\ v \in FreeEvent /\ told' = Put(told, v, To(n, r)) /\ slot' = slot
      /\ heap' = IF twice THEN Lose(EventCopied(i, n), n) ELSE i
  BY <1>1, <1>2, <1>3 DEF OnMembership, EventIs, Put, To
<1>5. /\ Sound(g, xudp', slot, told, own) /\ own' = own
      /\ n # Nobody /\ n = xudp'.remote /\ g.names[n] = r /\ r \in Remotes
  BY ONLY <1>1, <1>2, <1>4, Inv, r \in Hosts, ArrivalSound
<1>6. v \in EventIds /\ told[v] = NoEvent
  BY <1>4, FreeEventIs
<1>7. Sound(i, xudp', slot, told', own)
  BY ONLY <1>3, <1>4, <1>5, <1>6, EventSound
<1>8. Sound(heap', xudp', slot, told', own)
  <2>1. CASE twice
    <3>1. heap' = Lose(EventCopied(i, n), n)
      BY <1>4, <2>1
    <3> QED BY ONLY <1>5, <1>7, <3>1, TwiceSound
  <2>2. CASE ~twice
    BY <1>4, <1>7, <2>2
  <2> QED BY <2>1, <2>2
<1> QED BY <1>4, <1>5, <1>8 DEF Inv

-----------------------------------------------------------------------------
(* The specification.                                                      *)

\* At first nobody has anything.
LEMMA InitSound ==
    ASSUME EndInit
    PROVE  Inv
<1>1. PICK V : V = [w \in Places |-> NoEvent]
  OBVIOUS
<1>2. NoEvent \in Claim /\ NoEvent.remote = Nobody /\ NoEvent.from = Nobody
  BY DEF NoEvent, Claim, MaybeEndPoint, MaybeRemote
<1>3. V \in Claims /\ \A w \in Places : V[w] = NoEvent
  BY <1>1, <1>2 DEF Claims
<1>4. /\ heap.count = [e \in EndPointIds |-> 0] /\ heap.names = [e \in EndPointIds |-> Nobody]
      /\ heap.address = [e \in EndPointIds |-> Nobody] /\ heap.lost = [e \in EndPointIds |-> 0]
      /\ heap.refs = [a \in AddressIds |-> 0] /\ heap.value = [a \in AddressIds |-> Nobody]
      /\ heap.wild = FALSE
  BY DEF EndInit
<1>5. heap \in HeapType
  BY DEF EndInit, HeapType, MaybeRemote
<1>6. Counted(heap, V, Zero)
  <2>1. ASSUME NEW e \in EndPointIds PROVE heap.count[e] = Cardinality(Having(V, e)) + heap.lost[e]
    <3>1. e # Nobody
      BY NobodyIs
    <3>2. Having(V, e) = {}
      BY <1>2, <1>3, <3>1 DEF Having
    <3> QED BY <1>4, <3>2, FS_EmptySet
  <2>2. ASSUME NEW a \in AddressIds PROVE heap.refs[a] = Cardinality(UsersOf(heap, a)) + Zero[a]
    <3>1. a # Nobody
      BY NobodyIs
    <3>2. UsersOf(heap, a) = {}
      BY <1>4, <3>1 DEF UsersOf
    <3> QED BY <1>4, <3>2, FS_EmptySet, ZeroIs
  <2> QED BY <2>1, <2>2 DEF Counted
<1>7. Named(heap)
  BY <1>4 DEF Named
<1>8. Known(heap, V)
  BY <1>2, <1>3 DEF Known
<1>9. HeapSound(heap, V, Zero)
  BY <1>3, <1>4, <1>5, <1>6, <1>7, <1>8, ZeroIs DEF HeapSound
<1>10. xudp = NoHost /\ slot = [s \in SlotIds |-> FreeSlot] /\ told = [v \in EventIds |-> NoEvent] /\ own = Nobody
  BY DEF EndInit
<1>11. Shape(xudp, slot, told, own)
  <2>1. NoHost \in [alive : BOOLEAN, local : MaybeEndPoint, remote : MaybeEndPoint]
    BY DEF NoHost, MaybeEndPoint
  <2>2. \A s \in SlotIds : SlotSound(slot[s]) /\ slot[s] \in SlotRecord
    BY <1>10, FreeIs DEF SlotSound
  <2>3. slot \in [SlotIds -> SlotRecord]
    BY <1>10, <2>2
  <2>4. told \in [EventIds -> Claim]
    BY <1>2, <1>10
  <2>5. own \in MaybeEndPoint
    BY <1>10 DEF MaybeEndPoint
  <2> QED BY <1>10, <2>1, <2>2, <2>3, <2>4, <2>5 DEF Shape
<1>12. Fits(V, xudp, slot, told, own)
  <2>1. \A s \in SlotIds : slot[s].remote = Nobody /\ slot[s].queue = <<>>
    BY <1>10 DEF FreeSlot
  <2>2. \A s \in SlotIds : Agrees(V[ClientPlace(s)], slot[s].remote, slot[s].from)
    BY <1>2, <1>3, <2>1, PlaceCases DEF Agrees
  <2>3. \A s \in SlotIds : Waiting(V, s, slot[s].queue)
    BY <1>3, <2>1, PlaceCases DEF Waiting
  <2>4. \A v \in EventIds : Agrees(V[EventPlace(v)], told[v].remote, told[v].from)
    BY <1>2, <1>3, <1>10, PlaceCases DEF Agrees
  <2>5. /\ V[LocalPlace].remote = xudp.local /\ V[RemotePlace].remote = xudp.remote
        /\ V[OwnPlace].remote = own /\ V[CallPlace].remote = Nobody
    BY <1>2, <1>3, <1>10, PlaceCases DEF NoHost
  <2> QED BY <2>2, <2>3, <2>4, <2>5 DEF Fits
<1>13. Sound(heap, xudp, slot, told, own)
  BY ONLY <1>9, <1>11, <1>12, SoundBy
<1> QED BY <1>13 DEF Inv

\* Every step keeps the invariant.
LEMMA StepKeeps ==
    ASSUME Inv, [EndNext]_endVars
    PROVE  Inv'
<1>1. ASSUME NEW s \in SlotIds, ConnectTo(s) \/ JoinGroup(s) PROVE Inv'
  BY ONLY <1>1, Inv, ConnectToKeeps, JoinGroupKeeps
<1>2. ASSUME NEW r \in Hosts, NEW s \in SlotIds, ConnectByName(s, r) \/ OnConnect(r, s) \/ OnData(r, s)
      PROVE  Inv'
  BY ONLY <1>2, Inv, ConnectByNameKeeps, OnConnectKeeps, OnDataKeeps
<1>3. ASSUME NEW r \in Hosts, NEW s \in SlotIds, NEW ack \in BOOLEAN, OnDisconnect(r, s, ack) PROVE Inv'
  BY ONLY <1>3, Inv, OnDisconnectKeeps
<1>4. ASSUME NEW r \in Hosts, NEW s \in SlotIds, NEW v \in EventIds, NEW b \in BOOLEAN,
             OnEstablished(r, s, v, b) \/ OnDisconnected(r, s, v, b) \/ OnMembership(r, s, v, b)
      PROVE  Inv'
  BY ONLY <1>4, Inv, OnEstablishedKeeps, OnDisconnectedKeeps, OnMembershipKeeps
<1>5. ASSUME NEW s \in SlotIds, DestroyClient(s) \/ CloseGracefully(s) \/ AcknowledgesDisconnect(s)
      PROVE  Inv'
  BY ONLY <1>5, Inv, DestroyClientKeeps, CloseGracefullyKeeps, AcknowledgesKeeps
<1>6. ASSUME NEW s \in SlotIds, NEW v \in EventIds, TellConnect(s, v) \/ TellDisconnect(s, v) \/ TellPacket(s, v)
      PROVE  Inv'
  BY ONLY <1>6, Inv, TellConnectKeeps, TellDisconnectKeeps, TellPacketKeeps
<1>7. ASSUME NEW s \in SlotIds, NEW v \in EventIds, NEW sink \in BOOLEAN, TimesOut(s, v, sink) PROVE Inv'
  BY ONLY <1>7, Inv, TimesOutKeeps
<1>8. CASE \E v \in EventIds : EventDestroyed(v)
  BY ONLY <1>8, Inv, EventDestroyedKeeps
<1>9. CASE \E r \in Hosts : Ignored(r)
  BY ONLY <1>9, Inv, IgnoredKeeps
<1>10. CASE (\E r \in Remotes : NewEndPoint(r)) \/ DestroyEndPoint
  BY ONLY <1>10, Inv, OwnSteps
<1>11. CASE NewHost \/ (\E r \in Hosts : NewHostOfPort(r) \/ NewHostByName(r)) \/ DestroyHost
  BY ONLY <1>11, Inv, HostSteps
<1>12. CASE UNCHANGED endVars
  BY <1>12 DEF endVars, Inv
<1> QED BY <1>1, <1>2, <1>3, <1>4, <1>5, <1>6, <1>7, <1>8, <1>9, <1>10, <1>11, <1>12 DEF EndNext

\* The invariant implies that the counts are those of the holders.
LEMMA InvCounts ==
    ASSUME Inv
    PROVE  ReferencesAreCounted
<1>1. PICK W : W = ClaimsOf(heap, xudp, slot, told, own)
  OBVIOUS
<1>2. HeapSound(heap, W, Zero)
  BY <1>1 DEF Inv, Sound
<1>3. ~heap.wild /\ Counted(heap, W, Zero)
  BY <1>2 DEF HeapSound
<1>4. \A w \in Places : W[w] = ClaimOf(heap, xudp, slot, told, own, w)
  BY <1>1 DEF ClaimsOf
<1> ClaimsAre(W, heap, xudp, slot, told, own)
  BY ONLY <1>1, ClaimIs
<1>5. ASSUME NEW w \in Holders PROVE HeldBy(w) = W[w].remote
  <2>1. W[w] = ClaimOf(heap, xudp, slot, told, own, w)
    BY <1>4 DEF Places
  <2>2. CASE w \in {"client"} \X SlotIds \X {0}
    BY <2>1, <2>2 DEF HeldBy, ClaimOf
  <2>3. CASE w \in {"message"} \X SlotIds \X (1..MaxQueued)
    BY <2>1, <2>3 DEF HeldBy, ClaimOf, NoEvent
  <2>4. CASE w \in {"event"} \X EventIds \X {0}
    BY <2>1, <2>4 DEF HeldBy, ClaimOf
  <2>5. CASE w \in {"local", "remote", "own"} \X {0} \X {0}
    BY <2>1, <2>5 DEF HeldBy, ClaimOf
  <2> QED BY <2>2, <2>3, <2>4, <2>5 DEF Holders
<1>6. ASSUME NEW e \in EndPointIds PROVE HoldersOf(e) = Having(W, e)
  <2>1. W[CallPlace].remote # e
    BY NobodyIs DEF ClaimsAre, NoEvent
  <2>2. \A w \in Places : w \in Holders \/ w = CallPlace
    BY DEF Places, CallPlace
  <2>3. Holders \subseteq Places
    BY DEF Places
  <2> QED BY <1>5, <2>1, <2>2, <2>3 DEF HoldersOf, Having
<1>7. ASSUME NEW e \in EndPointIds PROVE heap.count[e] = Cardinality(HoldersOf(e)) + heap.lost[e]
  BY <1>3, <1>6 DEF Counted
<1>8. ASSUME NEW a \in AddressIds PROVE heap.refs[a] = Cardinality({e \in EndPointIds : heap.address[e] = a})
  <2>1. PICK n : n = Cardinality(UsersOf(heap, a))
    OBVIOUS
  <2>2. heap.refs[a] = n + 0
    BY <1>3, <2>1, ZeroIs DEF Counted
  <2>3. n \in Nat
    BY <2>1, Finite, FS_Subset, FS_CardinalityType DEF UsersOf
  <2> QED BY <2>1, <2>2, <2>3 DEF UsersOf
<1> QED BY <1>3, <1>7, <1>8 DEF ReferencesAreCounted

\* ... and that clients and events know whom they are about.
LEMMA InvKnows ==
    ASSUME Inv
    PROVE  SenderIsKnown
<1>1. PICK V : HeapSound(heap, V, Zero) /\ Fits(V, xudp, slot, told, own)
  BY SoundClaims DEF Inv
<1>2. ASSUME NEW w \in Places, NEW e, NEW f, e # Nobody, Agrees(V[w], e, f) PROVE NamesIt(e, f)
  <2>1. e = V[w].remote /\ f = V[w].from
    BY <1>2 DEF Agrees
  <2> QED BY <1>1, <1>2, <2>1, ClaimedIs DEF NamesIt
<1>3. ASSUME NEW s \in SlotIds, slot[s].state # "free" PROVE NamesIt(slot[s].remote, slot[s].from)
  <2>1. slot[s].remote # Nobody
    BY <1>3, SlotFields DEF Inv
  <2>2. Agrees(V[ClientPlace(s)], slot[s].remote, slot[s].from) /\ ClientPlace(s) \in Places
    BY <1>1, PlaceCases DEF Fits
  <2> QED BY <1>2, <2>1, <2>2
<1>4. ASSUME NEW v \in EventIds, told[v].remote # Nobody PROVE NamesIt(told[v].remote, told[v].from)
  <2>1. Agrees(V[EventPlace(v)], told[v].remote, told[v].from) /\ EventPlace(v) \in Places
    BY <1>1, PlaceCases DEF Fits
  <2> QED BY <1>2, <1>4, <2>1
<1> QED BY <1>3, <1>4 DEF SenderIsKnown

\* However the application, the host and its peers take turns, what is counted is what is
\* held, and nobody is mistaken about whom an endpoint names.
THEOREM ReferencesStaySound == EndSpec => []Inv
<1>1. EndInit => Inv
  BY InitSound
<1>2. Inv /\ [EndNext /\ FewAreLost]_endVars => Inv'
  BY StepKeeps
<1> QED BY <1>1, <1>2, PTL DEF EndSpec

\* The count of an endpoint, or of an address, is the number of those who hold it, and of
\* those the library lost: so nothing is freed while somebody has it, or used after that.
THEOREM ReferencesCounted == EndSpec => []ReferencesAreCounted
<1>1. Inv => ReferencesAreCounted
  BY InvCounts
<1> QED BY <1>1, ReferencesStaySound, PTL

\* The endpoint of a client names the peer the client was made for, and that of an event
\* whom the event is about.
THEOREM SenderKnown == EndSpec => []SenderIsKnown
<1>1. Inv => SenderIsKnown
  BY InvKnows
<1> QED BY <1>1, ReferencesStaySound, PTL
=============================================================================
