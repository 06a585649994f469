------------------------ MODULE XudpConnectionProofs ------------------------
(***************************************************************************)
(* Proofs about XudpConnection, for any hosts, session ids and bounds.     *)
(***************************************************************************)
EXTENDS XudpConnection, SequenceTheorems, TLAPS

(* The inductive invariant, of one client: its type; the queue discipline;  *)
(* and that no pending message has a number its counter has not given out,  *)
(* which is what makes a new number new.                                    *)

CounterOf(c, chan) == IF chan = "control" THEN c.ctlSeq ELSE c.relSeq

Counted(c) == \A m \in Pending(c) : m.seq <= CounterOf(c, m.chan)

Sound(c) ==
    /\ c \in Client
    /\ HoldsItsMessage(c)
    /\ DistinctNumbers(c)
    /\ Counted(c)

-----------------------------------------------------------------------------
(* Sequences.                                                              *)

\* What Append adds to the elements of a queue.
LEMMA RangeAppend ==
    ASSUME NEW S, NEW s \in Seq(S), NEW x \in S
    PROVE  Append(s, x) \in Seq(S) /\ Range(Append(s, x)) = Range(s) \union {x}
<1>1. /\ Append(s, x) \in Seq(S)
      /\ Len(Append(s, x)) = Len(s) + 1
      /\ \A i \in 1..Len(s) : Append(s, x)[i] = s[i]
      /\ Append(s, x)[Len(s) + 1] = x
  BY AppendProperties
<1>2. Range(s) = {s[i] : i \in 1..Len(s)}
  BY RangeEquality
<1>3. Range(Append(s, x)) = {Append(s, x)[i] : i \in 1..(Len(s) + 1)}
  BY <1>1, RangeEquality
<1>4. Len(s) \in Nat
  OBVIOUS
<1>5. 1..(Len(s) + 1) = 1..Len(s) \union {Len(s) + 1}
  BY <1>4
<1> QED
  BY <1>1, <1>2, <1>3, <1>5

\* A queue stays free of duplicates when something new joins it.
LEMMA AppendStaysInjective ==
    ASSUME NEW S, NEW s \in Seq(S), NEW x \in S, IsInjective(s), x \notin Range(s)
    PROVE  IsInjective(Append(s, x))
<1>1. /\ Append(s, x) \in Seq(S)
      /\ Len(Append(s, x)) = Len(s) + 1
      /\ \A i \in 1..Len(s) : Append(s, x)[i] = s[i]
      /\ Append(s, x)[Len(s) + 1] = x
  BY AppendProperties
<1>2. DOMAIN s = 1..Len(s) /\ Len(s) \in Nat /\ DOMAIN Append(s, x) = 1..(Len(s) + 1)
  BY <1>1
<1>3. \A i \in 1..Len(s) : s[i] # x
  BY <1>2 DEF Range
<1>4. \A i, j \in 1..Len(s) : s[i] = s[j] => i = j
  BY <1>2 DEF IsInjective
<1>5. ASSUME NEW i \in 1..(Len(s) + 1), NEW j \in 1..(Len(s) + 1),
             Append(s, x)[i] = Append(s, x)[j]
      PROVE  i = j
  BY <1>1, <1>2, <1>3, <1>4, <1>5
<1> QED
  BY <1>2, <1>5, Zenon DEF IsInjective

\* A queue that holds something has an element.
LEMMA NonEmptyRange ==
    ASSUME NEW S, NEW s \in Seq(S), s # <<>>
    PROVE  Range(s) # {}
<1>1. 1 \in DOMAIN s
  OBVIOUS
<1> QED
  BY <1>1 DEF Range

\* The empty queue has no elements.
LEMMA RangeEmpty == <<>> \in Seq(Message) /\ Range(<<>>) = {}
BY DEF Range

\* Nor has it duplicates.
LEMMA EmptyInjective == IsInjective(<<>>)
BY DEF IsInjective

-----------------------------------------------------------------------------
(* Operations on a client record.                                          *)

\* A free slot is sound.
LEMMA BlankSound == Sound(Blank)
<1>1. Pending(Blank) = {}
  BY RangeEmpty DEF Pending, Blank
<1>2. Blank \in Client
  BY DEF Blank, Client, States
<1> QED
  <2>1. QueuedOnce(Blank)
    BY EmptyInjective DEF QueuedOnce, Blank
  <2> QED
    BY <1>1, <1>2, <2>1 DEF Sound, HoldsItsMessage, DistinctNumbers, Counted, Blank

\* Queueing a message keeps the numbers of a client distinct and counted, and
\* adds that message to the pending ones and nothing else.
LEMMA QueueOutAdds ==
    ASSUME NEW c \in Client, NEW type \in MessageTypes, NEW chan \in Channels,
           DistinctNumbers(c), Counted(c)
    PROVE  /\ QueueOut(c, type, chan) \in Client
           /\ Numbered(c, type, chan) \in Message
           /\ Pending(QueueOut(c, type, chan)) = Pending(c) \union {Numbered(c, type, chan)}
           /\ DistinctNumbers(QueueOut(c, type, chan))
           /\ Counted(QueueOut(c, type, chan))
           /\ QueueOut(c, type, chan).state = c.state
           /\ QueueOut(c, type, chan).open = c.open
           /\ QueueOut(c, type, chan).bound = c.bound
<1> DEFINE m == Numbered(c, type, chan)
           q == QueueOut(c, type, chan)
<1>0. QueuedOnce(c)
  BY DEF DistinctNumbers
<1>1. m \in Message /\ m.chan = chan /\ m.type = type /\ m.seq = CounterOf(c, chan) + 1
  BY DEF Numbered, Message, Flags, Client, CounterOf, Channels
<1>2. c.outR \in Seq(Message)
  BY DEF Client
<1>3. /\ Append(c.outR, m) \in Seq(Message)
      /\ Range(Append(c.outR, m)) = Range(c.outR) \union {m}
  BY <1>1, <1>2, RangeAppend
<1>4. /\ q \in Client
      /\ q.outR = Append(c.outR, m) /\ q.sent = c.sent
      /\ q.state = c.state /\ q.open = c.open /\ q.bound = c.bound
      /\ q.ctlSeq = IF chan = "control" THEN c.ctlSeq + 1 ELSE c.ctlSeq
      /\ q.relSeq = IF chan = "data" THEN c.relSeq + 1 ELSE c.relSeq
  <2>1. c.ctlSeq + 1 \in Nat /\ c.relSeq + 1 \in Nat
    BY DEF Client
  <2>2. q = [c EXCEPT !.outR = Append(c.outR, m),
                      !.ctlSeq = IF chan = "control" THEN c.ctlSeq + 1 ELSE c.ctlSeq,
                      !.relSeq = IF chan = "data" THEN c.relSeq + 1 ELSE c.relSeq]
    BY DEF QueueOut
  <2> HIDE DEF m, q
  <2> QED
    BY <2>1, <2>2, <1>3 DEF Client
<1>5. Pending(q) = Pending(c) \union {m}
  BY <1>3, <1>4 DEF Pending
<1>6. Pending(c) \subseteq Message
  BY <1>2, RangeOfSeq DEF Pending, Client
<1>7. c.ctlSeq \in Nat /\ c.relSeq \in Nat
  BY DEF Client
<1>8. Counted(q)
  <2> SUFFICES ASSUME NEW n \in Pending(q) PROVE n.seq <= CounterOf(q, n.chan)
    BY DEF Counted
  <2>1. CASE n = m
    BY <2>1, <1>1, <1>4, <1>7 DEF CounterOf, Channels
  <2>2. CASE n \in Pending(c)
    <3>1. n.seq <= CounterOf(c, n.chan) /\ n.seq \in Nat
      BY <2>2, <1>6 DEF Counted, Message
    <3> QED
      BY <3>1, <1>4, <1>7 DEF CounterOf
  <2> QED
    BY <2>1, <2>2, <1>5
<1>9. DistinctNumbers(q)
  <2>1. ASSUME NEW o \in Pending(c) PROVE ~(o.chan = m.chan /\ o.seq = m.seq)
    <3>1. o.seq <= CounterOf(c, o.chan) /\ o.seq \in Nat
      BY <1>6 DEF Counted, Message
    <3> QED
      BY <3>1, <1>1, <1>7 DEF CounterOf
  <2>2. ASSUME NEW n \in Pending(q), NEW k \in Pending(q),
               n.chan = k.chan, n.seq = k.seq
        PROVE  n = k
    BY <2>1, <2>2, <1>5 DEF DistinctNumbers
  <2>3. m \notin Pending(c)
    BY <2>1
  <2>4. IsInjective(q.outR)
    <3>1. /\ IsInjective(c.outR) /\ m \notin Range(c.outR)
      BY <1>0, <2>3 DEF QueuedOnce, Pending
    <3>2. m \in Message /\ q.outR = Append(c.outR, m)
      BY <1>1, <1>4
    <3> HIDE DEF m, q
    <3>3. IsInjective(Append(c.outR, m))
      BY <1>2, <3>1, <3>2, AppendStaysInjective
    <3> QED
      BY <3>2, <3>3, Zenon
  <2>5. Range(q.outR) \intersect q.sent = {}
    BY <1>0, <1>3, <1>4, <2>3 DEF QueuedOnce, Pending
  <2> QED
    BY <2>2, <2>4, <2>5 DEF DistinctNumbers, QueuedOnce
<1> QED
  BY <1>1, <1>4, <1>5, <1>8, <1>9

\* A new state leaves everything else of the record as it was.
LEMMA WithState ==
    ASSUME NEW c \in Client, NEW st \in States
    PROVE  LET d == [c EXCEPT !.state = st]
           IN  /\ d \in Client
               /\ d.state = st
               /\ d.open = c.open /\ d.bound = c.bound
               /\ Pending(d) = Pending(c)
               /\ DistinctNumbers(c) => DistinctNumbers(d)
               /\ Counted(c) => Counted(d)
<1> DEFINE d == [c EXCEPT !.state = st]
<1>1. /\ d \in Client /\ d.state = st
      /\ d.open = c.open /\ d.bound = c.bound
      /\ d.sent = c.sent /\ d.outR = c.outR
      /\ d.ctlSeq = c.ctlSeq /\ d.relSeq = c.relSeq
  BY DEF Client
<1> HIDE DEF d
<1>2. Pending(d) = Pending(c)
  BY <1>1 DEF Pending
<1>3. /\ DistinctNumbers(c) => DistinctNumbers(d)
      /\ Counted(c) => Counted(d)
  BY <1>1, <1>2 DEF DistinctNumbers, QueuedOnce, Counted, CounterOf
<1> QED
  BY <1>1, <1>2, <1>3 DEF d

\* Dropping pending messages keeps a client sound, if it keeps the discipline.
LEMMA FewerPending ==
    ASSUME NEW c, Sound(c), NEW d \in Client,
           Pending(d) \subseteq Pending(c),
           d.ctlSeq = c.ctlSeq, d.relSeq = c.relSeq,
           HoldsItsMessage(d), QueuedOnce(d)
    PROVE  Sound(d)
BY DEF Sound, DistinctNumbers, Counted, CounterOf

Unrestricted == {"CONNECTING", "CONNECTION_PENDING", "CONNECTION_SUCCEEDED",
                 "CONNECTED", "ZOMBIE"}

\* The queue discipline asks nothing of these states.
LEMMA UnrestrictedHolds ==
    ASSUME NEW c, c.state \in Unrestricted
    PROVE  HoldsItsMessage(c)
BY DEF HoldsItsMessage, Unrestricted

\* Nothing is pending once the queues are cleared.
LEMMA ClearQueuesEmpties ==
    ASSUME NEW c \in Client
    PROVE  /\ ClearQueues(c) \in Client
           /\ Pending(ClearQueues(c)) = {}
           /\ ClearQueues(c).state = c.state
           /\ DistinctNumbers(ClearQueues(c))
           /\ Counted(ClearQueues(c))
<1> DEFINE d == ClearQueues(c)
<1>0. <<>> \in Seq(Ack) /\ <<>> \in Seq(Message)
  OBVIOUS
<1>1. /\ d \in Client /\ d.state = c.state
      /\ d.sent = {} /\ d.outR = <<>>
  BY <1>0 DEF ClearQueues, Client
<1> HIDE DEF d
<1>2. Pending(d) = {}
  BY <1>1, RangeEmpty DEF Pending
<1>3. DistinctNumbers(d) /\ Counted(d)
  BY <1>1, <1>2, RangeEmpty DEF DistinctNumbers, QueuedOnce, IsInjective, Counted
<1> QED
  BY <1>1, <1>2, <1>3 DEF d

\* A connected client that closes has DISCONNECT to wait for, and only that.
LEMMA CloseConnectedSound ==
    ASSUME NEW c \in Client
    PROVE  Sound(CloseConnected(c))
<1> DEFINE d == ClearQueues(c)
           q == QueueOut(d, "DISCONNECT", "control")
           e == [q EXCEPT !.state = "DISCONNECTING"]
           m == Numbered(d, "DISCONNECT", "control")
<1>1. d \in Client /\ Pending(d) = {} /\ DistinctNumbers(d) /\ Counted(d)
  BY ClearQueuesEmpties
<1> HIDE DEF d
<1>2. "DISCONNECT" \in MessageTypes /\ "control" \in Channels
  BY DEF MessageTypes, Channels
<1>3. q \in Client /\ Pending(q) = Pending(d) \union {m} /\ DistinctNumbers(q) /\ Counted(q)
  BY <1>1, <1>2, QueueOutAdds
<1> HIDE DEF q
<1>4. "DISCONNECTING" \in States
  BY DEF States
<1>5. /\ e \in Client /\ e.state = "DISCONNECTING" /\ Pending(e) = Pending(q)
      /\ DistinctNumbers(e) /\ Counted(e)
  BY <1>3, <1>4, WithState
<1> HIDE DEF e
<1>6. m.type = "DISCONNECT"
  BY DEF Numbered
<1>7. WaitsFor(e, "DISCONNECT")
  BY <1>1, <1>3, <1>5, <1>6 DEF WaitsFor
<1>8. Sound(e)
  BY <1>5, <1>7 DEF Sound, HoldsItsMessage
<1> QED
  BY <1>8 DEF CloseConnected, d, q, e

\* Sending moves messages from one queue to the other: they stay pending.
LEMMA AfterSendSound ==
    ASSUME NEW c, Sound(c)
    PROVE  Sound(AfterSend(c)) /\ Sound(AcksSent(c))
<1> USE DEF Sound
<1> DEFINE a == AcksSent(c)
           d == Sent(c)
<1>1. <<>> \in Seq(Ack) /\ <<>> \in Seq(Message)
  OBVIOUS
<1>2. /\ a \in Client /\ a.state \in {c.state, "ZOMBIE"}
      /\ a.open = c.open /\ a.bound = c.bound
      /\ a.sent = c.sent /\ a.outR = c.outR
      /\ a.ctlSeq = c.ctlSeq /\ a.relSeq = c.relSeq
  BY <1>1 DEF AcksSent, Client, States
<1> HIDE DEF a
<1>3. Range(c.outR) \subseteq Message
  BY RangeOfSeq DEF Client
<1>4. /\ d \in Client /\ d.state = a.state
      /\ d.open = c.open /\ d.bound = c.bound
      /\ d.sent = c.sent \union Range(c.outR) /\ d.outR = <<>>
      /\ d.ctlSeq = c.ctlSeq /\ d.relSeq = c.relSeq
  <2>1. d = [a EXCEPT !.outR = <<>>, !.sent = a.sent \union Range(c.outR)]
    BY DEF Sent, a
  <2> HIDE DEF d, Sound
  <2>2. a.sent \union Range(c.outR) \in SUBSET Message
    BY <1>2, <1>3 DEF Client
  <2>3. d \in Client
    BY <1>1, <1>2, <2>1, <2>2 DEF Client
  <2>4. /\ d.state = a.state /\ d.open = a.open /\ d.bound = a.bound
        /\ d.sent = a.sent \union Range(c.outR) /\ d.outR = <<>>
        /\ d.ctlSeq = a.ctlSeq /\ d.relSeq = a.relSeq
    BY <1>2, <2>1 DEF Client
  <2> QED
    BY <1>2, <2>3, <2>4
<1> HIDE DEF d
<1>5. Pending(a) = Pending(c) /\ Pending(d) = Pending(c)
  BY <1>2, <1>4, RangeEmpty DEF Pending
<1>6. HoldsItsMessage(a) /\ HoldsItsMessage(d)
  BY <1>2, <1>4, <1>5 DEF HoldsItsMessage, WaitsFor
<1>7. QueuedOnce(a) /\ QueuedOnce(d)
  BY <1>2, <1>4, RangeEmpty DEF DistinctNumbers, QueuedOnce, IsInjective
<1>8. Sound(a) /\ Sound(d)
  BY <1>2, <1>4, <1>5, <1>6, <1>7, FewerPending
<1> QED
  BY <1>8 DEF AfterSend, a, d

\* An acknowledgement takes out messages, never puts one in.
LEMMA DisposeTakesOut ==
    ASSUME NEW c \in Client, NEW seq, NEW chan
    PROVE  LET d == Dispose(c, seq, chan)
           IN  /\ d \in Client
               /\ d.state = c.state /\ d.open = c.open /\ d.bound = c.bound
               /\ d.ctlSeq = c.ctlSeq /\ d.relSeq = c.relSeq
               /\ d.sent = c.sent \ Disposed(c, seq, chan) /\ d.outR = c.outR
               /\ Pending(d) \subseteq Pending(c)
               /\ DistinctNumbers(c) => DistinctNumbers(d)
               /\ Counted(c) => Counted(d)
<1> DEFINE d == Dispose(c, seq, chan)
<1>1. /\ d \in Client
      /\ d.state = c.state /\ d.open = c.open /\ d.bound = c.bound
      /\ d.sent = c.sent \ Disposed(c, seq, chan) /\ d.outR = c.outR
      /\ d.ctlSeq = c.ctlSeq /\ d.relSeq = c.relSeq
  BY DEF Dispose, Client
<1> HIDE DEF d
<1>2. Pending(d) \subseteq Pending(c)
  BY <1>1 DEF Pending
<1>3. /\ DistinctNumbers(c) => DistinctNumbers(d)
      /\ Counted(c) => Counted(d)
  BY <1>1, <1>2 DEF DistinctNumbers, QueuedOnce, Counted, CounterOf
<1> QED
  BY <1>1, <1>2, <1>3 DEF d

\* Queueing an acknowledgement leaves the pending messages alone.
LEMMA AcknowledgeSound ==
    ASSUME NEW c, Sound(c), NEW m \in Message, NEW d, NEW a \in Acknowledge(c, m, d)
    PROVE  Sound(a)
<1>1. CASE a = c
  BY <1>1
<1>2. CASE a # c
  <2> DEFINE k == [type |-> m.type, chan |-> m.chan, seq |-> m.seq]
  <2>1. a = [c EXCEPT !.acks = Append(c.acks, k)]
    BY <1>2 DEF Acknowledge, QueueAck
  <2>2. k \in Ack
    BY DEF Ack, Message
  <2>3. c \in Client /\ c.acks \in Seq(Ack)
    BY DEF Sound, Client
  <2>4. Append(c.acks, k) \in Seq(Ack)
    BY <2>2, <2>3, AppendProperties
  <2> HIDE DEF k
  <2>5. /\ a \in Client /\ a.state = c.state /\ a.open = c.open /\ a.bound = c.bound
        /\ a.sent = c.sent /\ a.outR = c.outR
        /\ a.ctlSeq = c.ctlSeq /\ a.relSeq = c.relSeq
    BY <2>1, <2>3, <2>4 DEF Client
  <2>6. Pending(a) = Pending(c)
    BY <2>5 DEF Pending
  <2>7. HoldsItsMessage(a)
    BY <2>5, <2>6 DEF Sound, HoldsItsMessage, WaitsFor
  <2>8. QueuedOnce(a)
    BY <2>5 DEF Sound, DistinctNumbers, QueuedOnce
  <2> QED
    BY <2>5, <2>6, <2>7, <2>8, FewerPending
<1> QED
  BY <1>1, <1>2

\* Notifications end the wait in a state the discipline asks nothing of.
LEMMA NotifySound ==
    ASSUME NEW c \in Client, NEW s \in BOOLEAN, DistinctNumbers(c), Counted(c)
    PROVE  Sound(NotifyConnect(c, s)) /\ Sound(NotifyDisconnect(c, s))
<1> DEFINE st == IF s THEN "CONNECTED"
                 ELSE IF c.state = "CONNECTING" THEN "CONNECTION_SUCCEEDED"
                 ELSE "CONNECTION_PENDING"
           d == [c EXCEPT !.state = st]
           z == [c EXCEPT !.state = "ZOMBIE"]
<1>1. st \in States /\ st \in Unrestricted /\ "ZOMBIE" \in States /\ "ZOMBIE" \in Unrestricted
  BY DEF States, Unrestricted
<1> HIDE DEF st
<1>2. d \in Client /\ d.state = st /\ DistinctNumbers(d) /\ Counted(d)
  BY <1>1, WithState
<1>3. z \in Client /\ z.state = "ZOMBIE" /\ DistinctNumbers(z) /\ Counted(z)
  BY <1>1, WithState
<1> HIDE DEF d, z
<1>4. Sound(d) /\ Sound(z)
  BY <1>1, <1>2, <1>3, UnrestrictedHolds DEF Sound
<1>5. NotifyConnect(c, s) = d /\ NotifyDisconnect(c, s) \in {Blank, z}
  BY DEF NotifyConnect, NotifyDisconnect, d, z, st
<1> QED
  BY <1>4, <1>5, BlankSound

\* Dispatching an event connects a client, frees it, or takes one message.
LEMMA DispatchedSound ==
    ASSUME NEW c, Sound(c)
    PROVE  /\ Sound(Dispatched(c))
           /\ DispatchEvent(c) \in Events \union {"none"}
<1>1. c \in Client /\ c.inRel \in Nat /\ c.inQ \subseteq Nat
  BY DEF Sound, Client
<1> DEFINE u == [c EXCEPT !.state = "CONNECTED"]
           n == c.inRel + 1
           r == [c EXCEPT !.inRel = n, !.inQ = c.inQ \ {n}]
<1>2. Sound(u)
  <2>1. "CONNECTED" \in States /\ "CONNECTED" \in Unrestricted
    BY DEF States, Unrestricted
  <2>2. u \in Client /\ u.state = "CONNECTED" /\ DistinctNumbers(u) /\ Counted(u)
    BY <1>1, <2>1, WithState DEF Sound
  <2> HIDE DEF u
  <2> QED
    BY <2>1, <2>2, UnrestrictedHolds DEF Sound
<1>3. Sound(r)
  <2>0. n \in Nat /\ c.inQ \ {n} \in SUBSET Nat
    BY <1>1
  <2> HIDE DEF n
  <2>1. /\ r \in Client /\ r.state = c.state /\ r.open = c.open /\ r.bound = c.bound
        /\ r.sent = c.sent /\ r.outR = c.outR
        /\ r.ctlSeq = c.ctlSeq /\ r.relSeq = c.relSeq
    BY <1>1, <2>0 DEF Client
  <2> HIDE DEF r
  <2>2. Pending(r) = Pending(c)
    BY <2>1 DEF Pending
  <2>3. HoldsItsMessage(r)
    BY <2>1, <2>2 DEF Sound, HoldsItsMessage, WaitsFor
  <2>4. QueuedOnce(r)
    BY <2>1 DEF Sound, DistinctNumbers, QueuedOnce
  <2> QED
    BY <2>1, <2>2, <2>3, <2>4, FewerPending
<1>4. Dispatched(c) \in {u, Blank, r, c}
  BY DEF Dispatched
<1>5. DispatchEvent(c) \in Events \union {"none"}
  BY DEF DispatchEvent, Events
<1> QED
  BY <1>2, <1>3, <1>4, <1>5, BlankSound
-----------------------------------------------------------------------------
(* Parts of an action.                                                     *)

\* The inductive invariant: types, and every client sound.
IInv == TypeOK /\ \A h \in Hosts : Sound(client[h])

\* Replacing one client by a sound one leaves all clients sound.
LEMMA ClientStep ==
    ASSUME IInv, NEW h \in Hosts, NEW c, Sound(c), client' = [client EXCEPT ![h] = c]
    PROVE  /\ client' \in [Hosts -> Client]
           /\ \A k \in Hosts : Sound(client'[k])
BY DEF IInv, TypeOK, Sound

\* The variables that belong to the poll under way have their types.
PollTyped ==
    /\ at \in [Hosts -> {"app", "receive"}]
    /\ rx \in [Hosts -> Datagram]
    /\ ev \in [Hosts -> Events \union {"none"}]
    /\ sink \in [Hosts -> BOOLEAN]
    /\ out \in [Hosts -> Results]
    /\ hung \in [Hosts -> BOOLEAN]
    /\ told \in [Hosts -> BOOLEAN]

\* A poll that returns leaves the poll's variables with their types.
LEMMA ReturnTyped ==
    ASSUME TypeOK, NEW h \in Hosts, NEW o \in Results, Return(h, o), UNCHANGED hung
    PROVE  PollTyped'
<1>1. NoDatagram \in Datagram
  <2>1. <<>> \in Seq(Message)
    OBVIOUS
  <2> QED
    BY <2>1 DEF NoDatagram, Datagram
<1>2. told' \in [Hosts -> BOOLEAN]
  <2> DEFINE b == client'[h].state # "DISCONNECTED" /\ (told[h] \/ o = "CONNECT")
  <2>1. told' = [told EXCEPT ![h] = b] /\ told \in [Hosts -> BOOLEAN]
    BY DEF Return, TypeOK
  <2>2. b \in BOOLEAN
    OBVIOUS
  <2> HIDE DEF b
  <2> QED
    BY <2>1, <2>2
<1>3. at' \in [Hosts -> {"app", "receive"}] /\ rx' \in [Hosts -> Datagram]
  BY <1>1 DEF Return, TypeOK
<1>4. /\ ev' \in [Hosts -> Events \union {"none"}] /\ sink' \in [Hosts -> BOOLEAN]
      /\ out' \in [Hosts -> Results] /\ hung' \in [Hosts -> BOOLEAN]
  BY DEF Return, TypeOK
<1> QED
  BY <1>2, <1>3, <1>4 DEF PollTyped

\* So does a call of the application.
LEMMA BecomeTyped ==
    ASSUME TypeOK, NEW h \in Hosts, NEW c, Become(h, c)
    PROVE  PollTyped'
<1> DEFINE b == told[h] /\ c.state # "DISCONNECTED"
<1>1. told' = [told EXCEPT ![h] = b] /\ told \in [Hosts -> BOOLEAN]
  BY DEF Become, TypeOK
<1>2. b \in BOOLEAN
  BY DEF TypeOK
<1> HIDE DEF b
<1>3. told' \in [Hosts -> BOOLEAN]
  BY <1>1, <1>2
<1> QED
  BY <1>3 DEF Become, TypeOK, PollTyped

\* What is left of a datagram is one.
LEMMA RestTyped ==
    ASSUME NEW d \in Datagram, d.msgs # <<>>
    PROVE  Rest(d) \in Datagram
<1>1. d.msgs \in Seq(Message)
  BY DEF Datagram
<1>2. Tail(d.msgs) \in Seq(Message) /\ <<>> \in Seq(Message)
  BY <1>1
<1>3. NoDatagram \in Datagram
  BY <1>2 DEF NoDatagram, Datagram
<1>4. [d EXCEPT !.msgs = Tail(d.msgs)] \in Datagram
  BY <1>2 DEF Datagram
<1> QED
  BY <1>3, <1>4 DEF Rest

\* And a handler that has dealt with a message.
LEMMA AdvanceTyped ==
    ASSUME TypeOK, NEW h \in Hosts, rx[h].msgs # <<>>,
           NEW e \in Events \union {"none"}, Advance(h, e)
    PROVE  PollTyped'
<1> DEFINE v == IF e = "none" THEN ev[h] ELSE e
<1>1. v \in Events \union {"none"}
  BY DEF TypeOK
<1>2. UNCHANGED hung
  BY DEF Advance
<1>3. CASE Len(rx[h].msgs) = 1 /\ v # "none"
  <2>1. Return(h, v) /\ v \in Results
    BY <1>1, <1>3 DEF Advance, Results
  <2> QED
    BY <2>1, <1>2, ReturnTyped
<1>4. CASE ~(Len(rx[h].msgs) = 1 /\ v # "none")
  <2> DEFINE d == Rest(rx[h])
             b == told[h] /\ client'[h].state # "DISCONNECTED"
  <2>1. /\ rx' = [rx EXCEPT ![h] = d]
        /\ ev' = [ev EXCEPT ![h] = v]
        /\ told' = [told EXCEPT ![h] = b]
        /\ UNCHANGED <<at, sink, out>>
    BY <1>4 DEF Advance
  <2>2. d \in Datagram
    BY RestTyped DEF TypeOK
  <2>3. b \in BOOLEAN
    BY DEF TypeOK
  <2> HIDE DEF d, b, v
  <2>4. told' \in [Hosts -> BOOLEAN]
    BY <2>1, <2>3 DEF TypeOK
  <2> QED
    BY <2>1, <2>2, <2>4, <1>1, <1>2 DEF TypeOK, PollTyped
<1> QED
  BY <1>3, <1>4

\* What goes out in a datagram is made of messages of the client.
LEMMA AckMessagesTyped ==
    ASSUME NEW c \in Client, NEW t \in Seq(Header)
    PROVE  AckMessages(c, t) \in Seq(Message)
<1>1. c.acks \in Seq(Ack)
  BY DEF Client
<1>2. DOMAIN c.acks = 1..Len(c.acks) /\ Len(c.acks) \in Nat /\ DOMAIN t = 1..Len(t)
  BY <1>1
<1>3. \A i \in 1..Len(c.acks) : c.acks[i] \in Ack
  BY <1>1
<1>4. \A i \in DOMAIN t : t[i] \in Header
  OBVIOUS
<1>5. \A i \in 1..Len(c.acks) : AckMessages(c, t)[i] \in Message
  BY <1>2, <1>3, <1>4 DEF AckMessages, Message, Ack, Header, MessageTypes, Flags
<1>6. AckMessages(c, t) \in [1..Len(c.acks) -> Message]
  BY <1>2, <1>5 DEF AckMessages
<1> QED
  BY <1>2, <1>6

\* What a datagram leaves in messages[] are headers.
LEMMA OverwriteTyped ==
    ASSUME NEW t \in Seq(Header), NEW msgs \in Seq(Message)
    PROVE  Overwrite(t, msgs) \in Seq(Header)
<1> DEFINE n == IF Len(t) < Len(msgs) THEN Len(msgs) ELSE Len(t)
<1>1. n \in Nat /\ DOMAIN msgs = 1..Len(msgs) /\ DOMAIN t = 1..Len(t)
  OBVIOUS
<1>2. \A i \in DOMAIN msgs : msgs[i] \in Message
  OBVIOUS
<1>3. \A i \in 1..n : (i \in DOMAIN msgs) \/ (i \in DOMAIN t /\ t[i] \in Header)
  OBVIOUS
<1>4. \A i \in 1..n : Overwrite(t, msgs)[i] \in Header
  BY <1>2, <1>3 DEF Overwrite, Message, Header
<1>5. Overwrite(t, msgs) \in [1..n -> Header]
  BY <1>4 DEF Overwrite
<1> QED
  BY <1>1, <1>5

\* Any choice of expired messages is a sequence of messages.
LEMMA ResendsTyped ==
    ASSUME NEW c \in Client, NEW r \in Resends(c)
    PROVE  r \in Seq(Message)
<1>1. PICK n \in 0..Cardinality(c.sent) : r \in Injection(1..n, c.sent)
  BY DEF Resends
<1>2. n \in Nat
  OBVIOUS
<1>3. r \in [1..n -> c.sent] /\ c.sent \subseteq Message
  BY <1>1 DEF Injection, Client
<1>4. r \in [1..n -> Message]
  BY <1>3
<1> QED
  BY <1>2, <1>4

\* The network holds datagrams, whether a new one fits or is lost.
LEMMA PutTyped ==
    ASSUME net \subseteq Datagram, NEW d \in Datagram
    PROVE  Put(d) \subseteq Datagram
BY DEF Put

\* Sending keeps the types of the network and of messages[].
LEMMA TransmitTyped ==
    ASSUME TypeOK, NEW h \in Hosts, NEW c \in Client, NEW r \in Seq(Message), Transmit(h, c, r)
    PROVE  tmpl' \in [Hosts -> Seq(Header)] /\ net' \subseteq Datagram
<1> DEFINE msgs == AckMessages(c, tmpl[h]) \o r \o c.outR
           d == DatagramOf(h, c, r \o c.outR # <<>>, msgs)
<1>1. tmpl[h] \in Seq(Header) /\ c.outR \in Seq(Message)
  BY DEF TypeOK, Client
<1>2. AckMessages(c, tmpl[h]) \in Seq(Message)
  BY <1>1, AckMessagesTyped
<1>3. msgs \in Seq(Message)
  BY <1>1, <1>2
<1>4. CASE Silent(c) \/ msgs = <<>>
  <2>1. UNCHANGED <<tmpl, net>>
    BY <1>4 DEF Transmit
  <2> QED
    BY <2>1 DEF TypeOK
<1>5. CASE ~(Silent(c) \/ msgs = <<>>)
  <2>1. tmpl' = [tmpl EXCEPT ![h] = Overwrite(tmpl[h], msgs)] /\ net' = Put(d)
    BY <1>5 DEF Transmit
  <2> HIDE DEF msgs
  <2>2. Overwrite(tmpl[h], msgs) \in Seq(Header)
    BY <1>1, <1>3, OverwriteTyped
  <2>3. d \in Datagram
    BY <1>3 DEF DatagramOf, Datagram, Client
  <2> HIDE DEF d
  <2> QED
    BY <2>1, <2>2, <2>3, PutTyped DEF TypeOK
<1> QED
  BY <1>4, <1>5

\* So does the DISCONNECT of a client that closes without waiting.
LEMMA FarewellTyped ==
    ASSUME TypeOK, NEW h \in Hosts, Farewell(h)
    PROVE  tmpl' \in [Hosts -> Seq(Header)] /\ net' \subseteq Datagram
<1> DEFINE c == client[h]
           m == [type |-> "DISCONNECT", chan |-> "control", flag |-> "unseq",
                 seq |-> c.ctlSeq + 1, arg |-> 0]
           d == DatagramOf(h, c, FALSE, <<m>>)
<1>1. c \in Client /\ tmpl[h] \in Seq(Header)
  BY DEF TypeOK
<1>2. tmpl' = [tmpl EXCEPT ![h] = Overwrite(tmpl[h], <<m>>)] /\ net' = Put(d)
  BY DEF Farewell
<1>3. m \in Message
  BY <1>1 DEF Message, MessageTypes, Channels, Flags, Client
<1> HIDE DEF m
<1>4. <<m>> \in Seq(Message)
  BY <1>3
<1>5. d \in Datagram
  BY <1>1, <1>4 DEF DatagramOf, Datagram, Client
<1>6. Overwrite(tmpl[h], <<m>>) \in Seq(Header)
  BY <1>1, <1>4, OverwriteTyped
<1> HIDE DEF d
<1> QED
  BY <1>2, <1>5, <1>6, PutTyped DEF TypeOK

\* The throttle queues a message for a connected client, or does nothing.
LEMMA ThrottledSound ==
    ASSUME IInv, NEW h \in Hosts, NEW t \in Throttled(h)
    PROVE  Sound(t[1]) /\ t[2] \in BOOLEAN
<1> DEFINE c == client[h]
           q == QueueOut(c, "PING", "control")
<1>1. Sound(c) /\ reconf[h] \in BOOLEAN
  BY DEF IInv, TypeOK
<1>2. CASE t = <<c, reconf[h]>>
  BY <1>1, <1>2
<1>3. CASE t = <<q, FALSE>> /\ Connected(c)
  <2>1. "PING" \in MessageTypes /\ "control" \in Channels
    BY DEF MessageTypes, Channels
  <2>2. /\ q \in Client /\ DistinctNumbers(q) /\ Counted(q) /\ q.state = c.state
        /\ Pending(q) = Pending(c) \union {Numbered(c, "PING", "control")}
    BY <1>1, <2>1, QueueOutAdds DEF Sound
  <2>3. HoldsItsMessage(q)
    BY <1>3, <2>2 DEF HoldsItsMessage, Connected
  <2> QED
    BY <1>3, <2>2, <2>3 DEF Sound
<1> QED
  BY <1>2, <1>3 DEF Throttled
-----------------------------------------------------------------------------
(* Calls of the application.                                               *)

\* What is left of the invariant once the clients are dealt with.
LEMMA Assemble ==
    ASSUME client' \in [Hosts -> Client], \A k \in Hosts : Sound(client'[k]), PollTyped',
           reconf' \in [Hosts -> BOOLEAN], tmpl' \in [Hosts -> Seq(Header)],
           net' \subseteq Datagram, calls' \in [Hosts -> Nat], log' \subseteq HandshakeStep
    PROVE  IInv'
BY DEF IInv, TypeOK, PollTyped

\* A call that makes the client c, a sound one.
LEMMA BecomeKeeps ==
    ASSUME IInv, NEW h \in Hosts, NEW c, Sound(c), Become(h, c), UNCHANGED reconf,
           tmpl' \in [Hosts -> Seq(Header)], net' \subseteq Datagram,
           calls' \in [Hosts -> Nat], log' \subseteq HandshakeStep
    PROVE  IInv'
<1>1. client' = [client EXCEPT ![h] = c]
  BY DEF Become
<1>2. client' \in [Hosts -> Client] /\ \A k \in Hosts : Sound(client'[k])
  BY <1>1, ClientStep
<1>3. PollTyped'
  BY BecomeTyped DEF IInv
<1>4. reconf' \in [Hosts -> BOOLEAN]
  BY DEF IInv, TypeOK
<1> QED
  BY <1>2, <1>3, <1>4, Assemble

\* connect() makes a sound client out of a free slot.
LEMMA ConnectKeeps ==
    ASSUME IInv, NEW h \in Hosts, Connect(h)
    PROVE  IInv'
<1>1. PICK p \in Hosts \ {h} :
        LET s == Sessions[h][calls[h] + 1]
            c == [client[h] EXCEPT !.state = "CONNECTING", !.peer = p,
                                   !.open = TRUE, !.session = s]
        IN  /\ Become(h, QueueOut(c, "CONNECT", "control"))
            /\ log' = log \union {[phase |-> "offered", from |-> h, to |-> p, session |-> s]}
  BY DEF Connect
<1> DEFINE s == Sessions[h][calls[h] + 1]
           o == client[h]
           c == [o EXCEPT !.state = "CONNECTING", !.peer = p, !.open = TRUE, !.session = s]
           q == QueueOut(c, "CONNECT", "control")
<1>2. s \in Nat
  <2>1. calls[h] \in Nat /\ calls[h] < Len(Sessions[h])
    BY DEF IInv, TypeOK, Connect
  <2>2. Sessions[h] \in Seq(Nat)
    BY SessionsAssumption
  <2> QED
    BY <2>1, <2>2
<1> HIDE DEF s
<1>3. Sound(o) /\ o \in Client /\ o.state = "DISCONNECTED"
  BY DEF IInv, Sound, Connect
<1> HIDE DEF o
<1>4. /\ c \in Client /\ c.state = "CONNECTING"
      /\ c.sent = o.sent /\ c.outR = o.outR /\ c.ctlSeq = o.ctlSeq /\ c.relSeq = o.relSeq
  BY <1>2, <1>3 DEF Client, States
<1>5. DistinctNumbers(c) /\ Counted(c)
  BY <1>3, <1>4 DEF Sound, DistinctNumbers, QueuedOnce, Counted, CounterOf, Pending
<1> HIDE DEF c
<1>6. "CONNECT" \in MessageTypes /\ "control" \in Channels
  BY DEF MessageTypes, Channels
<1>7. q \in Client /\ DistinctNumbers(q) /\ Counted(q) /\ q.state = "CONNECTING"
  BY <1>4, <1>5, <1>6, QueueOutAdds
<1>8. Sound(q)
  <2>1. q.state \in Unrestricted
    BY <1>7 DEF Unrestricted
  <2> HIDE DEF q
  <2> QED
    BY <1>7, <2>1, UnrestrictedHolds DEF Sound
<1>9. /\ Become(h, q)
      /\ log' = log \union {[phase |-> "offered", from |-> h, to |-> p, session |-> s]}
  BY <1>1 DEF q, c, o, s
<1>10. log' \subseteq HandshakeStep
  BY <1>2, <1>9 DEF IInv, TypeOK, HandshakeStep
<1>11. /\ calls' \in [Hosts -> Nat] /\ UNCHANGED <<reconf, tmpl, net>>
       /\ tmpl' \in [Hosts -> Seq(Header)] /\ net' \subseteq Datagram
  BY DEF Connect, IInv, TypeOK
<1> HIDE DEF q
<1> QED
  BY <1>8, <1>9, <1>10, <1>11, BecomeKeeps

\* A connected client may queue a message.
LEMMA QueueWhileConnected ==
    ASSUME NEW c, Sound(c), c.state = "CONNECTED",
           NEW type \in MessageTypes, NEW chan \in Channels
    PROVE  Sound(QueueOut(c, type, chan))
<1> DEFINE q == QueueOut(c, type, chan)
<1>1. q \in Client /\ DistinctNumbers(q) /\ Counted(q) /\ q.state = "CONNECTED"
  BY QueueOutAdds DEF Sound
<1> HIDE DEF q
<1>2. HoldsItsMessage(q)
  BY <1>1, UnrestrictedHolds DEF Unrestricted
<1> QED
  BY <1>1, <1>2 DEF Sound, q

\* A configuration that changes leaves what is pending alone.
LEMMA WithThrottle ==
    ASSUME NEW c, Sound(c), NEW v \in Nat
    PROVE  LET d == [c EXCEPT !.throttle = v]
           IN  Sound(d) /\ d.state = c.state /\ Pending(d) = Pending(c)
<1> DEFINE d == [c EXCEPT !.throttle = v]
<1>1. /\ d \in Client /\ d.state = c.state
      /\ d.open = c.open /\ d.bound = c.bound
      /\ d.sent = c.sent /\ d.outR = c.outR
      /\ d.ctlSeq = c.ctlSeq /\ d.relSeq = c.relSeq
  BY DEF Sound, Client
<1> HIDE DEF d
<1>2. Pending(d) = Pending(c)
  BY <1>1 DEF Pending
<1>3. HoldsItsMessage(d) /\ QueuedOnce(d)
  BY <1>1, <1>2 DEF Sound, HoldsItsMessage, WaitsFor, DistinctNumbers, QueuedOnce
<1>4. Sound(d)
  BY <1>1, <1>2, <1>3, FewerPending
<1> QED
  BY <1>1, <1>2, <1>4 DEF d

\* A client in any state but DISCONNECTED may queue CONFIGURE_THROTTLE: what it
\* waits for stays pending beside it.
LEMMA QueueConfiguration ==
    ASSUME NEW c, Sound(c), c.state # "DISCONNECTED"
    PROVE  Sound(QueueOut(c, "CONFIGURE_THROTTLE", "control"))
<1> DEFINE q == QueueOut(c, "CONFIGURE_THROTTLE", "control")
           m == Numbered(c, "CONFIGURE_THROTTLE", "control")
<1>1. "CONFIGURE_THROTTLE" \in MessageTypes /\ "control" \in Channels
  BY DEF MessageTypes, Channels
<1>2. /\ q \in Client /\ DistinctNumbers(q) /\ Counted(q) /\ q.state = c.state
      /\ Pending(q) = Pending(c) \union {m}
  BY <1>1, QueueOutAdds DEF Sound
<1>3. m.type = "CONFIGURE_THROTTLE"
  BY DEF Numbered
<1> HIDE DEF q, m
<1>4. \A t : WaitsFor(c, t) => WaitsFor(q, t)
  BY <1>2 DEF WaitsFor
<1>5. HoldsItsMessage(q)
  BY <1>2, <1>3, <1>4 DEF Sound, HoldsItsMessage
<1> QED
  BY <1>2, <1>5 DEF Sound, q

\* The close functions of a client.
LEMMA CloseKeeps ==
    ASSUME IInv, NEW h \in Hosts, Close(h)
    PROVE  IInv'
<1>1. /\ client[h] \in Client /\ UNCHANGED <<reconf, calls, log>>
      /\ calls' \in [Hosts -> Nat] /\ log' \subseteq HandshakeStep
  BY DEF IInv, TypeOK, Close
<1>2. tmpl' \in [Hosts -> Seq(Header)] /\ net' \subseteq Datagram
  BY FarewellTyped DEF IInv, TypeOK, Close
<1>3. PICK c \in {CloseConnected(client[h]), Blank} : Become(h, c)
  BY DEF Close
<1>4. Sound(c)
  BY <1>1, <1>3, CloseConnectedSound, BlankSound
<1> QED
  BY <1>1, <1>2, <1>3, <1>4, BecomeKeeps

\* No call of the application breaks the invariant.
LEMMA ApplicationKeeps ==
    ASSUME IInv, NEW h \in Hosts, Application(h)
    PROVE  IInv'
<1> DEFINE c == client[h]
<1>1. /\ Sound(c) /\ c \in Client /\ tmpl \in [Hosts -> Seq(Header)] /\ net \subseteq Datagram
      /\ calls \in [Hosts -> Nat] /\ log \subseteq HandshakeStep
  BY DEF IInv, TypeOK, Sound
<1>2. {"PING", "RELIABLE_DATA"} \subseteq MessageTypes /\ {"control", "data"} \subseteq Channels
  BY DEF MessageTypes, Channels
<1>3. CASE Connect(h)
  BY <1>3, ConnectKeeps
<1>4. CASE Ping(h)
  <2>1. Sound(QueueOut(c, "PING", "control"))
    BY <1>1, <1>2, <1>4, QueueWhileConnected DEF Ping
  <2> QED
    BY <1>1, <1>4, <2>1, BecomeKeeps DEF Ping
<1>5. CASE SendData(h)
  <2>1. Sound(QueueOut(c, "RELIABLE_DATA", "data"))
    BY <1>1, <1>2, <1>5, QueueWhileConnected DEF SendData
  <2> QED
    BY <1>1, <1>5, <2>1, BecomeKeeps DEF SendData
<1>6. CASE Flush(h)
  <2>1. Sound(AfterSend(c))
    BY <1>1, AfterSendSound
  <2>2. tmpl' \in [Hosts -> Seq(Header)] /\ net' \subseteq Datagram
    <3>1. <<>> \in Seq(Message) /\ Transmit(h, c, <<>>)
      BY <1>6 DEF Flush
    <3> QED
      BY <1>1, <3>1, TransmitTyped DEF IInv
  <2> QED
    BY <1>1, <1>6, <2>1, <2>2, BecomeKeeps DEF Flush
<1>7. CASE CloseGracefully(h)
  BY <1>7, CloseKeeps DEF CloseGracefully
<1>8. CASE CloseLater(h)
  <2>1. CASE Connected(c) /\ ~Drained(c)
    <3> DEFINE d == [c EXCEPT !.state = "DELAYING_DISCONNECT"]
    <3>1. "DELAYING_DISCONNECT" \in States
      BY DEF States
    <3>2. /\ d \in Client /\ d.state = "DELAYING_DISCONNECT" /\ Pending(d) = Pending(c)
          /\ DistinctNumbers(d) /\ Counted(d)
      BY <1>1, <3>1, WithState DEF Sound
    <3>3. Pending(c) # {}
      <4>1. c.outR \in Seq(Message) /\ (c.outR # <<>> \/ c.sent # {})
        BY <1>1, <2>1 DEF Drained, Client
      <4> QED
        BY <4>1, NonEmptyRange DEF Pending
    <3> HIDE DEF d
    <3>4. Sound(d)
      BY <3>2, <3>3 DEF Sound, HoldsItsMessage
    <3>5. Become(h, d) /\ UNCHANGED <<reconf, tmpl, net, calls, log>>
      BY <1>8, <2>1 DEF CloseLater, d
    <3> QED
      BY <1>1, <3>4, <3>5, BecomeKeeps
  <2>2. CASE ~(Connected(c) /\ ~Drained(c))
    BY <1>8, <2>2, CloseKeeps DEF CloseLater
  <2> QED
    BY <2>1, <2>2
<1>9. CASE CloseNow(h)
  <2>1. tmpl' \in [Hosts -> Seq(Header)] /\ net' \subseteq Datagram
    BY <1>1, <1>9, FarewellTyped DEF IInv, CloseNow
  <2> QED
    BY <1>1, <1>9, <2>1, BlankSound, BecomeKeeps DEF CloseNow
<1>10. CASE DestroyClient(h)
  BY <1>1, <1>10, BlankSound, BecomeKeeps DEF DestroyClient
<1>11. CASE SetThrottle(h)
  <2>1. PICK v \in Configurations :
          Become(h, QueueOut([c EXCEPT !.throttle = v], "CONFIGURE_THROTTLE", "control"))
    BY <1>11 DEF SetThrottle
  <2> DEFINE d == [c EXCEPT !.throttle = v]
  <2>2. Sound(d) /\ d.state # "DISCONNECTED"
    BY <1>1, <1>11, ConfigurationsAssumption, WithThrottle DEF SetThrottle
  <2> HIDE DEF d
  <2>3. Sound(QueueOut(d, "CONFIGURE_THROTTLE", "control"))
    BY <2>2, QueueConfiguration
  <2>4. Become(h, QueueOut(d, "CONFIGURE_THROTTLE", "control"))
    BY <2>1 DEF d
  <2> QED
    BY <1>1, <1>11, <2>3, <2>4, BecomeKeeps DEF SetThrottle
<1> QED
  BY <1>3, <1>4, <1>5, <1>6, <1>7, <1>8, <1>9, <1>10, <1>11 DEF Application
-----------------------------------------------------------------------------
(* Handlers.                                                               *)

\* The message under processing is one.
LEMMA HeadTyped ==
    ASSUME TypeOK, NEW h \in Hosts, rx[h].msgs # <<>>
    PROVE  Head(rx[h].msgs) \in Message /\ rx[h] \in Datagram
<1>1. rx[h] \in Datagram /\ rx[h].msgs \in Seq(Message)
  BY DEF TypeOK, Datagram
<1> QED
  BY <1>1

\* What the handlers have in common, whether they return 0, 1 or -1.
HandlerKeeps ==
    /\ client' \in [Hosts -> Client]
    /\ \A k \in Hosts : Sound(client'[k])
    /\ PollTyped'
    /\ UNCHANGED <<tmpl, net, calls>>

\* A handler that discards a message.
LEMMA DiscardedKeeps ==
    ASSUME IInv, NEW h \in Hosts, rx[h].msgs # <<>>, NEW c, Sound(c), Discarded(h, c)
    PROVE  HandlerKeeps
<1>1. client' = [client EXCEPT ![h] = c] /\ Advance(h, "none")
  BY DEF Discarded
<1>2. PollTyped'
  BY <1>1, AdvanceTyped DEF IInv
<1> QED
  BY <1>1, <1>2, ClientStep DEF HandlerKeeps, Advance

\* A handler that fails.
LEMMA FailedKeeps ==
    ASSUME IInv, NEW h \in Hosts, rx[h].msgs # <<>>, NEW c, Sound(c), Failed(h, c)
    PROVE  HandlerKeeps
<1>1. client' = [client EXCEPT ![h] = c] /\ Return(h, "error") /\ "error" \in Results
  BY DEF Failed, Results
<1>2. PollTyped'
  BY <1>1, ReturnTyped DEF IInv, Failed
<1> QED
  BY <1>1, <1>2, ClientStep DEF HandlerKeeps, Failed

\* A handler that succeeds, and has its message acknowledged.
LEMMA HandledKeeps ==
    ASSUME IInv, NEW h \in Hosts, rx[h].msgs # <<>>, NEW c, Sound(c),
           NEW e \in Events \union {"none"}, Handled(h, c, e)
    PROVE  HandlerKeeps
<1>1. Head(rx[h].msgs) \in Message
  BY HeadTyped DEF IInv
<1>2. PICK a \in Acknowledge(c, Head(rx[h].msgs), rx[h]) : client' = [client EXCEPT ![h] = a]
  BY DEF Handled
<1>3. Sound(a)
  BY <1>1, <1>2, AcknowledgeSound
<1>4. Advance(h, e)
  BY DEF Handled
<1>5. PollTyped'
  BY <1>4, AdvanceTyped DEF IInv
<1> QED
  BY <1>2, <1>3, <1>4, <1>5, ClientStep DEF HandlerKeeps, Advance

\* The rest of the invariant after a handler.
LEMMA HandlerAssemble ==
    ASSUME IInv, HandlerKeeps, reconf' \in [Hosts -> BOOLEAN], log' \subseteq HandshakeStep
    PROVE  IInv'
BY Assemble DEF HandlerKeeps, IInv, TypeOK

\* on_connect_message: a session is accepted by a slot with nothing pending.
LEMMA HandleConnectKeeps ==
    ASSUME IInv, NEW h \in Hosts, HandleConnect(h)
    PROVE  IInv'
<1> DEFINE c == client[h]
           d == rx[h]
           a == [c EXCEPT !.state = "ACKNOWLEDGING_CONNECT", !.peer = d.src,
                          !.bound = TRUE, !.open = TRUE, !.session = d.session,
                          !.throttle = Head(d.msgs).arg]
           q == QueueOut(a, "VALIDATE_CONNECT", "control")
           m == Numbered(a, "VALIDATE_CONNECT", "control")
<1>1. /\ Sound(c) /\ c \in Client /\ rx[h].msgs # <<>> /\ d \in Datagram
      /\ Head(d.msgs).arg \in Nat
      /\ reconf' \in [Hosts -> BOOLEAN] /\ log \subseteq HandshakeStep
  BY HeadTyped DEF IInv, TypeOK, Sound, HandleConnect, Handling, Message
<1>2. CASE c.state # "DISCONNECTED" /\ ~Orphaned(d)
  <2>1. Discarded(h, c) /\ log' = log
    BY <1>2, Zenon DEF HandleConnect
  <2> QED
    BY <1>1, <2>1, DiscardedKeeps, HandlerAssemble
<1>3. CASE c.state # "DISCONNECTED" /\ Orphaned(d)
  <2>1. /\ hung' = [hung EXCEPT ![h] = TRUE]
        /\ rx' = [rx EXCEPT ![h] = Rest(d)]
        /\ UNCHANGED <<client, tmpl, at, ev, sink, out, told, net, calls, log>>
    BY <1>3, Zenon DEF HandleConnect
  <2>2. Rest(d) \in Datagram
    BY <1>1, RestTyped
  <2>3. PollTyped'
    BY <2>1, <2>2 DEF PollTyped, IInv, TypeOK
  <2> QED
    BY <1>1, <2>1, <2>3, Assemble DEF IInv, TypeOK
<1>4. CASE c.state = "DISCONNECTED"
  <2>1. /\ Handled(h, q, "none")
        /\ log' = log \union {[phase |-> "accepted", from |-> d.src, to |-> h,
                               session |-> d.session]}
    BY <1>4, Zenon DEF HandleConnect
  <2>2. /\ a \in Client /\ a.state = "ACKNOWLEDGING_CONNECT"
        /\ a.sent = c.sent /\ a.outR = c.outR
        /\ a.ctlSeq = c.ctlSeq /\ a.relSeq = c.relSeq
    BY <1>1 DEF Client, Datagram, States
  <2> HIDE DEF a
  <2>3. DistinctNumbers(a) /\ Counted(a) /\ Pending(a) = {}
    BY <1>1, <1>4, <2>2
       DEF Sound, HoldsItsMessage, DistinctNumbers, QueuedOnce, Counted, CounterOf, Pending
  <2>4. "VALIDATE_CONNECT" \in MessageTypes /\ "control" \in Channels
    BY DEF MessageTypes, Channels
  <2>5. /\ q \in Client /\ DistinctNumbers(q) /\ Counted(q) /\ Pending(q) = Pending(a) \union {m}
        /\ q.state = "ACKNOWLEDGING_CONNECT"
    BY <2>2, <2>3, <2>4, QueueOutAdds
  <2>6. m.type = "VALIDATE_CONNECT"
    BY DEF Numbered
  <2> HIDE DEF q, m
  <2>7. Sound(q)
    BY <2>3, <2>5, <2>6 DEF Sound, HoldsItsMessage, WaitsFor
  <2>8. HandlerKeeps
    BY <1>1, <2>1, <2>7, HandledKeeps
  <2>9. log' \subseteq HandshakeStep
    BY <1>1, <2>1 DEF HandshakeStep, Datagram
  <2> QED
    BY <1>1, <2>8, <2>9, HandlerAssemble
<1> QED
  BY <1>2, <1>3, <1>4

\* on_validate_connect_message: CONNECT is taken out, the client is connected, or
\* it is given up for a configuration that is not the one it went out with.
LEMMA HandleValidateConnectKeeps ==
    ASSUME IInv, NEW h \in Hosts, HandleValidateConnect(h)
    PROVE  IInv'
<1> DEFINE c == client[h]
           d == Dispose(c, 1, "control")
           b == [d EXCEPT !.bound = TRUE]
           n == NotifyConnect(b, sink[h])
           e == Announced(h, "CONNECT")
<1>1. /\ Sound(c) /\ c \in Client /\ rx[h].msgs # <<>> /\ sink[h] \in BOOLEAN
      /\ reconf \in [Hosts -> BOOLEAN] /\ log \subseteq HandshakeStep
  BY DEF IInv, TypeOK, Sound, HandleValidateConnect, Handling
<1>2. CASE c.state # "CONNECTING"
  <2>1. Discarded(h, c) /\ UNCHANGED <<reconf, log>>
    BY <1>2 DEF HandleValidateConnect
  <2> QED
    BY <1>1, <2>1, DiscardedKeeps, HandlerAssemble
<1>4. CASE c.state = "CONNECTING" /\ Head(rx[h].msgs).arg # c.throttle
  <2> DEFINE z == [c EXCEPT !.state = "ZOMBIE"]
  <2>1. Discarded(h, z) /\ UNCHANGED <<reconf, log>>
    BY <1>4, Zenon DEF HandleValidateConnect
  <2>2. "ZOMBIE" \in States /\ "ZOMBIE" \in Unrestricted
    BY DEF States, Unrestricted
  <2>3. z \in Client /\ z.state = "ZOMBIE" /\ DistinctNumbers(z) /\ Counted(z)
    BY <1>1, <2>2, WithState DEF Sound
  <2> HIDE DEF z
  <2>4. Sound(z)
    BY <2>2, <2>3, UnrestrictedHolds DEF Sound
  <2> QED
    BY <1>1, <2>1, <2>4, DiscardedKeeps, HandlerAssemble
<1>3. CASE c.state = "CONNECTING" /\ Head(rx[h].msgs).arg = c.throttle
  <2>1. /\ Handled(h, n, e)
        /\ reconf' = [reconf EXCEPT ![h] = TRUE]
        /\ log' = log \union {[phase |-> "validated", from |-> h, to |-> c.peer,
                               session |-> c.session]}
    BY <1>3, Zenon DEF HandleValidateConnect
  <2>2. d \in Client /\ DistinctNumbers(d) /\ Counted(d)
    BY <1>1, DisposeTakesOut DEF Sound
  <2> HIDE DEF d
  <2>3. /\ b \in Client /\ b.sent = d.sent /\ b.outR = d.outR
        /\ b.ctlSeq = d.ctlSeq /\ b.relSeq = d.relSeq
    BY <2>2 DEF Client
  <2>4. DistinctNumbers(b) /\ Counted(b)
    BY <2>2, <2>3 DEF DistinctNumbers, QueuedOnce, Counted, CounterOf, Pending
  <2> HIDE DEF b
  <2>5. Sound(n)
    BY <1>1, <2>3, <2>4, NotifySound
  <2>6. e \in Events \union {"none"}
    BY DEF Announced, Events
  <2> HIDE DEF n, e
  <2>7. HandlerKeeps
    BY <1>1, <2>1, <2>5, <2>6, HandledKeeps
  <2>8. log' \subseteq HandshakeStep
    BY <1>1, <2>1 DEF HandshakeStep, Client
  <2> QED
    BY <1>1, <2>1, <2>7, <2>8, HandlerAssemble
<1> QED
  BY <1>2, <1>3, <1>4

\* An acknowledgement of something else leaves the message waited for pending.
LEMMA NothingDisposed ==
    ASSUME NEW c, Sound(c), NEW t, WaitsFor(c, t), NEW seq, NEW chan,
           \/ c.state = "ACKNOWLEDGING_CONNECT" /\ t = "VALIDATE_CONNECT"
           \/ c.state = "DISCONNECTING" /\ t = "DISCONNECT",
           ~\E a \in Disposed(c, seq, chan) : a.type = t
    PROVE  Sound(Dispose(c, seq, chan))
<1> DEFINE d == Dispose(c, seq, chan)
<1>1. /\ d \in Client /\ d.state = c.state
      /\ DistinctNumbers(d) /\ Counted(d)
      /\ d.sent = c.sent \ Disposed(c, seq, chan) /\ d.outR = c.outR
  BY DisposeTakesOut DEF Sound
<1> HIDE DEF d
<1>2. PICK m \in Pending(c) : m.type = t
  BY DEF WaitsFor
<1>3. m \in Pending(d)
  BY <1>1, <1>2 DEF Pending
<1>4. WaitsFor(d, t)
  BY <1>2, <1>3 DEF WaitsFor
<1>5. HoldsItsMessage(d)
  BY <1>1, <1>4 DEF HoldsItsMessage
<1> QED
  BY <1>1, <1>5 DEF d, Sound

\* on_acknowledge_message: the wait ends, or goes on for the same message.
LEMMA HandleAcknowledgeKeeps ==
    ASSUME IInv, NEW h \in Hosts, HandleAcknowledge(h)
    PROVE  IInv'
<1> DEFINE c == client[h]
           m == Head(rx[h].msgs)
           d == Dispose(c, m.arg, m.chan)
           Acknowledges(t) == \E a \in Disposed(c, m.arg, m.chan) : a.type = t
           n == NotifyConnect(d, sink[h])
           z == NotifyDisconnect(d, sink[h])
<1>1. /\ Sound(c) /\ c \in Client /\ rx[h].msgs # <<>> /\ sink[h] \in BOOLEAN
      /\ reconf \in [Hosts -> BOOLEAN] /\ log \subseteq HandshakeStep
  BY DEF IInv, TypeOK, Sound, HandleAcknowledge, Handling
<1>2. /\ d \in Client /\ DistinctNumbers(d) /\ Counted(d)
      /\ d.state = c.state /\ d.open = c.open /\ d.bound = c.bound
      /\ d.outR = c.outR /\ Pending(d) \subseteq Pending(c)
      /\ d.ctlSeq = c.ctlSeq /\ d.relSeq = c.relSeq
  BY <1>1, DisposeTakesOut DEF Sound
<1>3. {Announced(h, "CONNECT"), Announced(h, "DISCONNECT"), "none"} \subseteq Events \union {"none"}
  BY DEF Announced, Events
<1>4. CASE c.state = "ACKNOWLEDGING_CONNECT"
  <2>1. CASE Acknowledges("VALIDATE_CONNECT")
    <3>1. /\ Handled(h, n, Announced(h, "CONNECT"))
          /\ reconf' = [reconf EXCEPT ![h] = TRUE]
          /\ log' = log \union {[phase |-> "established", from |-> c.peer,
                                 to |-> h, session |-> c.session]}
      BY <1>4, <2>1 DEF HandleAcknowledge
    <3> HIDE DEF d
    <3>2. Sound(n)
      BY <1>1, <1>2, NotifySound
    <3> HIDE DEF n
    <3>3. HandlerKeeps
      BY <1>1, <1>3, <3>1, <3>2, HandledKeeps
    <3>4. log' \subseteq HandshakeStep
      BY <1>1, <3>1 DEF HandshakeStep, Client
    <3> QED
      BY <1>1, <3>1, <3>3, <3>4, HandlerAssemble
  <2>2. CASE ~Acknowledges("VALIDATE_CONNECT")
    <3>1. Discarded(h, d) /\ UNCHANGED <<reconf, log>>
      BY <1>4, <2>2 DEF HandleAcknowledge
    <3>2. WaitsFor(c, "VALIDATE_CONNECT")
      BY <1>1, <1>4 DEF Sound, HoldsItsMessage
    <3>3. Sound(d)
      BY <1>1, <1>4, <2>2, <3>2, NothingDisposed
    <3> QED
      BY <1>1, <3>1, <3>3, DiscardedKeeps, HandlerAssemble
  <2> QED
    BY <2>1, <2>2
<1>5. CASE c.state = "DISCONNECTING"
  <2>1. CASE Acknowledges("DISCONNECT")
    <3>1. /\ Handled(h, z, Announced(h, "DISCONNECT"))
          /\ reconf' = [reconf EXCEPT ![h] = TRUE] /\ UNCHANGED log
      BY <1>5, <2>1 DEF HandleAcknowledge
    <3> HIDE DEF d
    <3>2. Sound(z)
      BY <1>1, <1>2, NotifySound
    <3> HIDE DEF z
    <3>3. HandlerKeeps
      BY <1>1, <1>3, <3>1, <3>2, HandledKeeps
    <3> QED
      BY <1>1, <3>1, <3>3, HandlerAssemble
  <2>2. CASE ~Acknowledges("DISCONNECT")
    <3>1. Discarded(h, d) /\ UNCHANGED <<reconf, log>>
      BY <1>5, <2>2 DEF HandleAcknowledge
    <3>2. WaitsFor(c, "DISCONNECT")
      BY <1>1, <1>5 DEF Sound, HoldsItsMessage
    <3>3. Sound(d)
      BY <1>1, <1>5, <2>2, <3>2, NothingDisposed
    <3> QED
      BY <1>1, <3>1, <3>3, DiscardedKeeps, HandlerAssemble
  <2> QED
    BY <2>1, <2>2
<1>6. CASE c.state = "DELAYING_DISCONNECT" /\ Drained(d)
  <2>1. Handled(h, CloseConnected(d), "none") /\ UNCHANGED <<reconf, log>>
    BY <1>6 DEF HandleAcknowledge
  <2> HIDE DEF d
  <2>2. Sound(CloseConnected(d))
    BY <1>2, CloseConnectedSound
  <2>3. HandlerKeeps
    BY <1>1, <1>3, <2>1, <2>2, HandledKeeps
  <2> QED
    BY <1>1, <2>1, <2>3, HandlerAssemble
<1>7. CASE /\ c.state \notin {"ACKNOWLEDGING_CONNECT", "DISCONNECTING"}
           /\ ~(c.state = "DELAYING_DISCONNECT" /\ Drained(d))
  <2>1. Handled(h, d, "none") /\ UNCHANGED <<reconf, log>>
    BY <1>7 DEF HandleAcknowledge
  <2>2. c.state = "DELAYING_DISCONNECT" => Pending(d) # {}
    <3>1. c.state = "DELAYING_DISCONNECT" => ~Drained(d)
      BY <1>7
    <3>2. d.outR \in Seq(Message)
      BY <1>2 DEF Client
    <3> HIDE DEF d
    <3> QED
      BY <3>1, <3>2, NonEmptyRange DEF Drained, Pending
  <2> HIDE DEF d
  <2>3. HoldsItsMessage(d)
    BY <1>1, <1>2, <1>7, <2>2 DEF Sound, HoldsItsMessage
  <2>4. Sound(d)
    BY <1>2, <2>3 DEF Sound
  <2>5. HandlerKeeps
    BY <1>1, <1>3, <2>1, <2>4, HandledKeeps
  <2> QED
    BY <1>1, <2>1, <2>5, HandlerAssemble
<1> QED
  BY <1>4, <1>5, <1>6, <1>7
\* on_disconnect_message: whatever was pending is dropped.
LEMMA HandleDisconnectKeeps ==
    ASSUME IInv, NEW h \in Hosts, HandleDisconnect(h)
    PROVE  IInv'
<1> DEFINE c == client[h]
           k == ClearQueues(c)
           z == [k EXCEPT !.state = "ZOMBIE"]
           w == [k EXCEPT !.state = "ACKNOWLEDGING_DISCONNECT"]
<1>1. /\ Sound(c) /\ c \in Client /\ rx[h].msgs # <<>>
      /\ reconf' \in [Hosts -> BOOLEAN] /\ log' \subseteq HandshakeStep
  BY DEF IInv, TypeOK, Sound, HandleDisconnect, Handling
<1>2. PICK d \in {z, w, Blank} : Handled(h, d, "none")
  BY DEF HandleDisconnect, Connected
<1>3. /\ k \in Client /\ Pending(k) = {} /\ DistinctNumbers(k) /\ Counted(k)
  BY <1>1, ClearQueuesEmpties
<1>4. "ZOMBIE" \in States /\ "ACKNOWLEDGING_DISCONNECT" \in States
  BY DEF States
<1> HIDE DEF k
<1>5. /\ z \in Client /\ z.state = "ZOMBIE" /\ DistinctNumbers(z) /\ Counted(z)
      /\ w \in Client /\ w.state = "ACKNOWLEDGING_DISCONNECT" /\ Pending(w) = {}
      /\ DistinctNumbers(w) /\ Counted(w)
  BY <1>3, <1>4, WithState
<1> HIDE DEF z, w
<1>6. Sound(z) /\ Sound(w)
  BY <1>5 DEF Sound, HoldsItsMessage
<1>7. HandlerKeeps
  BY <1>1, <1>2, <1>6, BlankSound, HandledKeeps
<1> QED
  BY <1>1, <1>7, HandlerAssemble

\* on_reliable_data_message: the pending messages are left alone.
LEMMA HandleReliableDataKeeps ==
    ASSUME IInv, NEW h \in Hosts, HandleReliableData(h)
    PROVE  IInv'
<1> DEFINE c == client[h]
           m == Head(rx[h].msgs)
           d == [c EXCEPT !.inQ = @ \union {m.seq}]
<1>1. /\ Sound(c) /\ c \in Client /\ rx[h].msgs # <<>>
      /\ reconf' \in [Hosts -> BOOLEAN] /\ log' \subseteq HandshakeStep
  BY DEF IInv, TypeOK, Sound, HandleReliableData, Handling
<1>2. m.seq \in Nat
  BY <1>1, HeadTyped DEF IInv, Message
<1>3. CASE Failed(h, c)
  BY <1>1, <1>3, FailedKeeps, HandlerAssemble
<1>4. CASE c.state = "CONNECTED" /\ Discarded(h, d)
  <2>1. /\ d \in Client /\ d.state = "CONNECTED" /\ d.sent = c.sent /\ d.outR = c.outR
        /\ d.ctlSeq = c.ctlSeq /\ d.relSeq = c.relSeq
    BY <1>1, <1>2, <1>4 DEF Client
  <2> HIDE DEF d
  <2>2. HoldsItsMessage(d)
    BY <2>1, UnrestrictedHolds DEF Unrestricted
  <2>3. Pending(d) = Pending(c)
    BY <2>1 DEF Pending
  <2>4. Sound(d)
    BY <1>1, <2>1, <2>2, <2>3, FewerPending DEF Sound, DistinctNumbers, QueuedOnce
  <2> QED
    BY <1>1, <1>4, <2>4, DiscardedKeeps, HandlerAssemble
<1> QED
  BY <1>3, <1>4 DEF HandleReliableData

\* on_configure_throttle_message: only the configuration changes.
LEMMA HandleConfigureThrottleKeeps ==
    ASSUME IInv, NEW h \in Hosts, HandleConfigureThrottle(h)
    PROVE  IInv'
<1> DEFINE c == client[h]
           v == Head(rx[h].msgs).arg
           d == [c EXCEPT !.throttle = v]
<1>1. /\ Sound(c) /\ rx[h].msgs # <<>> /\ Handled(h, d, "none")
      /\ reconf' \in [Hosts -> BOOLEAN] /\ log' \subseteq HandshakeStep
  BY DEF IInv, TypeOK, HandleConfigureThrottle, Handling
<1>2. v \in Nat
  BY <1>1, HeadTyped DEF IInv, Message
<1> HIDE DEF v
<1>3. Sound(d)
  BY <1>1, <1>2, WithThrottle
<1> HIDE DEF d
<1> QED
  BY <1>1, <1>3, HandledKeeps, HandlerAssemble

\* No handler breaks the invariant.
LEMMA HandleKeeps ==
    ASSUME IInv, NEW h \in Hosts, Handle(h)
    PROVE  IInv'
<1>1. CASE HandlePing(h)
  <2>1. /\ rx[h].msgs # <<>> /\ Handled(h, client[h], "none") /\ Sound(client[h])
        /\ reconf' \in [Hosts -> BOOLEAN] /\ log' \subseteq HandshakeStep
    BY <1>1 DEF IInv, TypeOK, HandlePing, Handling
  <2> QED
    BY <2>1, HandledKeeps, HandlerAssemble
<1> QED
  BY <1>1, HandleConnectKeeps, HandleValidateConnectKeeps, HandleAcknowledgeKeeps,
     HandleDisconnectKeeps, HandleConfigureThrottleKeeps, HandleReliableDataKeeps DEF Handle

-----------------------------------------------------------------------------
(* The steps of poll().                                                    *)

\* The first send, with the throttle before it.
LEMMA PollSendKeeps ==
    ASSUME IInv, NEW h \in Hosts, PollSend(h)
    PROVE  IInv'
<1>1. PICK s \in Sinks, t \in Throttled(h) :
        /\ \E r \in Resends(t[1]) : Transmit(h, t[1], r)
        /\ client' = [client EXCEPT ![h] = AfterSend(t[1])]
        /\ reconf' = [reconf EXCEPT ![h] = t[2]]
        /\ at' = [at EXCEPT ![h] = "receive"]
        /\ sink' = [sink EXCEPT ![h] = s]
        /\ out' = [out EXCEPT ![h] = "idle"]
        /\ UNCHANGED <<rx, ev, hung, told, calls, log>>
  BY DEF PollSend
<1>2. Sound(t[1]) /\ t[1] \in Client /\ t[2] \in BOOLEAN /\ s \in BOOLEAN
  BY <1>1, ThrottledSound, BoundsAssumption DEF Sound
<1>3. Sound(AfterSend(t[1]))
  BY <1>2, AfterSendSound
<1>4. client' \in [Hosts -> Client] /\ \A k \in Hosts : Sound(client'[k])
  BY <1>1, <1>3, ClientStep
<1>5. tmpl' \in [Hosts -> Seq(Header)] /\ net' \subseteq Datagram
  BY <1>1, <1>2, ResendsTyped, TransmitTyped DEF IInv
<1>6. PollTyped'
  BY <1>1, <1>2 DEF IInv, TypeOK, PollTyped, Results
<1>7. /\ reconf' \in [Hosts -> BOOLEAN] /\ calls' \in [Hosts -> Nat]
      /\ log' \subseteq HandshakeStep
  BY <1>1, <1>2 DEF IInv, TypeOK
<1> QED
  BY <1>4, <1>5, <1>6, <1>7, Assemble

\* The first send gives the peer up.
LEMMA PollGivesUpKeeps ==
    ASSUME IInv, NEW h \in Hosts, PollGivesUp(h)
    PROVE  IInv'
<1>1. PICK s \in Sinks, t \in Throttled(h) :
        LET c == AcksSent(t[1])
        IN  /\ client' = [client EXCEPT ![h] = NotifyDisconnect(c, s)]
            /\ reconf' = [reconf EXCEPT ![h] = t[2] \/ NotifyReconf(c)]
            /\ Return(h, IF ~s THEN "idle"
                         ELSE IF Unannounced(c) THEN "silent" ELSE "DISCONNECT")
            /\ UNCHANGED <<tmpl, hung, net, calls, log>>
  BY DEF PollGivesUp
<1> DEFINE c == AcksSent(t[1])
           o == IF ~s THEN "idle" ELSE IF Unannounced(c) THEN "silent" ELSE "DISCONNECT"
           b == t[2] \/ NotifyReconf(c)
<1>2. Sound(c) /\ s \in BOOLEAN /\ t[2] \in BOOLEAN
  BY ThrottledSound, AfterSendSound, BoundsAssumption
<1> HIDE DEF c
<1>3. Sound(NotifyDisconnect(c, s))
  BY <1>2, NotifySound DEF Sound
<1>4. o \in Results /\ b \in BOOLEAN
  BY <1>2 DEF Results, Events, NotifyReconf
<1>5. /\ client' = [client EXCEPT ![h] = NotifyDisconnect(c, s)]
      /\ reconf' = [reconf EXCEPT ![h] = b]
      /\ Return(h, o)
      /\ UNCHANGED <<tmpl, hung, net, calls, log>>
  BY <1>1 DEF c
<1> HIDE DEF o, b
<1>6. client' \in [Hosts -> Client] /\ \A k \in Hosts : Sound(client'[k])
  BY <1>3, <1>5, ClientStep
<1>7. PollTyped'
  BY <1>4, <1>5, ReturnTyped DEF IInv
<1> QED
  BY <1>4, <1>5, <1>6, <1>7, Assemble DEF IInv, TypeOK

\* The dispatch before the first send, and the end of the poll.
LEMMA PollEndsKeep ==
    ASSUME IInv, NEW h \in Hosts, PollDispatch(h) \/ PollEnd(h)
    PROVE  IInv'
<1>1. Sound(client[h]) /\ client[h] \in Client
  BY DEF IInv, Sound
<1>2. CASE PollDispatch(h)
  <2> DEFINE c == Dispatched(client[h])
             o == DispatchEvent(client[h])
             b == reconf[h] \/ client[h].state = "ZOMBIE"
  <2>1. Sound(c) /\ o \in Results /\ b \in BOOLEAN
    BY <1>1, <1>2, DispatchedSound DEF PollDispatch, Results, IInv, TypeOK
  <2>2. /\ client' = [client EXCEPT ![h] = c] /\ Return(h, o)
        /\ reconf' = [reconf EXCEPT ![h] = b]
        /\ UNCHANGED <<tmpl, hung, net, calls, log>>
    BY <1>2 DEF PollDispatch
  <2> HIDE DEF c, o, b
  <2>3. client' \in [Hosts -> Client] /\ \A k \in Hosts : Sound(client'[k])
    BY <2>1, <2>2, ClientStep
  <2>4. PollTyped'
    BY <2>1, <2>2, ReturnTyped DEF IInv
  <2> QED
    BY <2>1, <2>2, <2>3, <2>4, Assemble DEF IInv, TypeOK
<1>3. CASE PollEnd(h)
  <2> DEFINE c == AfterSend(client[h])
             e == IF sink[h] THEN DispatchEvent(c) ELSE "none"
             d == IF sink[h] THEN Dispatched(c) ELSE c
             o == IF e = "none" THEN "idle" ELSE e
             b == reconf[h] \/ (sink[h] /\ c.state = "ZOMBIE")
  <2>1. Sound(c)
    BY <1>1, AfterSendSound
  <2>2. /\ client' = [client EXCEPT ![h] = d] /\ Return(h, o)
        /\ reconf' = [reconf EXCEPT ![h] = b]
        /\ Transmit(h, client[h], <<>>)
        /\ UNCHANGED <<hung, calls, log>>
    BY <1>3 DEF PollEnd
  <2> HIDE DEF c
  <2>3. Sound(d) /\ o \in Results /\ b \in BOOLEAN
    BY <2>1, DispatchedSound DEF Results, Events, IInv, TypeOK
  <2> HIDE DEF d, o, b
  <2>4. client' \in [Hosts -> Client] /\ \A k \in Hosts : Sound(client'[k])
    BY <2>2, <2>3, ClientStep
  <2>5. PollTyped'
    BY <2>2, <2>3, ReturnTyped DEF IInv
  <2>6. <<>> \in Seq(Message)
    OBVIOUS
  <2>7. tmpl' \in [Hosts -> Seq(Header)] /\ net' \subseteq Datagram
    BY <1>1, <2>2, <2>6, TransmitTyped DEF IInv
  <2> QED
    BY <2>2, <2>3, <2>4, <2>5, <2>7, Assemble DEF IInv, TypeOK
<1> QED
  BY <1>2, <1>3

\* A datagram is taken from the socket.
LEMMA ReceiveKeeps ==
    ASSUME IInv, NEW h \in Hosts, Receive(h)
    PROVE  IInv'
<1>1. /\ rx' \in [Hosts -> Datagram]
      /\ hung' \in [Hosts -> BOOLEAN]
  BY DEF Receive, IInv, TypeOK
<1>2. UNCHANGED <<client, reconf, tmpl, at, ev, sink, out, told, net, calls, log>>
  BY DEF Receive
<1>3. PollTyped'
  BY <1>1, <1>2 DEF PollTyped, IInv, TypeOK
<1> QED
  BY <1>2, <1>3, Assemble DEF IInv, TypeOK

-----------------------------------------------------------------------------
(* The theorems.                                                           *)

\* In the initial state every slot is free and sound.
LEMMA InitSound == Init => IInv
<1> SUFFICES ASSUME Init PROVE IInv
  OBVIOUS
<1>1. Sound(Blank) /\ Blank \in Client
  BY BlankSound DEF Sound
<1>2. <<>> \in Seq(Message) /\ <<>> \in Seq(Header)
  OBVIOUS
<1>3. NoDatagram \in Datagram
  BY <1>2 DEF NoDatagram, Datagram
<1>4. client \in [Hosts -> Client] /\ \A h \in Hosts : Sound(client[h])
  BY <1>1 DEF Init
<1>5. rx \in [Hosts -> Datagram]
  BY <1>3 DEF Init
<1>6. /\ reconf \in [Hosts -> BOOLEAN] /\ tmpl \in [Hosts -> Seq(Header)]
      /\ at \in [Hosts -> {"app", "receive"}] /\ ev \in [Hosts -> Events \union {"none"}]
      /\ sink \in [Hosts -> BOOLEAN] /\ out \in [Hosts -> Results]
      /\ hung \in [Hosts -> BOOLEAN] /\ told \in [Hosts -> BOOLEAN]
      /\ net \subseteq Datagram /\ calls \in [Hosts -> Nat] /\ log \subseteq HandshakeStep
  BY <1>2 DEF Init, Results
<1> QED
  BY <1>4, <1>5, <1>6 DEF IInv, TypeOK

\* Every step of every host keeps types and soundness.
LEMMA StepSound == IInv /\ [Next]_vars => IInv'
<1> SUFFICES ASSUME IInv, [Next]_vars PROVE IInv'
  OBVIOUS
<1>1. CASE UNCHANGED vars
  BY <1>1 DEF vars, IInv, TypeOK, Sound, HoldsItsMessage, WaitsFor
<1>2. ASSUME NEW h \in Hosts, Application(h) PROVE IInv'
  BY <1>2, ApplicationKeeps
<1>3. ASSUME NEW h \in Hosts, Poll(h) PROVE IInv'
  BY <1>3, PollEndsKeep, PollSendKeeps, PollGivesUpKeeps, ReceiveKeeps, HandleKeeps DEF Poll
<1> QED
  BY <1>1, <1>2, <1>3 DEF Next

\* The inductive invariant holds in every state of every behaviour.
THEOREM Soundness == Spec => []IInv
BY InitSound, StepSound, PTL DEF Spec

\* Every variable keeps its type: no operation of the protocol produces a
\* record, a queue, a datagram or an event outside the modelled ones.
THEOREM TypeCorrectness == Spec => []TypeOK
<1>1. IInv => TypeOK
  BY DEF IInv
<1> QED
  BY <1>1, Soundness, PTL

\* A client that waits for an acknowledgement holds the message that can end the
\* wait, whatever the network loses, repeats or reorders and whenever the
\* application configures the throttle, for any number of hosts, any session ids
\* (rand() collisions included) and any bounds.
THEOREM WaitsAreForSomething == Spec => []WaitsForAnAnswer
<1>1. IInv => WaitsForAnAnswer
  BY DEF IInv, Sound, WaitsForAnAnswer
<1> QED
  BY <1>1, Soundness, PTL

\* An acknowledgement that arrives for a client names at most one of its
\* pending messages: dispose_acknowledged_message never frees two.
THEOREM AcksAreUnambiguous == Spec => []AcksNameOneMessage
<1>1. IInv => AcksNameOneMessage
  BY DEF IInv, Sound, AcksNameOneMessage
<1> QED
  BY <1>1, Soundness, PTL
=============================================================================
