--------------------------- MODULE HandshakeProofs ---------------------------
(***************************************************************************)
(* The handshake of XudpConnection keeps the promise of module Handshake,  *)
(* for any hosts, calls and bounds, in the behaviours where no call of     *)
(* connect draws a session id that was drawn before between the same two   *)
(* hosts (FreshIds); and poll() tells the application of every connection, *)
(* whatever the session ids are.                                           *)
(***************************************************************************)
EXTENDS XudpConnectionProofs

-----------------------------------------------------------------------------
(* The inductive invariant.  O, A, V and E are the keys offered, accepted,  *)
(* validated and established: <<host that dials, host that is dialled,      *)
(* session>>.                                                               *)

\* Keys go through the phases in order; an id is used in one direction between two
\* hosts, and may be used again between others.
KeysInOrder(O, A, V, E) ==
    /\ O \subseteq Hosts \X Hosts \X Nat
    /\ A \subseteq O /\ V \subseteq A /\ E \subseteq V
    /\ \A f, t, s : <<f, t, s>> \in O => f # t
    /\ \A f, t, s : <<f, t, s>> \in O => <<t, f, s>> \notin O

\* The client of h dialled its session.
Dials(h, c, O, V) ==
    /\ <<h, c.peer, c.session>> \in O
    /\ c.bound => <<h, c.peer, c.session>> \in V /\ c.state # "CONNECTING"
    /\ ~c.bound => c.state \in {"CONNECTING", "ZOMBIE"}
    /\ c.state = "CONNECTING" => <<h, c.peer, c.session>> \notin V

\* The client of h accepted its session.
Answers(h, c, A, V) ==
    /\ <<c.peer, h, c.session>> \in A
    /\ c.bound /\ c.state # "CONNECTING"
    /\ <<c.peer, h, c.session>> \notin V => c.state \in {"ACKNOWLEDGING_CONNECT", "ZOMBIE"}
    /\ c.state = "ACKNOWLEDGING_CONNECT" =>
         /\ \A m \in Pending(c) : m.type \in {"VALIDATE_CONNECT", "CONFIGURE_THROTTLE"}
         /\ c.acks = <<>> \/ \E m \in Range(c.outR) : m.type = "VALIDATE_CONNECT"

\* A client in use has a session of its own, and its handshake message is the
\* one its side of the handshake sends.
ClientKey(h, c, O, A, V) ==
    c.state # "DISCONNECTED" =>
        /\ Dials(h, c, O, V) \/ Answers(h, c, A, V)
        /\ \A m \in Pending(c) :
             /\ m.type # "ACKNOWLEDGE"
             /\ m.type = "CONNECT" => Dials(h, c, O, V)
             /\ m.type = "VALIDATE_CONNECT" => Answers(h, c, A, V)

Types(d) == {d.msgs[i].type : i \in DOMAIN d.msgs}

\* Every acknowledgement of these messages has VALIDATE_CONNECT behind it.
AcksValidated(msgs) ==
    \A i \in DOMAIN msgs : msgs[i].type = "ACKNOWLEDGE" =>
        \E j \in DOMAIN msgs : j > i /\ msgs[j].type = "VALIDATE_CONNECT"

\* So does a datagram; and what the host that accepted a session sends before
\* the other has validated it acknowledges nothing without VALIDATE_CONNECT.
DatagramKey(d, O, A, V) ==
    /\ \/ <<d.src, d.dst, d.session>> \in O /\ (d.bound => <<d.src, d.dst, d.session>> \in V)
       \/ <<d.dst, d.src, d.session>> \in A /\ d.bound
    /\ "CONNECT" \in Types(d) => <<d.src, d.dst, d.session>> \in O
    /\ "VALIDATE_CONNECT" \in Types(d) => <<d.dst, d.src, d.session>> \in A
    /\ <<d.dst, d.src, d.session>> \in A \ V =>
         /\ Types(d) \subseteq
              {"ACKNOWLEDGE", "VALIDATE_CONNECT", "DISCONNECT", "CONFIGURE_THROTTLE"}
         /\ AcksValidated(d.msgs)

AcksFirst(d) ==
    /\ d.msgs # <<>>
    /\ \A i, j \in DOMAIN d.msgs :
         i < j /\ d.msgs[j].type = "ACKNOWLEDGE" => d.msgs[i].type = "ACKNOWLEDGE"

\* The datagram d under processing at h is for h, and belongs to its client c.
Claimed(h, d, c, a, O, A, V) ==
    d.msgs # <<>> =>
        /\ a = "receive" /\ d.dst = h
        /\ DatagramKey(d, O, A, V)
        /\ ~d.bound => "ACKNOWLEDGE" \notin Types(d)
        /\ d.bound /\ c.state # "DISCONNECTED" => c.peer = d.src /\ c.session = d.session

\* CONNECT stays pending, but for a datagram that is about to end the wait.
Repeats(d, c) ==
    c.state = "CONNECTING" => WaitsFor(c, "CONNECT") \/ "VALIDATE_CONNECT" \in Types(d)

Offered == Phase("offered")
Accepted == Phase("accepted")
Validated == Phase("validated")
Established == Phase("established")

\* The ids in use were drawn.
Drawn ==
    /\ \A h \in Hosts : calls[h] <= Len(Sessions[h])
    /\ \A f, t, s : <<f, t, s>> \in Offered =>
         \E i \in 1..calls[f] : s = Sessions[f][i]

HostInv(h, O, A, V) ==
    /\ ClientKey(h, client[h], O, A, V)
    /\ Claimed(h, rx[h], client[h], at[h], O, A, V)
    /\ Repeats(rx[h], client[h])

\* All datagrams of the network have a key, and their acknowledgements in front.
NetKeys(ds, O, A, V) == \A d \in ds : DatagramKey(d, O, A, V) /\ AcksFirst(d)

KInv ==
    /\ KeysInOrder(Offered, Accepted, Validated, Established)
    /\ Drawn
    /\ \A h \in Hosts : HostInv(h, Offered, Accepted, Validated)
    /\ NetKeys(net, Offered, Accepted, Validated)

-----------------------------------------------------------------------------
(* Steps that leave a client its session.                                   *)

Early == {"DISCONNECTED", "CONNECTING", "ACKNOWLEDGING_CONNECT", "ZOMBIE"}
HandshakeTypes == {"ACKNOWLEDGE", "CONNECT", "VALIDATE_CONNECT"}

\* d is what became of c: a free slot, or a client of the same session that has
\* no new handshake message and has not gone back to the handshake.
Follows(d, c) ==
    d.state # "DISCONNECTED" =>
        /\ c.state # "DISCONNECTED"
        /\ d.peer = c.peer /\ d.session = c.session /\ d.bound = c.bound
        /\ d.state \in {c.state, "ZOMBIE"} \/ (c.state \notin Early /\ d.state \notin Early)
        /\ d.state = "ACKNOWLEDGING_CONNECT" =>
             /\ d.acks = <<>> \/ (d.acks = c.acks /\ Range(c.outR) \subseteq Range(d.outR))
             /\ \A m \in Pending(d) : m \in Pending(c) \/ m.type = "CONFIGURE_THROTTLE"
        /\ \A m \in Pending(d) : m \in Pending(c) \/ m.type \notin HandshakeTypes

\* Such a client has the key its predecessor had.
LEMMA FollowsKeepsKey ==
    ASSUME NEW h, NEW c, NEW d, NEW O, NEW A, NEW V, ClientKey(h, c, O, A, V), Follows(d, c)
    PROVE  ClientKey(h, d, O, A, V)
<1> SUFFICES ASSUME d.state # "DISCONNECTED" PROVE ClientKey(h, d, O, A, V)
  BY DEF ClientKey
<1>1. /\ d.peer = c.peer /\ d.session = c.session /\ d.bound = c.bound
      /\ d.state \in {c.state, "ZOMBIE"} \/ (c.state \notin Early /\ d.state \notin Early)
      /\ c.state # "DISCONNECTED"
  BY DEF Follows
<1>2. Dials(h, c, O, V) => Dials(h, d, O, V)
  BY <1>1 DEF Dials, Early
<1>3. ASSUME Answers(h, c, A, V) PROVE Answers(h, d, A, V)
  <2>1. /\ <<d.peer, h, d.session>> \in A /\ d.bound /\ d.state # "CONNECTING"
        /\ <<d.peer, h, d.session>> \notin V => d.state \in {"ACKNOWLEDGING_CONNECT", "ZOMBIE"}
    BY <1>1, <1>3 DEF Answers, Early
  <2>2. ASSUME d.state = "ACKNOWLEDGING_CONNECT"
        PROVE  /\ \A m \in Pending(d) : m.type \in {"VALIDATE_CONNECT", "CONFIGURE_THROTTLE"}
               /\ d.acks = <<>> \/ \E m \in Range(d.outR) : m.type = "VALIDATE_CONNECT"
    <3>1. c.state = "ACKNOWLEDGING_CONNECT"
      BY <1>1, <2>2 DEF Early
    <3>2. /\ \A m \in Pending(c) : m.type \in {"VALIDATE_CONNECT", "CONFIGURE_THROTTLE"}
          /\ c.acks = <<>> \/ \E m \in Range(c.outR) : m.type = "VALIDATE_CONNECT"
      BY <1>3, <3>1 DEF Answers
    <3>3. /\ d.acks = <<>> \/ (d.acks = c.acks /\ Range(c.outR) \subseteq Range(d.outR))
          /\ \A m \in Pending(d) : m \in Pending(c) \/ m.type = "CONFIGURE_THROTTLE"
      BY <2>2 DEF Follows
    <3> QED
      BY <3>2, <3>3
  <2> QED
    BY <2>1, <2>2 DEF Answers
<1>4. \A m \in Pending(d) : m \in Pending(c) \/ m.type \notin HandshakeTypes
  BY DEF Follows
<1> QED
  BY <1>1, <1>2, <1>3, <1>4 DEF ClientKey, HandshakeTypes

\* A free slot follows from anything.
LEMMA BlankFollows == \A c : Follows(Blank, c)
BY DEF Follows, Blank

LEMMA SameFollows == \A c : Follows(c, c)
BY DEF Follows

LEMMA FollowsTransitive ==
    ASSUME NEW c, NEW d, NEW e, Follows(d, c), Follows(e, d)
    PROVE  Follows(e, c)
BY DEF Follows, Early

\* A new state, late in the life of a client or ZOMBIE.
LEMMA StateFollows ==
    ASSUME NEW c \in Client, NEW st \in States, c.state # "DISCONNECTED",
           st = "ZOMBIE" \/ (c.state \notin Early /\ st \notin Early)
    PROVE  Follows([c EXCEPT !.state = st], c)
<1> DEFINE d == [c EXCEPT !.state = st]
<1>1. /\ d.state = st /\ d.peer = c.peer /\ d.session = c.session /\ d.bound = c.bound
      /\ d.acks = c.acks /\ d.outR = c.outR /\ d.sent = c.sent
  BY DEF Client
<1> HIDE DEF d
<1>2. Pending(d) = Pending(c)
  BY <1>1 DEF Pending
<1>3. Follows(d, c)
  BY <1>1, <1>2 DEF Follows
<1> QED
  BY <1>3 DEF d

\* Queueing anything but a handshake message.
LEMMA QueueOutFollows ==
    ASSUME NEW c \in Client, NEW type \in MessageTypes \ HandshakeTypes, NEW chan \in Channels,
           c.state # "DISCONNECTED",
           c.state = "ACKNOWLEDGING_CONNECT" => type = "CONFIGURE_THROTTLE"
    PROVE  Follows(QueueOut(c, type, chan), c)
<1> DEFINE m == Numbered(c, type, chan)
           q == QueueOut(c, type, chan)
<1>1. m \in Message /\ m.type = type
  BY DEF Numbered, Message, Flags, Client, Channels
<1>2. c.outR \in Seq(Message)
  BY DEF Client
<1> HIDE DEF m
<1>3. Range(Append(c.outR, m)) = Range(c.outR) \union {m}
  BY <1>1, <1>2, RangeAppend
<1>4. /\ q.state = c.state /\ q.peer = c.peer /\ q.session = c.session /\ q.bound = c.bound
      /\ q.outR = Append(c.outR, m) /\ q.sent = c.sent
  BY DEF QueueOut, Client, m
<1> HIDE DEF q
<1>5. Pending(q) = Pending(c) \union {m} /\ Range(c.outR) \subseteq Range(q.outR)
  BY <1>3, <1>4 DEF Pending
<1>6. q.acks = c.acks
  BY DEF QueueOut, Client, q
<1> QED
  BY <1>1, <1>4, <1>5, <1>6 DEF Follows, q

\* So does a configuration that changes.
LEMMA WithThrottleFollows ==
    ASSUME NEW c \in Client, NEW v \in Nat
    PROVE  LET d == [c EXCEPT !.throttle = v]
           IN  Follows(d, c) /\ d.state = c.state /\ Pending(d) = Pending(c)
<1> DEFINE d == [c EXCEPT !.throttle = v]
<1>1. /\ d.state = c.state /\ d.peer = c.peer /\ d.session = c.session /\ d.bound = c.bound
      /\ d.acks = c.acks /\ d.outR = c.outR /\ d.sent = c.sent
  BY DEF Client
<1> HIDE DEF d
<1>2. Pending(d) = Pending(c)
  BY <1>1 DEF Pending
<1> QED
  BY <1>1, <1>2 DEF d, Follows

\* Sending: all of it, or the acknowledgements only.
LEMMA AfterSendFollows ==
    ASSUME NEW c \in Client
    PROVE  Follows(AfterSend(c), c) /\ (~Silent(c) => Follows(AcksSent(c), c))
<1> DEFINE a == AcksSent(c)
           s == Sent(c)
<1>1. CASE Silent(c)
  BY <1>1, SameFollows DEF AfterSend
<1>2. CASE ~Silent(c)
  <2>1. /\ a.state \in {c.state, "ZOMBIE"}
        /\ a.peer = c.peer /\ a.session = c.session /\ a.bound = c.bound
        /\ a.acks = <<>> /\ a.outR = c.outR /\ a.sent = c.sent /\ a \in Client
    <3>1. <<>> \in Seq(Ack)
      OBVIOUS
    <3> QED
      BY <3>1 DEF AcksSent, Client, States
  <2>2. s = [a EXCEPT !.outR = <<>>, !.sent = a.sent \union Range(c.outR)]
    BY DEF Sent
  <2> HIDE DEF a, s
  <2>3. /\ s.state = a.state
        /\ s.peer = c.peer /\ s.session = c.session /\ s.bound = c.bound
        /\ s.acks = <<>> /\ s.outR = <<>> /\ s.sent = c.sent \union Range(c.outR)
    BY <2>1, <2>2 DEF Client
  <2>4. Pending(a) = Pending(c) /\ Pending(s) = Pending(c)
    BY <2>1, <2>3, RangeEmpty DEF Pending
  <2>5. Follows(a, c) /\ Follows(s, c)
    BY <1>2, <2>1, <2>3, <2>4 DEF Follows, Silent
  <2> QED
    BY <1>2, <2>5 DEF AfterSend, a, s
<1> QED
  BY <1>1, <1>2

\* An acknowledgement takes messages out.
LEMMA DisposeFollows ==
    ASSUME NEW c \in Client, NEW seq, NEW chan
    PROVE  Follows(Dispose(c, seq, chan), c)
<1> DEFINE d == Dispose(c, seq, chan)
<1>1. /\ d.state = c.state /\ d.peer = c.peer /\ d.session = c.session /\ d.bound = c.bound
      /\ d.acks = c.acks /\ d.outR = c.outR /\ d.sent \subseteq c.sent
  BY DEF Dispose, Client
<1> HIDE DEF d
<1>2. Pending(d) \subseteq Pending(c)
  BY <1>1 DEF Pending
<1>3. Follows(d, c)
  BY <1>1, <1>2 DEF Follows
<1> QED
  BY <1>3 DEF d

\* An acknowledgement that is queued, or dropped.
LEMMA AcknowledgeFollows ==
    ASSUME NEW c \in Client, NEW m \in Message, NEW d, NEW a \in Acknowledge(c, m, d)
    PROVE  /\ Follows(a, c) /\ Pending(a) = Pending(c)
           /\ a.state = c.state /\ a.bound = c.bound
           /\ a.peer = c.peer /\ a.session = c.session
           /\ c.state = "ACKNOWLEDGING_CONNECT" => a = c
<1> DEFINE n == [c EXCEPT !.acks = Append(@, [type |-> m.type, chan |-> m.chan, seq |-> m.seq])]
<1>1. a = c \/ (c.state # "ACKNOWLEDGING_CONNECT" /\ a = n)
  BY DEF Acknowledge, QueueAck
<1>2. /\ n.state = c.state /\ n.peer = c.peer /\ n.session = c.session /\ n.bound = c.bound
      /\ n.outR = c.outR /\ n.sent = c.sent
  BY DEF Client
<1> HIDE DEF n
<1>3. Pending(n) = Pending(c)
  BY <1>2 DEF Pending
<1>4. c.state # "ACKNOWLEDGING_CONNECT" => Follows(n, c)
  BY <1>2, <1>3 DEF Follows
<1> QED
  BY <1>1, <1>2, <1>3, <1>4, SameFollows

\* Cleared queues, in a later state or with DISCONNECT to send.
LEMMA ClearedFollows ==
    ASSUME NEW c \in Client, c.state \notin Early
    PROVE  /\ \A st \in States \ Early : Follows([ClearQueues(c) EXCEPT !.state = st], c)
           /\ Follows([ClearQueues(c) EXCEPT !.state = "ZOMBIE"], c)
           /\ Follows(CloseConnected(c), c)
<1> DEFINE k == ClearQueues(c)
           q == QueueOut(k, "DISCONNECT", "control")
<1>1. k \in Client /\ Pending(k) = {} /\ k.state = c.state
  BY ClearQueuesEmpties
<1>2. k.peer = c.peer /\ k.session = c.session /\ k.bound = c.bound /\ k.acks = <<>>
  BY DEF ClearQueues, Client
<1> HIDE DEF k
<1>3. Follows(k, c)
  BY <1>1, <1>2 DEF Follows
<1>4. ASSUME NEW st \in States, st = "ZOMBIE" \/ st \notin Early
      PROVE  Follows([k EXCEPT !.state = st], c)
  <2>1. Follows([k EXCEPT !.state = st], k)
    BY <1>1, <1>4, StateFollows DEF Early
  <2> QED
    BY <1>3, <2>1, FollowsTransitive
<1>5. /\ "DISCONNECT" \in MessageTypes \ HandshakeTypes /\ "control" \in Channels
      /\ "ZOMBIE" \in States /\ "DISCONNECTING" \in States \ Early
  BY DEF MessageTypes, HandshakeTypes, Channels, States, Early
<1>6. Follows(q, k) /\ q \in Client /\ q.state = k.state
  <2>1. k.state \notin {"DISCONNECTED", "ACKNOWLEDGING_CONNECT"}
    BY <1>1 DEF Early
  <2>2. Follows(q, k)
    BY <1>1, <1>5, <2>1, QueueOutFollows
  <2>3. DistinctNumbers(k) /\ Counted(k)
    BY ClearQueuesEmpties DEF k
  <2> QED
    BY <1>1, <1>5, <2>2, <2>3, QueueOutAdds
<1> HIDE DEF q
<1>7. Follows([q EXCEPT !.state = "DISCONNECTING"], q)
  BY <1>1, <1>5, <1>6, StateFollows DEF Early
<1>8. Follows([q EXCEPT !.state = "DISCONNECTING"], c)
  BY <1>3, <1>6, <1>7, FollowsTransitive
<1>9. Follows([k EXCEPT !.state = "ZOMBIE"], c)
  BY <1>4, <1>5, Zenon
<1>10. \A st \in States \ Early : Follows([k EXCEPT !.state = st], c)
  BY <1>4, Zenon
<1> QED
  BY <1>8, <1>9, <1>10, Zenon DEF k, q, CloseConnected

\* A disconnected client is announced, or goes at once.
LEMMA NotifyDisconnectFollows ==
    ASSUME NEW c \in Client, NEW s, c.state # "DISCONNECTED"
    PROVE  Follows(NotifyDisconnect(c, s), c)
<1>1. "ZOMBIE" \in States
  BY DEF States
<1>2. Follows([c EXCEPT !.state = "ZOMBIE"], c)
  BY <1>1, StateFollows
<1> QED
  BY <1>2, BlankFollows DEF NotifyDisconnect

\* An event is taken: the client is connected, free, or has one message less.
LEMMA DispatchedFollows ==
    ASSUME NEW c \in Client
    PROVE  Follows(Dispatched(c), c)
<1> DEFINE n == [c EXCEPT !.inRel = @ + 1, !.inQ = @ \ {c.inRel + 1}]
           u == [c EXCEPT !.state = "CONNECTED"]
<1>1. Dispatched(c) \in {Blank, n, c} \/
      (Dispatched(c) = u /\ c.state \in {"CONNECTION_PENDING", "CONNECTION_SUCCEEDED"})
  BY DEF Dispatched
<1>2. Follows(n, c)
  <2>1. /\ n.state = c.state /\ n.peer = c.peer /\ n.session = c.session /\ n.bound = c.bound
        /\ n.acks = c.acks /\ n.outR = c.outR /\ n.sent = c.sent
    BY DEF Client
  <2> HIDE DEF n
  <2> QED
    BY <2>1 DEF Follows, Pending
<1>3. c.state \in {"CONNECTION_PENDING", "CONNECTION_SUCCEEDED"} => Follows(u, c)
  <2>1. "CONNECTED" \in States \ Early
    BY DEF States, Early
  <2> QED
    BY <2>1, StateFollows DEF Early
<1> HIDE DEF n, u
<1> QED
  BY <1>1, <1>2, <1>3, BlankFollows, SameFollows

\* The throttle queues a control message for a connected client.
LEMMA ThrottledFollows ==
    ASSUME NEW h, client[h] \in Client, NEW t \in Throttled(h)
    PROVE  Follows(t[1], client[h])
<1> DEFINE q == QueueOut(client[h], "PING", "control")
<1>1. "PING" \in MessageTypes \ HandshakeTypes /\ "control" \in Channels
  BY DEF MessageTypes, HandshakeTypes, Channels
<1>2. Connected(client[h]) => Follows(q, client[h])
  BY <1>1, QueueOutFollows DEF Connected
<1>3. CASE t = <<client[h], reconf[h]>>
  BY <1>3, SameFollows
<1>4. CASE t = <<q, FALSE>> /\ Connected(client[h])
  BY <1>2, <1>4
<1> QED
  BY <1>3, <1>4 DEF Throttled

-----------------------------------------------------------------------------
(* What a client sends.                                                     *)

\* Concatenation is associative.
LEMMA MessagesAssociative ==
    \A u, v, w \in Seq(Message) : (u \o v) \o w = u \o (v \o w)
BY ConcatAssociative

\* The messages of a datagram (see Transmit).
Outgoing(c, t, r) == AckMessages(c, t) \o r \o c.outR

\* What the first send of a poll may resend, and the second one does not.
Resendable(c, r) == r \in Seq(Message) /\ \A i \in DOMAIN r : r[i] \in c.sent

LEMMA ResendsAreResendable ==
    ASSUME NEW c \in Client
    PROVE  (\A r \in Resends(c) : Resendable(c, r)) /\ Resendable(c, <<>>)
<1>1. ASSUME NEW r \in Resends(c) PROVE Resendable(c, r)
  <2>1. PICK n \in 0..Cardinality(c.sent) : r \in Injection(1..n, c.sent)
    BY DEF Resends
  <2>2. r \in [1..n -> c.sent]
    BY <2>1 DEF Injection
  <2>3. r \in Seq(Message)
    BY ResendsTyped
  <2> QED
    BY <2>2, <2>3 DEF Resendable
<1>2. Resendable(c, <<>>)
  BY DEF Resendable
<1> QED
  BY <1>1, <1>2

\* Behind the first n of them is all that was queued.
Carries(msgs, n, c) ==
    \A m \in Range(c.outR) : \E j \in DOMAIN msgs : j > n /\ msgs[j] = m

\* They are the client's acknowledgements, and then pending messages.
LEMMA SentMessages ==
    ASSUME NEW c \in Client, NEW t \in Seq(Header), NEW r, Resendable(c, r),
           NEW msgs, msgs = Outgoing(c, t, r)
    PROVE  /\ msgs \in Seq(Message) /\ Len(c.acks) \in Nat
           /\ Len(msgs) = Len(c.acks) + Len(r \o c.outR)
           /\ \A i \in DOMAIN msgs :
                IF i <= Len(c.acks) THEN msgs[i].type = "ACKNOWLEDGE" ELSE msgs[i] \in Pending(c)
           /\ Carries(msgs, Len(c.acks), c)
<1> DEFINE a == AckMessages(c, t)
           b == r \o c.outR
<1>1. a \in Seq(Message) /\ Len(a) = Len(c.acks) /\ Len(c.acks) \in Nat
  <2>1. c.acks \in Seq(Ack) /\ DOMAIN c.acks = 1..Len(c.acks)
    BY DEF Client
  <2>2. DOMAIN a = 1..Len(c.acks)
    BY <2>1 DEF AckMessages
  <2> QED
    BY <2>1, <2>2, AckMessagesTyped
<1>2. \A i \in 1..Len(a) : a[i].type = "ACKNOWLEDGE"
  <2>1. DOMAIN c.acks = 1..Len(c.acks)
    BY DEF Client
  <2>2. \A i \in DOMAIN c.acks : a[i].type = "ACKNOWLEDGE"
    BY DEF AckMessages
  <2> HIDE DEF a
  <2> QED
    BY <1>1, <2>1, <2>2
<1>3. r \in Seq(Message) /\ c.outR \in Seq(Message)
  BY DEF Resendable, Client
<1>4. \A i \in 1..Len(r) : r[i] \in c.sent
  BY <1>3 DEF Resendable
<1>5. \A i \in 1..Len(c.outR) : c.outR[i] \in Range(c.outR)
  BY <1>3 DEF Range
<1> HIDE DEF a
<1>6. /\ b \in Seq(Message) /\ \A i \in 1..Len(b) : b[i] \in Pending(c)
      /\ \A m \in Range(c.outR) : \E j \in 1..Len(b) : b[j] = m
  <2>1. /\ b \in Seq(Message) /\ Len(b) = Len(r) + Len(c.outR)
        /\ \A i \in 1..(Len(r) + Len(c.outR)) :
             b[i] = IF i <= Len(r) THEN r[i] ELSE c.outR[i - Len(r)]
    BY <1>3, ConcatProperties, Zenon
  <2> HIDE DEF b
  <2>2. Len(r) \in Nat /\ Len(c.outR) \in Nat
    BY <1>3
  <2>3. \A i \in 1..Len(b) : b[i] \in c.sent \/ b[i] \in Range(c.outR)
    BY <1>4, <1>5, <2>1, <2>2
  <2>4. ASSUME NEW m \in Range(c.outR) PROVE \E j \in 1..Len(b) : b[j] = m
    <3>1. PICK k \in 1..Len(c.outR) : c.outR[k] = m
      BY <1>3 DEF Range
    <3> DEFINE j == Len(r) + k
    <3>2. j \in 1..(Len(r) + Len(c.outR)) /\ ~(j <= Len(r)) /\ j - Len(r) = k
      BY <2>2, <3>1
    <3> HIDE DEF j
    <3>3. b[j] = m
      BY <2>1, <3>1, <3>2
    <3> QED
      BY <2>1, <3>2, <3>3
  <2> QED
    BY <2>1, <2>3, <2>4 DEF Pending
<1>7. msgs = a \o b
  <2>1. (a \o r) \o c.outR = a \o (r \o c.outR)
    BY <1>1, <1>3, MessagesAssociative
  <2> QED
    BY <2>1, Zenon DEF a, Outgoing
<1> HIDE DEF b
<1>8. /\ msgs \in Seq(Message) /\ Len(msgs) = Len(a) + Len(b)
      /\ \A i \in 1..(Len(a) + Len(b)) :
           msgs[i] = IF i <= Len(a) THEN a[i] ELSE b[i - Len(a)]
  <2>1. a \in Seq(Message) /\ b \in Seq(Message)
    BY <1>1, <1>6
  <2>2. /\ a \o b \in Seq(Message) /\ Len(a \o b) = Len(a) + Len(b)
        /\ \A i \in 1..(Len(a) + Len(b)) :
             (a \o b)[i] = IF i <= Len(a) THEN a[i] ELSE b[i - Len(a)]
    BY <2>1, ConcatProperties
  <2> QED
    BY <1>7, <2>2
<1>9. DOMAIN msgs = 1..Len(msgs) /\ Len(a) \in Nat /\ Len(b) \in Nat
  <2>1. a \in Seq(Message) /\ b \in Seq(Message) /\ msgs \in Seq(Message)
    BY <1>1, <1>6, <1>8
  <2> QED
    BY <2>1
<1>10. \A i \in DOMAIN msgs :
        IF i <= Len(a) THEN msgs[i].type = "ACKNOWLEDGE" ELSE msgs[i] \in Pending(c)
  <2> SUFFICES ASSUME NEW i \in 1..(Len(a) + Len(b))
               PROVE  IF i <= Len(a) THEN msgs[i].type = "ACKNOWLEDGE" ELSE msgs[i] \in Pending(c)
    BY <1>8, <1>9
  <2>1. CASE i <= Len(a)
    <3>1. i \in 1..Len(a)
      BY <1>9, <2>1
    <3> QED
      BY <1>2, <1>8, <2>1, <3>1
  <2>2. CASE ~(i <= Len(a))
    <3>1. i - Len(a) \in 1..Len(b)
      BY <1>9, <2>2
    <3> QED
      BY <1>6, <1>8, <2>2, <3>1
  <2> QED
    BY <2>1, <2>2
<1>11. ASSUME NEW m \in Range(c.outR)
       PROVE  \E j \in DOMAIN msgs : j > Len(a) /\ msgs[j] = m
  <2>1. PICK k \in 1..Len(b) : b[k] = m
    BY <1>6
  <2> DEFINE j == Len(a) + k
  <2>2. j \in 1..(Len(a) + Len(b)) /\ ~(j <= Len(a)) /\ j - Len(a) = k /\ j > Len(a)
    BY <1>9, <2>1
  <2> HIDE DEF j
  <2>3. msgs[j] = m
    BY <1>8, <2>1, <2>2
  <2>4. j \in DOMAIN msgs
    BY <1>8, <1>9, <2>2
  <2> QED
    BY <2>2, <2>3, <2>4
<1>12. Carries(msgs, Len(c.acks), c)
  BY <1>1, <1>11 DEF Carries
<1> QED
  BY <1>1, <1>8, <1>10, <1>12 DEF b

\* A session has one direction: its dialer is not the host it was dialled to.
LEMMA OneDirection ==
    ASSUME NEW O, NEW A, NEW V, NEW E, KeysInOrder(O, A, V, E),
           NEW f, NEW t, NEW s, <<f, t, s>> \in O
    PROVE  <<t, f, s>> \notin O /\ <<t, f, s>> \notin A /\ f # t
BY DEF KeysInOrder

\* Any datagram of a client in use has the client's key.
LEMMA SentKey ==
    ASSUME NEW h \in Hosts, NEW c, Sound(c), ~Silent(c),
           NEW O, NEW A, NEW V, NEW E, KeysInOrder(O, A, V, E), ClientKey(h, c, O, A, V),
           NEW t \in Seq(Header), NEW r, Resendable(c, r), NEW timed,
           NEW msgs, msgs = Outgoing(c, t, r), msgs # <<>>
    PROVE  /\ DatagramKey(DatagramOf(h, c, timed, msgs), O, A, V)
           /\ AcksFirst(DatagramOf(h, c, timed, msgs))
<1> DEFINE d == DatagramOf(h, c, timed, msgs)
<1>1. /\ d.src = h /\ d.dst = c.peer /\ d.session = c.session /\ d.bound = c.bound
      /\ d.msgs = msgs
  BY DEF DatagramOf
<1> HIDE DEF d
<1>2. c \in Client
  BY DEF Sound
<1>3. /\ msgs \in Seq(Message) /\ Len(c.acks) \in Nat
      /\ Len(msgs) = Len(c.acks) + Len(r \o c.outR)
      /\ \A i \in DOMAIN msgs :
           IF i <= Len(c.acks) THEN msgs[i].type = "ACKNOWLEDGE" ELSE msgs[i] \in Pending(c)
      /\ Carries(msgs, Len(c.acks), c)
  BY <1>2, SentMessages
<1>4. DOMAIN msgs = 1..Len(msgs) /\ Len(msgs) \in Nat /\ Len(msgs) > 0
  <2>1. msgs \in Seq(Message) /\ msgs # <<>>
    BY <1>3
  <2> QED
    BY <2>1
<1>5. /\ c.state # "DISCONNECTED"
      /\ Dials(h, c, O, V) \/ Answers(h, c, A, V)
      /\ \A m \in Pending(c) :
           /\ m.type # "ACKNOWLEDGE"
           /\ m.type = "CONNECT" => Dials(h, c, O, V)
           /\ m.type = "VALIDATE_CONNECT" => Answers(h, c, A, V)
  BY DEF ClientKey, Silent
<1>6. \A i \in DOMAIN msgs : msgs[i].type = "ACKNOWLEDGE" \/ msgs[i] \in Pending(c)
  BY <1>3
<1>7. \/ <<h, c.peer, c.session>> \in O /\ (c.bound => <<h, c.peer, c.session>> \in V)
      \/ <<c.peer, h, c.session>> \in A /\ c.bound
  BY <1>5 DEF Dials, Answers
<1>8. \A x \in Types(d) : \E i \in DOMAIN msgs : msgs[i].type = x
  BY <1>1 DEF Types
<1>9. "CONNECT" \in Types(d) => <<h, c.peer, c.session>> \in O
  BY <1>5, <1>6, <1>8 DEF Dials
<1>10. "VALIDATE_CONNECT" \in Types(d) => <<c.peer, h, c.session>> \in A
  BY <1>5, <1>6, <1>8 DEF Answers
<1>11. ASSUME <<c.peer, h, c.session>> \in A \ V
       PROVE  /\ Types(d) \subseteq
                   {"ACKNOWLEDGE", "VALIDATE_CONNECT", "DISCONNECT", "CONFIGURE_THROTTLE"}
              /\ AcksValidated(msgs)
  <2>1. <<c.peer, h, c.session>> \in O
    BY <1>11 DEF KeysInOrder
  <2>2. ~Dials(h, c, O, V)
    BY <2>1, OneDirection DEF Dials
  <2>3. Answers(h, c, A, V) /\ c.state = "ACKNOWLEDGING_CONNECT"
    BY <1>5, <1>11, <2>2 DEF Answers, Silent
  <2>4. /\ \A m \in Pending(c) : m.type \in {"VALIDATE_CONNECT", "CONFIGURE_THROTTLE"}
        /\ c.acks = <<>> \/ \E m \in Range(c.outR) : m.type = "VALIDATE_CONNECT"
    BY <2>3 DEF Answers
  <2>5. Types(d) \subseteq {"ACKNOWLEDGE", "VALIDATE_CONNECT", "CONFIGURE_THROTTLE"}
    BY <1>6, <1>8, <2>4
  <2>6. ASSUME NEW i \in DOMAIN msgs, msgs[i].type = "ACKNOWLEDGE"
        PROVE  \E j \in DOMAIN msgs : j > i /\ msgs[j].type = "VALIDATE_CONNECT"
    <3>1. i <= Len(c.acks)
      BY <1>3, <1>5, <2>6
    <3>2. c.acks # <<>>
      <4>1. Len(<<>>) = 0 /\ i >= 1 /\ i \in Nat
        BY <1>4
      <4> QED
        BY <1>3, <3>1, <4>1
    <3>3. PICK m \in Range(c.outR) : m.type = "VALIDATE_CONNECT"
      BY <2>4, <3>2
    <3>4. PICK j \in DOMAIN msgs : j > Len(c.acks) /\ msgs[j] = m
      BY <1>3, <3>3 DEF Carries
    <3>5. j > i
      <4>1. i \in Nat /\ j \in Nat
        BY <1>4
      <4> QED
        BY <1>3, <3>1, <3>4, <4>1
    <3> QED
      BY <3>3, <3>4, <3>5
  <2> QED
    BY <2>5, <2>6 DEF AcksValidated
<1>12. DatagramKey(d, O, A, V)
  BY <1>1, <1>7, <1>9, <1>10, <1>11 DEF DatagramKey
<1>13. \A j \in DOMAIN msgs : msgs[j].type = "ACKNOWLEDGE" => j <= Len(c.acks)
  BY <1>3, <1>5
<1>14. AcksFirst(d)
  <2> SUFFICES ASSUME NEW i \in DOMAIN msgs, NEW j \in DOMAIN msgs, i < j,
                      msgs[j].type = "ACKNOWLEDGE"
               PROVE  msgs[i].type = "ACKNOWLEDGE"
    BY <1>1 DEF AcksFirst
  <2>1. i <= Len(c.acks)
    <3>1. i \in 1..Len(msgs) /\ j \in 1..Len(msgs) /\ j <= Len(c.acks) /\ Len(c.acks) \in Nat
      BY <1>3, <1>4, <1>13, Zenon
    <3> QED
      BY <1>4, <3>1
  <2> QED
    BY <1>3, <2>1
<1> QED
  BY <1>12, <1>14 DEF d

\* So has the DISCONNECT of a client that goes without waiting.
LEMMA FarewellKey ==
    ASSUME NEW h \in Hosts, NEW c, c.state # "DISCONNECTED", NEW O, NEW A, NEW V,
           ClientKey(h, c, O, A, V), NEW m, m.type = "DISCONNECT"
    PROVE  /\ DatagramKey(DatagramOf(h, c, FALSE, <<m>>), O, A, V)
           /\ AcksFirst(DatagramOf(h, c, FALSE, <<m>>))
<1> DEFINE d == DatagramOf(h, c, FALSE, <<m>>)
<1>1. /\ d.src = h /\ d.dst = c.peer /\ d.session = c.session /\ d.bound = c.bound
      /\ d.msgs = <<m>>
  BY DEF DatagramOf
<1> HIDE DEF d
<1>2. DOMAIN d.msgs = {1} /\ Len(d.msgs) = 1 /\ d.msgs[1].type = "DISCONNECT" /\ d.msgs # <<>>
  BY <1>1
<1>3. Types(d) = {"DISCONNECT"}
  BY <1>2 DEF Types
<1>4. Dials(h, c, O, V) \/ Answers(h, c, A, V)
  BY DEF ClientKey
<1>5. DatagramKey(d, O, A, V)
  BY <1>1, <1>2, <1>3, <1>4 DEF DatagramKey, Dials, Answers, AcksValidated
<1>6. AcksFirst(d)
  BY <1>2 DEF AcksFirst
<1> QED
  BY <1>5, <1>6 DEF d

-----------------------------------------------------------------------------
(* Parts of a step.                                                         *)

LEMMA PutKeys ==
    ASSUME NEW O, NEW A, NEW V, NetKeys(net, O, A, V),
           NEW d, DatagramKey(d, O, A, V), AcksFirst(d)
    PROVE  NetKeys(Put(d), O, A, V)
BY DEF NetKeys, Put

\* Transmitting adds a datagram with a key, or none.
LEMMA TransmitKeys ==
    ASSUME TypeOK, NEW O, NEW A, NEW V, NEW E, KeysInOrder(O, A, V, E), NetKeys(net, O, A, V),
           NEW h \in Hosts, NEW c, Sound(c), ClientKey(h, c, O, A, V),
           NEW r, Resendable(c, r), Transmit(h, c, r)
    PROVE  NetKeys(net', O, A, V)
<1> DEFINE msgs == Outgoing(c, tmpl[h], r)
           d == DatagramOf(h, c, r \o c.outR # <<>>, msgs)
<1>1. CASE Silent(c) \/ msgs = <<>>
  <2>1. net' = net
    BY <1>1 DEF Transmit, Outgoing
  <2> QED
    BY <2>1
<1>2. CASE ~Silent(c) /\ msgs # <<>>
  <2>1. net' = Put(d)
    BY <1>2 DEF Transmit, Outgoing
  <2>2. tmpl[h] \in Seq(Header)
    BY DEF TypeOK
  <2>3. DatagramKey(d, O, A, V) /\ AcksFirst(d)
    BY <1>2, <2>2, SentKey
  <2> HIDE DEF d
  <2> QED
    BY <2>1, <2>3, PutKeys
<1> QED
  BY <1>1, <1>2

\* A farewell adds one.
LEMMA FarewellKeys ==
    ASSUME NEW O, NEW A, NEW V, NetKeys(net, O, A, V),
           NEW h \in Hosts, ClientKey(h, client[h], O, A, V), client[h].state # "DISCONNECTED",
           Farewell(h)
    PROVE  NetKeys(net', O, A, V)
<1> DEFINE m == [type |-> "DISCONNECT", chan |-> "control", flag |-> "unseq",
                 seq |-> client[h].ctlSeq + 1, arg |-> 0]
           d == DatagramOf(h, client[h], FALSE, <<m>>)
<1>1. net' = Put(d)
  BY DEF Farewell
<1>2. m.type = "DISCONNECT"
  OBVIOUS
<1> HIDE DEF m
<1>3. DatagramKey(d, O, A, V) /\ AcksFirst(d)
  BY <1>2, FarewellKey
<1> HIDE DEF d
<1> QED
  BY <1>1, <1>3, PutKeys

\* d is still in the handshake only if c was, and with no less to send.
Waits(d, c) ==
    d.state = "CONNECTING" => c.state = "CONNECTING" /\ Pending(c) \subseteq Pending(d)

LEMMA AfterSendWaits ==
    ASSUME NEW c \in Client
    PROVE  Waits(AfterSend(c), c)
<1> DEFINE a == AcksSent(c)
           s == Sent(c)
<1>1. a.state \in {c.state, "ZOMBIE"} /\ a.sent = c.sent /\ a \in Client
  <2>1. <<>> \in Seq(Ack)
    OBVIOUS
  <2> QED
    BY <2>1 DEF AcksSent, Client, States
<1>2. s = [a EXCEPT !.outR = <<>>, !.sent = a.sent \union Range(c.outR)]
  BY DEF Sent
<1> HIDE DEF a, s
<1>3. s.state = a.state /\ s.outR = <<>> /\ s.sent = c.sent \union Range(c.outR)
  BY <1>1, <1>2 DEF Client
<1>4. Pending(s) = Pending(c)
  BY <1>3, RangeEmpty DEF Pending
<1> QED
  BY <1>1, <1>3, <1>4 DEF Waits, AfterSend, s

LEMMA DispatchedWaits ==
    ASSUME NEW c \in Client
    PROVE  Waits(Dispatched(c), c)
<1> DEFINE n == [c EXCEPT !.inRel = @ + 1, !.inQ = @ \ {c.inRel + 1}]
           u == [c EXCEPT !.state = "CONNECTED"]
<1>1. Dispatched(c) \in {Blank, c, u} \/ (c.state = "CONNECTED" /\ Dispatched(c) = n)
  BY DEF Dispatched
<1>2. u.state = "CONNECTED" /\ n.state = c.state /\ Blank.state = "DISCONNECTED"
  BY DEF Client, Blank
<1> HIDE DEF n, u
<1> QED
  BY <1>1, <1>2 DEF Waits

LEMMA ThrottledWaits ==
    ASSUME NEW h, client[h] \in Client, NEW t \in Throttled(h)
    PROVE  Waits(t[1], client[h])
<1> DEFINE q == QueueOut(client[h], "PING", "control")
<1>1. q.state = client[h].state
  BY DEF QueueOut, Client
<1>2. CASE t = <<client[h], reconf[h]>>
  BY <1>2 DEF Waits
<1>3. CASE t = <<q, FALSE>> /\ Connected(client[h])
  BY <1>1, <1>3 DEF Waits, Connected
<1> QED
  BY <1>2, <1>3 DEF Throttled

LEMMA WaitsTransitive ==
    ASSUME NEW c, NEW d, NEW e, Waits(d, c), Waits(e, d)
    PROVE  Waits(e, c)
BY DEF Waits

\* What is left of a datagram after its first message.
LEMMA RestOf ==
    ASSUME NEW d \in Datagram, d.msgs # <<>>
    PROVE  \/ Len(d.msgs) = 1 /\ Rest(d).msgs = <<>>
           \/ /\ Len(d.msgs) # 1 /\ Rest(d).msgs # <<>>
              /\ Rest(d).src = d.src /\ Rest(d).dst = d.dst
              /\ Rest(d).session = d.session /\ Rest(d).bound = d.bound
              /\ Types(Rest(d)) \subseteq Types(d)
              /\ Types(d) = Types(Rest(d)) \union {Head(d.msgs).type}
              /\ AcksValidated(d.msgs) => AcksValidated(Rest(d).msgs)
<1>1. CASE Len(d.msgs) = 1
  BY <1>1 DEF Rest, NoDatagram
<1>2. CASE Len(d.msgs) # 1
  <2> DEFINE s == d.msgs
             r == [d EXCEPT !.msgs = Tail(s)]
  <2>1. s \in Seq(Message) /\ s # <<>> /\ Len(s) # 1
    BY <1>2 DEF Datagram
  <2>2. /\ r.src = d.src /\ r.dst = d.dst /\ r.session = d.session /\ r.bound = d.bound
        /\ r.msgs = Tail(s) /\ Rest(d) = r
    BY <1>2 DEF Datagram, Rest
  <2> HIDE DEF s, r
  <2>3. /\ Tail(s) \in Seq(Message) /\ Len(Tail(s)) = Len(s) - 1 /\ Len(s) \in Nat
        /\ \A i \in 1..Len(Tail(s)) : Tail(s)[i] = s[i + 1]
        /\ Len(Tail(s)) > 0 /\ Len(Tail(s)) # 0
        /\ DOMAIN Tail(s) = 1..Len(Tail(s)) /\ DOMAIN s = 1..Len(s)
    BY <2>1
  <2>4. Tail(s) # <<>>
    <3>1. Len(<<>>) = 0
      OBVIOUS
    <3> QED
      BY <2>3, <3>1, Zenon
  <2>5. \A i \in DOMAIN Tail(s) : i + 1 \in DOMAIN s /\ i \in Nat
    BY <2>3
  <2>6. \A j \in DOMAIN s : j \in Nat /\ (j = 1 \/ (j > 1 /\ j - 1 \in DOMAIN Tail(s) /\ Tail(s)[j - 1] = s[j]))
    BY <2>3
  <2>7. s[1] = Head(s) /\ 1 \in DOMAIN s
    BY <2>1
  <2>8. {s[i].type : i \in DOMAIN s} = {Tail(s)[i].type : i \in DOMAIN Tail(s)} \union {Head(s).type}
    <3> DEFINE t == Tail(s)
               n == Head(s)
    <3>1. \A i \in DOMAIN t : i + 1 \in DOMAIN s /\ t[i] = s[i + 1]
      BY <2>3, <2>5
    <3>2. \A j \in DOMAIN s : s[j] = n \/ \E i \in DOMAIN t : t[i] = s[j]
      BY <2>6, <2>7
    <3>3. n = s[1] /\ 1 \in DOMAIN s
      BY <2>7
    <3> HIDE DEF t, n
    <3>4. {s[i].type : i \in DOMAIN s} \subseteq {t[i].type : i \in DOMAIN t} \union {n.type}
      BY <3>2
    <3>5. {t[i].type : i \in DOMAIN t} \union {n.type} \subseteq {s[i].type : i \in DOMAIN s}
      BY <3>1, <3>3
    <3> QED
      BY <3>4, <3>5 DEF t, n
  <2>9. Types(d) = Types(r) \union {Head(s).type}
    BY <2>2, <2>8 DEF Types, s
  <2>10. ASSUME AcksValidated(s) PROVE AcksValidated(Tail(s))
    <3> SUFFICES ASSUME NEW i \in DOMAIN Tail(s), Tail(s)[i].type = "ACKNOWLEDGE"
                 PROVE  \E j \in DOMAIN Tail(s) : j > i /\ Tail(s)[j].type = "VALIDATE_CONNECT"
      BY DEF AcksValidated
    <3>1. i + 1 \in DOMAIN s /\ i \in Nat /\ s[i + 1].type = "ACKNOWLEDGE"
      BY <2>3, <2>5
    <3>2. PICK j \in DOMAIN s : j > i + 1 /\ s[j].type = "VALIDATE_CONNECT"
      BY <2>10, <3>1 DEF AcksValidated
    <3>3. j \in Nat /\ j # 1 /\ j - 1 > i
      BY <2>6, <3>1, <3>2
    <3>4. j - 1 \in DOMAIN Tail(s) /\ Tail(s)[j - 1] = s[j]
      BY <2>6, <3>3
    <3> QED
      BY <3>2, <3>3, <3>4
  <2>11. Types(r) \subseteq Types(d)
    BY <2>9
  <2> QED
    BY <1>2, <2>2, <2>4, <2>9, <2>10, <2>11 DEF s
<1> QED
  BY <1>1, <1>2

\* It is claimed as the datagram was.
LEMMA RestClaimed ==
    ASSUME NEW h, NEW d \in Datagram, d.msgs # <<>>, NEW c, NEW a, NEW O, NEW A, NEW V,
           Claimed(h, d, c, a, O, A, V)
    PROVE  Claimed(h, Rest(d), c, a, O, A, V)
<1> DEFINE r == Rest(d)
<1> SUFFICES ASSUME r.msgs # <<>> PROVE Claimed(h, r, c, a, O, A, V)
  BY DEF Claimed
<1>1. /\ r.src = d.src /\ r.dst = d.dst /\ r.session = d.session /\ r.bound = d.bound
      /\ Types(r) \subseteq Types(d)
      /\ AcksValidated(d.msgs) => AcksValidated(r.msgs)
  BY RestOf
<1> HIDE DEF r
<1>2. DatagramKey(r, O, A, V)
  BY <1>1 DEF Claimed, DatagramKey
<1> QED
  BY <1>1, <1>2 DEF Claimed

LEMMA ClaimedFollows ==
    ASSUME NEW h, NEW d, NEW c, NEW e, NEW a, NEW O, NEW A, NEW V,
           Claimed(h, d, c, a, O, A, V), Follows(e, c)
    PROVE  Claimed(h, d, e, a, O, A, V)
BY DEF Claimed, Follows

-----------------------------------------------------------------------------
(* A step of h that adds nothing to the log.                                *)

\* The parts of the invariant a step of h can disturb, if it logs nothing.
LEMMA QuietStep ==
    ASSUME IInv, KInv, NEW h \in Hosts, UNCHANGED <<log, calls>>,
           NEW c, client' = [client EXCEPT ![h] = c], Follows(c, client[h]),
           \A k \in Hosts \ {h} : rx'[k] = rx[k] /\ at'[k] = at[k],
           Claimed(h, rx'[h], c, at'[h], Offered, Accepted, Validated),
           Repeats(rx'[h], c),
           NetKeys(net', Offered, Accepted, Validated)
    PROVE  KInv'
<1>1. /\ Offered' = Offered /\ Accepted' = Accepted
      /\ Validated' = Validated /\ Established' = Established
  BY DEF Offered, Accepted, Validated, Established, Phase
<1>2. client'[h] = c /\ \A k \in Hosts \ {h} : client'[k] = client[k]
  BY DEF IInv, TypeOK
<1>3. Drawn'
  BY <1>1 DEF KInv, Drawn
<1>4. ASSUME NEW k \in Hosts
      PROVE  HostInv(k, Offered, Accepted, Validated)'
  <2>1. CASE k = h
    <3>1. ClientKey(h, c, Offered, Accepted, Validated)
      BY FollowsKeepsKey DEF KInv, HostInv
    <3> QED
      BY <1>1, <1>2, <2>1, <3>1 DEF HostInv
  <2>2. CASE k # h
    BY <1>1, <1>2, <2>2 DEF KInv, HostInv
  <2> QED
    BY <2>1, <2>2
<1> QED
  BY <1>1, <1>3, <1>4 DEF KInv

\* A poll that is between datagrams, or a host outside poll, has nothing to read.
LEMMA NothingToRead ==
    ASSUME KInv, NEW h \in Hosts, at[h] = "app" \/ rx[h].msgs = <<>>
    PROVE  /\ rx[h].msgs = <<>>
           /\ client[h].state = "CONNECTING" => WaitsFor(client[h], "CONNECT")
<1>1. rx[h].msgs = <<>>
  BY DEF KInv, HostInv, Claimed
<1>2. Types(rx[h]) = {}
  BY <1>1 DEF Types
<1> QED
  BY <1>1, <1>2 DEF KInv, HostInv, Repeats

LEMMA EmptyClaimed ==
    ASSUME NEW h, NEW d, d.msgs = <<>>, NEW c, NEW a, NEW O, NEW A, NEW V
    PROVE  Claimed(h, d, c, a, O, A, V)
BY DEF Claimed

LEMMA WaitsRepeats ==
    ASSUME NEW c, NEW b, NEW d, Waits(c, b), b.state = "CONNECTING" => WaitsFor(b, "CONNECT")
    PROVE  Repeats(d, c)
BY DEF Repeats, Waits, WaitsFor

\* A step of h with nothing to read.
LEMMA StillStep ==
    ASSUME IInv, KInv, NEW h \in Hosts, UNCHANGED <<log, calls>>,
           at[h] = "app" \/ rx[h].msgs = <<>>,
           NEW c, client' = [client EXCEPT ![h] = c],
           Follows(c, client[h]), Waits(c, client[h]),
           \A k \in Hosts \ {h} : rx'[k] = rx[k] /\ at'[k] = at[k],
           rx'[h].msgs = <<>>,
           NetKeys(net', Offered, Accepted, Validated)
    PROVE  KInv'
<1>1. Claimed(h, rx'[h], c, at'[h], Offered, Accepted, Validated)
  BY EmptyClaimed
<1>2. Repeats(rx'[h], c)
  BY NothingToRead, WaitsRepeats
<1> QED
  BY <1>1, <1>2, QuietStep

\* A call of the application that makes c of the client.
LEMMA CallStep ==
    ASSUME IInv, KInv, NEW h \in Hosts, UNCHANGED <<log, calls>>, at[h] = "app",
           NEW c, Become(h, c), Follows(c, client[h]), Waits(c, client[h]),
           NetKeys(net', Offered, Accepted, Validated)
    PROVE  KInv'
<1>1. /\ client' = [client EXCEPT ![h] = c]
      /\ \A k \in Hosts \ {h} : rx'[k] = rx[k] /\ at'[k] = at[k]
      /\ rx'[h].msgs = <<>>
  BY NothingToRead DEF Become
<1> QED
  BY <1>1, StillStep

\* A poll that returns with nothing left to read.
LEMMA ReturnStep ==
    ASSUME IInv, KInv, NEW h \in Hosts, UNCHANGED <<log, calls>>,
           at[h] = "app" \/ rx[h].msgs = <<>>,
           NEW c, client' = [client EXCEPT ![h] = c], NEW o, Return(h, o),
           Follows(c, client[h]), Waits(c, client[h]),
           NetKeys(net', Offered, Accepted, Validated)
    PROVE  KInv'
<1>1. \A k \in Hosts \ {h} : rx'[k] = rx[k] /\ at'[k] = at[k]
  BY DEF IInv, TypeOK, Return
<1>2. rx'[h].msgs = <<>>
  BY DEF IInv, TypeOK, Return, NoDatagram
<1> QED
  BY <1>1, <1>2, StillStep

\* Nothing new in the network.
LEMMA SameNet ==
    ASSUME KInv, UNCHANGED net
    PROVE  NetKeys(net', Offered, Accepted, Validated)
BY DEF KInv

\* What the clients of the invariant have.
LEMMA ClientFacts ==
    ASSUME IInv, KInv, NEW h \in Hosts
    PROVE  /\ Sound(client[h]) /\ client[h] \in Client
           /\ ClientKey(h, client[h], Offered, Accepted, Validated)
           /\ NetKeys(net, Offered, Accepted, Validated)
           /\ KeysInOrder(Offered, Accepted, Validated, Established)
           /\ TypeOK /\ rx[h] \in Datagram
BY DEF IInv, KInv, HostInv, Sound, TypeOK

\* Transmitting what is left of the client of a host.
LEMMA TransmitStep ==
    ASSUME IInv, KInv, NEW h \in Hosts, NEW c, Sound(c), Follows(c, client[h]),
           NEW r, Resendable(c, r), Transmit(h, c, r)
    PROVE  NetKeys(net', Offered, Accepted, Validated)
<1>1. ClientKey(h, c, Offered, Accepted, Validated)
  BY ClientFacts, FollowsKeepsKey
<1> QED
  BY <1>1, ClientFacts, TransmitKeys

\* The calls of the application, but connect.
LEMMA CallsKeepKeys ==
    ASSUME IInv, KInv, NEW h \in Hosts, Application(h), ~Connect(h)
    PROVE  KInv'
<1> DEFINE c == client[h]
<1>1. /\ Sound(c) /\ c \in Client /\ Follows(Blank, c) /\ Waits(Blank, c)
      /\ ClientKey(h, c, Offered, Accepted, Validated)
      /\ NetKeys(net, Offered, Accepted, Validated)
  BY ClientFacts, BlankFollows DEF Waits, Blank
<1>2. {"PING", "RELIABLE_DATA"} \subseteq MessageTypes \ HandshakeTypes
      /\ {"control", "data"} \subseteq Channels
  BY DEF MessageTypes, HandshakeTypes, Channels
<1>3. ASSUME NEW type \in {"PING", "RELIABLE_DATA"}, NEW chan \in {"control", "data"},
             c.state = "CONNECTED"
      PROVE  Follows(QueueOut(c, type, chan), c) /\ Waits(QueueOut(c, type, chan), c)
  <2>1. Follows(QueueOut(c, type, chan), c)
    BY <1>1, <1>2, <1>3, QueueOutFollows, Zenon
  <2>2. QueueOut(c, type, chan).state = "CONNECTED"
    BY <1>1, <1>3 DEF QueueOut, Client
  <2> QED
    BY <2>1, <2>2 DEF Waits
<1>4. ASSUME Close(h), at[h] = "app" PROVE KInv'
  <2>1. CASE Connected(c) /\ Become(h, CloseConnected(c)) /\ UNCHANGED net
    <3>1. c.state \notin Early
      BY <2>1 DEF Connected, Early
    <3>2. Follows(CloseConnected(c), c)
      BY <1>1, <3>1, ClearedFollows
    <3>3. CloseConnected(c).state = "DISCONNECTING"
      BY <1>1 DEF CloseConnected, QueueOut, ClearQueues, Client
    <3>4. UNCHANGED <<log, calls>>
      BY <1>4 DEF Close
    <3> QED
      BY <1>4, <2>1, <3>2, <3>3, <3>4, SameNet, CallStep DEF Waits
  <2>2. CASE Become(h, Blank) /\ (Farewell(h) \/ UNCHANGED net)
    <3>1. c.state # "DISCONNECTED" /\ UNCHANGED <<log, calls>>
      BY <1>4 DEF Close
    <3>2. NetKeys(net', Offered, Accepted, Validated)
      BY <1>1, <2>2, <3>1, SameNet, FarewellKeys
    <3> QED
      BY <1>1, <1>4, <2>2, <3>1, <3>2, CallStep
  <2> QED
    BY <1>4, <2>1, <2>2 DEF Close
<1>5. CASE Ping(h)
  BY <1>3, <1>5, SameNet, CallStep DEF Ping, Calls, Idle
<1>6. CASE SendData(h)
  BY <1>3, <1>6, SameNet, CallStep DEF SendData, Calls, Idle
<1>7. CASE Flush(h)
  <2>1. NetKeys(net', Offered, Accepted, Validated)
    BY <1>1, <1>7, SameFollows, ResendsAreResendable, TransmitStep DEF Flush
  <2>2. Follows(AfterSend(c), c) /\ Waits(AfterSend(c), c)
    BY <1>1, AfterSendFollows, AfterSendWaits
  <2> QED
    BY <1>7, <2>1, <2>2, CallStep DEF Flush, Calls, Idle
<1>8. CASE CloseGracefully(h)
  BY <1>4, <1>8 DEF CloseGracefully, Calls, Idle
<1>9. CASE CloseLater(h)
  <2> DEFINE d == [c EXCEPT !.state = "DELAYING_DISCONNECT"]
  <2>1. CASE /\ Connected(c) /\ Become(h, d) /\ UNCHANGED <<net, calls, log>>
    <3>1. "DELAYING_DISCONNECT" \in States \ Early /\ c.state \notin Early
      BY <2>1 DEF States, Early, Connected
    <3>2. Follows(d, c)
      BY <1>1, <3>1, StateFollows DEF Early
    <3>3. Waits(d, c)
      BY <1>1 DEF Waits, Client
    <3> HIDE DEF d
    <3> QED
      BY <1>9, <2>1, <3>2, <3>3, SameNet, CallStep DEF CloseLater, Calls, Idle
  <2> QED
    BY <1>4, <1>9, <2>1 DEF CloseLater, Calls, Idle
<1>10. CASE CloseNow(h)
  <2>1. NetKeys(net', Offered, Accepted, Validated)
    BY <1>1, <1>10, SameNet, FarewellKeys DEF CloseNow
  <2> QED
    BY <1>1, <1>10, <2>1, CallStep DEF CloseNow, Calls, Idle
<1>11. CASE DestroyClient(h)
  BY <1>1, <1>11, SameNet, CallStep DEF DestroyClient, Calls, Idle
<1>12. CASE SetThrottle(h)
  <2>1. PICK v \in Configurations :
          Become(h, QueueOut([c EXCEPT !.throttle = v], "CONFIGURE_THROTTLE", "control"))
    BY <1>12 DEF SetThrottle
  <2> DEFINE d == [c EXCEPT !.throttle = v]
             q == QueueOut(d, "CONFIGURE_THROTTLE", "control")
  <2>2. v \in Nat /\ c.state # "DISCONNECTED"
    BY <1>12, ConfigurationsAssumption DEF SetThrottle
  <2>3. Sound(d) /\ d.state = c.state /\ Pending(d) = Pending(c) /\ Follows(d, c)
    BY <1>1, <2>2, WithThrottle, WithThrottleFollows
  <2> HIDE DEF d
  <2>4. "CONFIGURE_THROTTLE" \in MessageTypes \ HandshakeTypes /\ "control" \in Channels
    BY DEF MessageTypes, HandshakeTypes, Channels
  <2>5. Follows(q, d)
    BY <2>2, <2>3, <2>4, QueueOutFollows DEF Sound
  <2>6. Pending(c) \subseteq Pending(q) /\ q.state = c.state
    BY <2>3, <2>4, QueueOutAdds DEF Sound
  <2> HIDE DEF q
  <2>7. Follows(q, c) /\ Waits(q, c)
    BY <2>3, <2>5, <2>6, FollowsTransitive DEF Waits
  <2>8. Become(h, q)
    BY <2>1 DEF q, d
  <2> QED
    BY <1>12, <2>7, <2>8, SameNet, CallStep DEF SetThrottle, Calls, Idle
<1> QED
  BY <1>5, <1>6, <1>7, <1>8, <1>9, <1>10, <1>11, <1>12 DEF Application

\* The steps of a poll outside its receive loop.
LEMMA PollsKeepKeys ==
    ASSUME IInv, KInv, NEW h \in Hosts,
           PollDispatch(h) \/ PollSend(h) \/ PollGivesUp(h) \/ PollEnd(h)
    PROVE  KInv'
<1> DEFINE b == client[h]
<1>1. b \in Client /\ Sound(b)
  BY ClientFacts
<1>2. CASE PollDispatch(h)
  BY <1>1, <1>2, DispatchedFollows, DispatchedWaits, SameNet, ReturnStep DEF PollDispatch, Idle
<1>3. CASE PollSend(h)
  <2>1. PICK t \in Throttled(h) :
          /\ \E r \in Resends(t[1]) : Transmit(h, t[1], r)
          /\ client' = [client EXCEPT ![h] = AfterSend(t[1])]
          /\ at' = [at EXCEPT ![h] = "receive"]
          /\ UNCHANGED <<rx, calls, log>>
    BY <1>3 DEF PollSend
  <2> DEFINE c == AfterSend(t[1])
  <2>2. at[h] = "app" /\ rx[h].msgs = <<>>
    BY <1>3, NothingToRead DEF PollSend, PollStarts, Idle
  <2>3. Sound(t[1]) /\ t[1] \in Client /\ Follows(t[1], b) /\ Waits(t[1], b)
    BY <1>1, ThrottledSound, ThrottledFollows, ThrottledWaits DEF Sound
  <2>4. NetKeys(net', Offered, Accepted, Validated)
    BY <2>1, <2>3, ResendsAreResendable, TransmitStep
  <2>5. Follows(c, t[1]) /\ Waits(c, t[1])
    BY <2>3, AfterSendFollows, AfterSendWaits
  <2>6. Follows(c, b) /\ Waits(c, b)
    BY <2>3, <2>5, FollowsTransitive, WaitsTransitive
  <2>7. \A k \in Hosts \ {h} : rx'[k] = rx[k] /\ at'[k] = at[k]
    BY <2>1 DEF IInv, TypeOK
  <2> HIDE DEF c
  <2> QED
    BY <2>1, <2>2, <2>4, <2>6, <2>7, StillStep DEF c
<1>4. CASE PollGivesUp(h)
  <2>1. PICK s \in Sinks, t \in Throttled(h), o \in Results :
          /\ ~Silent(t[1])
          /\ client' = [client EXCEPT ![h] = NotifyDisconnect(AcksSent(t[1]), s)]
          /\ Return(h, o)
          /\ UNCHANGED <<net, calls, log>>
    BY <1>4 DEF PollGivesUp, Results, Events
  <2> DEFINE a == AcksSent(t[1])
             c == NotifyDisconnect(a, s)
  <2>2. at[h] = "app"
    BY <1>4 DEF PollGivesUp, PollStarts, Idle
  <2>3. Sound(t[1]) /\ t[1] \in Client /\ Follows(t[1], b)
    BY <1>1, ThrottledSound, ThrottledFollows DEF Sound
  <2>4. Follows(a, t[1]) /\ a \in Client /\ a.state \in {t[1].state, "ZOMBIE"}
    <3>1. a \in Client
      BY <2>3, AfterSendSound DEF Sound
    <3>2. a.state \in {t[1].state, "ZOMBIE"}
      BY <2>3 DEF AcksSent, Client
    <3> QED
      BY <2>1, <2>3, <3>1, <3>2, AfterSendFollows
  <2>5. a.state # "DISCONNECTED"
    BY <2>1, <2>4 DEF Silent
  <2> HIDE DEF a
  <2>6. Follows(c, a)
    BY <2>4, <2>5, NotifyDisconnectFollows
  <2>7. Follows(c, b)
    BY <2>3, <2>4, <2>6, FollowsTransitive
  <2>8. c.state \in {"DISCONNECTED", "ZOMBIE"}
    <3>1. Blank.state = "DISCONNECTED" /\ [a EXCEPT !.state = "ZOMBIE"].state = "ZOMBIE"
      BY <2>4 DEF Blank, Client
    <3> QED
      BY <3>1 DEF NotifyDisconnect
  <2>9. Waits(c, b)
    BY <2>8 DEF Waits
  <2> HIDE DEF c
  <2> QED
    BY <2>1, <2>2, <2>7, <2>9, SameNet, ReturnStep DEF a, c
<1>5. CASE PollEnd(h)
  <2> DEFINE d == AfterSend(b)
             c == IF sink[h] THEN Dispatched(d) ELSE d
  <2>1. /\ client' = [client EXCEPT ![h] = c]
        /\ rx[h].msgs = <<>> /\ Transmit(h, b, <<>>) /\ UNCHANGED <<calls, log>>
    BY <1>5 DEF PollEnd
  <2>2. PICK o : Return(h, o)
    BY <1>5 DEF PollEnd
  <2>3. Follows(d, b) /\ Waits(d, b) /\ d \in Client
    BY <1>1, AfterSendFollows, AfterSendWaits, AfterSendSound DEF Sound
  <2> HIDE DEF d
  <2>4. Follows(c, d) /\ Waits(c, d)
    BY <2>3, DispatchedFollows, DispatchedWaits, SameFollows DEF Waits
  <2> HIDE DEF c
  <2>5. Follows(c, b) /\ Waits(c, b)
    BY <2>3, <2>4, FollowsTransitive, WaitsTransitive
  <2>6. NetKeys(net', Offered, Accepted, Validated)
    BY <1>1, <2>1, SameFollows, ResendsAreResendable, TransmitStep
  <2> QED
    BY <2>1, <2>2, <2>5, <2>6, ReturnStep
<1> QED
  BY <1>2, <1>3, <1>4, <1>5

\* A datagram is claimed by a client of its session, or starts with CONNECT.
LEMMA ReceiveKeepsKeys ==
    ASSUME IInv, KInv, NEW h \in Hosts, Receive(h)
    PROVE  KInv'
<1> DEFINE c == client[h]
<1>1. /\ at[h] = "receive" /\ rx[h].msgs = <<>>
      /\ UNCHANGED <<client, at, net, calls, log>>
  BY DEF Receive
<1>2. PICK d \in net : d.dst = h /\ (rx' = rx \/ (~Unclaimed(c, d) /\ rx' = [rx EXCEPT ![h] = d]))
  BY DEF Receive
<1>3. client' = [client EXCEPT ![h] = c] /\ Follows(c, c) /\ Waits(c, c)
  BY <1>1, SameFollows DEF Waits, IInv, TypeOK
<1>4. /\ DatagramKey(d, Offered, Accepted, Validated) /\ AcksFirst(d) /\ d \in Datagram
      /\ d.msgs \in Seq(Message)
  BY DEF KInv, NetKeys, IInv, TypeOK, Datagram
<1>5. c.state = "CONNECTING" => WaitsFor(c, "CONNECT")
  BY <1>1, NothingToRead
<1>6. \A x : Repeats(x, c)
  BY <1>3, <1>5, WaitsRepeats
<1>7. \A k \in Hosts \ {h} : rx'[k] = rx[k] /\ at'[k] = at[k]
  BY <1>1, <1>2 DEF IInv, TypeOK
<1>8. Claimed(h, rx'[h], c, at'[h], Offered, Accepted, Validated)
  <2>1. CASE rx' = rx
    BY <1>1, <2>1, EmptyClaimed
  <2>2. CASE ~Unclaimed(c, d) /\ rx' = [rx EXCEPT ![h] = d]
    <3>1. rx'[h] = d
      BY <2>2 DEF IInv, TypeOK
    <3>2. d.bound => c.peer = d.src /\ c.session = d.session
      BY <2>2 DEF Unclaimed
    <3>3. ASSUME ~d.bound PROVE "ACKNOWLEDGE" \notin Types(d)
      <4>1. Head(d.msgs).type = "CONNECT"
        BY <2>2, <3>3 DEF Unclaimed
      <4>2. 1 \in DOMAIN d.msgs /\ d.msgs[1].type = "CONNECT"
        BY <1>4, <4>1 DEF AcksFirst
      <4>3. ASSUME NEW j \in DOMAIN d.msgs PROVE d.msgs[j].type # "ACKNOWLEDGE"
        <5>1. j = 1 \/ 1 < j
          BY <1>4
        <5> QED
          BY <1>4, <4>2, <5>1 DEF AcksFirst
      <4> QED
        BY <4>3 DEF Types
    <3> QED
      BY <1>1, <1>2, <1>4, <3>1, <3>2, <3>3 DEF Claimed
  <2> QED
    BY <1>2, <2>1, <2>2
<1>9. NetKeys(net', Offered, Accepted, Validated)
  BY <1>1, SameNet
<1> HIDE DEF c
<1> QED
  BY <1>1, <1>3, <1>6, <1>7, <1>8, <1>9, QuietStep DEF c

-----------------------------------------------------------------------------
(* Handlers.                                                                *)

\* After a message the rest of its datagram is read, or none is left.
LEMMA AdvanceReads ==
    ASSUME IInv, KInv, NEW h \in Hosts, rx[h].msgs # <<>>, NEW e, Advance(h, e)
    PROVE  /\ rx'[h] = Rest(rx[h])
           /\ Claimed(h, rx'[h], client[h], at'[h], Offered, Accepted, Validated)
           /\ \A k \in Hosts \ {h} : rx'[k] = rx[k] /\ at'[k] = at[k]
           /\ UNCHANGED <<net, calls>>
<1>1. Claimed(h, rx[h], client[h], at[h], Offered, Accepted, Validated) /\ rx[h] \in Datagram
  BY ClientFacts DEF KInv, HostInv
<1>2. UNCHANGED <<net, calls>>
  BY DEF Advance
<1>3. CASE Len(rx[h].msgs) = 1 /\ Return(h, IF e = "none" THEN ev[h] ELSE e)
  <2>1. rx'[h] = NoDatagram /\ rx'[h] = Rest(rx[h]) /\ rx'[h].msgs = <<>>
    BY <1>3 DEF Return, Rest, IInv, TypeOK, NoDatagram
  <2>2. \A k \in Hosts \ {h} : rx'[k] = rx[k] /\ at'[k] = at[k]
    BY <1>3 DEF Return, IInv, TypeOK
  <2> QED
    BY <1>2, <2>1, <2>2, EmptyClaimed
<1>4. CASE rx' = [rx EXCEPT ![h] = Rest(rx[h])] /\ UNCHANGED at
  <2>1. rx'[h] = Rest(rx[h]) /\ \A k \in Hosts \ {h} : rx'[k] = rx[k] /\ at'[k] = at[k]
    BY <1>4 DEF IInv, TypeOK
  <2>2. Claimed(h, Rest(rx[h]), client[h], at[h], Offered, Accepted, Validated)
    BY <1>1, RestClaimed
  <2> QED
    BY <1>2, <1>4, <2>1, <2>2
<1> QED
  BY <1>3, <1>4 DEF Advance

\* What a waiting dialer gets in its session before the handshake is over.
LEMMA Unanswered ==
    ASSUME IInv, KInv, NEW h \in Hosts, client[h].state = "CONNECTING", rx[h].msgs # <<>>
    PROVE  /\ Head(rx[h].msgs).type \in Types(rx[h])
           /\ rx[h].bound =>
                /\ Types(rx[h]) \subseteq
                     {"ACKNOWLEDGE", "VALIDATE_CONNECT", "DISCONNECT", "CONFIGURE_THROTTLE"}
                /\ AcksValidated(rx[h].msgs)
           /\ ~rx[h].bound => {"ACKNOWLEDGE", "VALIDATE_CONNECT"} \intersect Types(rx[h]) = {}
<1> DEFINE c == client[h]
           d == rx[h]
<1>1. /\ d \in Datagram /\ d.msgs \in Seq(Message)
      /\ Claimed(h, d, c, at[h], Offered, Accepted, Validated)
      /\ KeysInOrder(Offered, Accepted, Validated, Established)
      /\ ClientKey(h, c, Offered, Accepted, Validated)
  BY ClientFacts DEF KInv, HostInv, Datagram
<1>2. Head(d.msgs).type \in Types(d)
  <2>1. 1 \in DOMAIN d.msgs /\ Head(d.msgs) = d.msgs[1]
    BY <1>1
  <2> QED
    BY <2>1 DEF Types
<1>3. /\ <<h, c.peer, c.session>> \in Offered /\ <<h, c.peer, c.session>> \notin Validated
  BY <1>1 DEF ClientKey, Dials, Answers
<1>4. ASSUME d.bound
      PROVE  <<d.dst, d.src, d.session>> \in Accepted \ Validated
  <2>1. d.dst = h /\ d.src = c.peer /\ d.session = c.session
    BY <1>1, <1>4 DEF Claimed
  <2>2. <<d.src, d.dst, d.session>> \notin Offered
    BY <1>1, <1>3, <2>1, OneDirection
  <2> QED
    BY <1>1, <1>3, <2>1, <2>2 DEF Claimed, DatagramKey
<1>5. d.bound =>
        /\ Types(d) \subseteq
             {"ACKNOWLEDGE", "VALIDATE_CONNECT", "DISCONNECT", "CONFIGURE_THROTTLE"}
        /\ AcksValidated(d.msgs)
  BY <1>1, <1>4 DEF Claimed, DatagramKey
<1>6. ASSUME "VALIDATE_CONNECT" \in Types(d) PROVE d.bound
  <2>1. <<d.dst, d.src, d.session>> \in Offered
    BY <1>1, <1>6 DEF Claimed, DatagramKey, KeysInOrder
  <2>2. <<d.src, d.dst, d.session>> \notin Offered
    BY <1>1, <2>1, OneDirection
  <2> QED
    BY <1>1, <2>2 DEF Claimed, DatagramKey
<1> QED
  BY <1>1, <1>2, <1>5, <1>6 DEF Claimed

\* A message that ends no wait, and takes nothing out.
LEMMA OthersRepeat ==
    ASSUME IInv, KInv, NEW h \in Hosts, rx[h].msgs # <<>>,
           Head(rx[h].msgs).type \in {"CONNECT", "PING", "RELIABLE_DATA"},
           NEW c, Waits(c, client[h])
    PROVE  \A d : Repeats(d, c)
<1>1. client[h].state = "CONNECTING" => WaitsFor(client[h], "CONNECT")
  <2> SUFFICES ASSUME client[h].state = "CONNECTING" PROVE WaitsFor(client[h], "CONNECT")
    OBVIOUS
  <2>1. "VALIDATE_CONNECT" \notin Types(rx[h])
    BY Unanswered
  <2> QED
    BY <2>1 DEF KInv, HostInv, Repeats
<1> QED
  BY <1>1, WaitsRepeats

\* Nor does a configuration; but VALIDATE_CONNECT may be behind it.
LEMMA ConfigurationRepeats ==
    ASSUME IInv, KInv, NEW h \in Hosts, rx[h].msgs # <<>>,
           Head(rx[h].msgs).type = "CONFIGURE_THROTTLE", NEW c, Waits(c, client[h])
    PROVE  Repeats(Rest(rx[h]), c)
<1> SUFFICES ASSUME c.state = "CONNECTING", ~WaitsFor(c, "CONNECT")
             PROVE  "VALIDATE_CONNECT" \in Types(Rest(rx[h]))
  BY DEF Repeats
<1>1. client[h].state = "CONNECTING" /\ ~WaitsFor(client[h], "CONNECT")
  BY DEF Waits, WaitsFor
<1>2. "VALIDATE_CONNECT" \in Types(rx[h])
  BY <1>1 DEF KInv, HostInv, Repeats
<1>3. Len(rx[h].msgs) # 1
  <2> SUFFICES ASSUME Len(rx[h].msgs) = 1 PROVE FALSE
    OBVIOUS
  <2>1. rx[h].msgs \in Seq(Message)
    BY ClientFacts DEF Datagram
  <2>2. DOMAIN rx[h].msgs = {1} /\ Head(rx[h].msgs) = rx[h].msgs[1]
    BY <2>1
  <2> QED
    BY <1>2, <2>2 DEF Types
<1> QED
  BY <1>2, <1>3, RestOf, ClientFacts

\* An acknowledgement that takes CONNECT out has VALIDATE_CONNECT behind it.
LEMMA AcknowledgeRepeats ==
    ASSUME IInv, KInv, NEW h \in Hosts, rx[h].msgs # <<>>,
           Head(rx[h].msgs).type = "ACKNOWLEDGE", client[h].state = "CONNECTING"
    PROVE  \A c : Repeats(Rest(rx[h]), c)
<1> DEFINE d == rx[h]
<1>1. AcksValidated(d.msgs) /\ d \in Datagram /\ d.msgs \in Seq(Message)
  BY Unanswered, ClientFacts DEF Datagram
<1>2. 1 \in DOMAIN d.msgs /\ Head(d.msgs) = d.msgs[1] /\ DOMAIN d.msgs = 1..Len(d.msgs)
  BY <1>1
<1>3. PICK j \in DOMAIN d.msgs : j > 1 /\ d.msgs[j].type = "VALIDATE_CONNECT"
  BY <1>1, <1>2 DEF AcksValidated
<1>4. "VALIDATE_CONNECT" \in Types(d) /\ Len(d.msgs) # 1
  BY <1>2, <1>3 DEF Types
<1>5. "VALIDATE_CONNECT" \in Types(Rest(d))
  BY <1>1, <1>4, RestOf
<1> QED
  BY <1>5 DEF Repeats

\* A handler that leaves a client its session and logs nothing.
LEMMA HandlerStep ==
    ASSUME IInv, KInv, NEW h \in Hosts, rx[h].msgs # <<>>, UNCHANGED log,
           NEW c, client' = [client EXCEPT ![h] = c], NEW e, Advance(h, e),
           Follows(c, client[h]), Repeats(Rest(rx[h]), c)
    PROVE  KInv'
<1>1. /\ rx'[h] = Rest(rx[h])
      /\ Claimed(h, rx'[h], client[h], at'[h], Offered, Accepted, Validated)
      /\ \A k \in Hosts \ {h} : rx'[k] = rx[k] /\ at'[k] = at[k]
      /\ UNCHANGED <<net, calls>>
  BY AdvanceReads
<1>2. Claimed(h, rx'[h], c, at'[h], Offered, Accepted, Validated)
  BY <1>1, ClaimedFollows
<1> QED
  BY <1>1, <1>2, SameNet, QuietStep

\* The same of one whose message may be acknowledged.
LEMMA HandledStep ==
    ASSUME IInv, KInv, NEW h \in Hosts, rx[h].msgs # <<>>, UNCHANGED log,
           NEW c \in Client, NEW e, Handled(h, c, e),
           Follows(c, client[h]), Repeats(Rest(rx[h]), c)
    PROVE  KInv'
<1>1. Head(rx[h].msgs) \in Message
  BY HeadTyped DEF IInv
<1>2. PICK a \in Acknowledge(c, Head(rx[h].msgs), rx[h]) : client' = [client EXCEPT ![h] = a]
  BY DEF Handled
<1>3. Follows(a, c) /\ Pending(a) = Pending(c) /\ a.state = c.state
  BY <1>1, <1>2, AcknowledgeFollows
<1>4. Follows(a, client[h])
  BY <1>3, FollowsTransitive
<1>5. Repeats(Rest(rx[h]), a)
  BY <1>3 DEF Repeats, WaitsFor
<1> QED
  BY <1>2, <1>4, <1>5, HandlerStep DEF Handled

\* This acknowledgement is of VALIDATE_CONNECT, and ends the handshake.
EndsHandshake(h) ==
    LET m == Head(rx[h].msgs)
    IN  /\ client[h].state = "ACKNOWLEDGING_CONNECT"
        /\ \E a \in Disposed(client[h], m.arg, m.chan) : a.type = "VALIDATE_CONNECT"

\* An acknowledgement that ends no handshake: of a close, of data, or of nothing.
LEMMA AcknowledgedStep ==
    ASSUME IInv, KInv, NEW h \in Hosts, HandleAcknowledge(h), ~EndsHandshake(h)
    PROVE  KInv'
<1> DEFINE c == client[h]
           m == Head(rx[h].msgs)
           d == Dispose(c, m.arg, m.chan)
           z == NotifyDisconnect(d, sink[h])
           k == CloseConnected(d)
<1>1. /\ Sound(c) /\ c \in Client /\ rx[h].msgs # <<>> /\ sink[h] \in BOOLEAN
      /\ m.type = "ACKNOWLEDGE" /\ UNCHANGED log
  BY ClientFacts DEF TypeOK, HandleAcknowledge, Handling, EndsHandshake
<1>2. /\ d \in Client /\ d.state = c.state /\ DistinctNumbers(d) /\ Counted(d)
      /\ Follows(d, c)
  BY <1>1, DisposeTakesOut, DisposeFollows DEF Sound
<1>3. \A e : e.state # "CONNECTING" => Repeats(Rest(rx[h]), e)
  BY DEF Repeats
<1>4. \/ /\ c.state \in {"ACKNOWLEDGING_CONNECT", "DISCONNECTING"}
         /\ Discarded(h, d)
      \/ c.state = "DISCONNECTING" /\ Handled(h, z, Announced(h, "DISCONNECT"))
      \/ c.state = "DELAYING_DISCONNECT" /\ Handled(h, k, "none")
      \/ Handled(h, d, "none")
  BY DEF HandleAcknowledge, EndsHandshake
<1> HIDE DEF d
<1>5. CASE c.state \in {"ACKNOWLEDGING_CONNECT", "DISCONNECTING"} /\ Discarded(h, d)
  BY <1>1, <1>2, <1>3, <1>5, HandlerStep DEF Discarded
<1>6. CASE c.state = "DISCONNECTING" /\ Handled(h, z, Announced(h, "DISCONNECT"))
  <2>1. z \in Client
    BY <1>1, <1>2, NotifySound DEF Sound
  <2>2. Follows(z, d)
    BY <1>2, <1>6, NotifyDisconnectFollows
  <2>3. z.state # "CONNECTING"
    BY <1>2 DEF NotifyDisconnect, Blank, Client
  <2> HIDE DEF z
  <2> QED
    BY <1>1, <1>2, <1>3, <1>6, <2>1, <2>2, <2>3, FollowsTransitive, HandledStep
<1>7. CASE c.state = "DELAYING_DISCONNECT" /\ Handled(h, k, "none")
  <2>1. k \in Client
    BY <1>2, CloseConnectedSound DEF Sound
  <2>2. d.state \notin Early
    BY <1>2, <1>7 DEF Early
  <2>3. Follows(k, d)
    BY <1>2, <2>2, ClearedFollows
  <2>4. k.state # "CONNECTING"
    BY <2>2, <2>3 DEF Follows, Early
  <2> HIDE DEF k
  <2> QED
    BY <1>1, <1>2, <1>3, <1>7, <2>1, <2>3, <2>4, FollowsTransitive, HandledStep
<1>8. CASE Handled(h, d, "none")
  <2>1. Repeats(Rest(rx[h]), d)
    BY <1>1, <1>2, <1>3, AcknowledgeRepeats
  <2> QED
    BY <1>1, <1>2, <1>8, <2>1, HandledStep
<1> QED
  BY <1>4, <1>5, <1>6, <1>7, <1>8

\* DISCONNECT ends the session, at once or when its acknowledgement has left.
LEMMA DisconnectKeepsKeys ==
    ASSUME IInv, KInv, NEW h \in Hosts, HandleDisconnect(h)
    PROVE  KInv'
<1> DEFINE c == client[h]
           q == ClearQueues(c)
           z == [q EXCEPT !.state = "ZOMBIE"]
           w == [q EXCEPT !.state = "ACKNOWLEDGING_DISCONNECT"]
<1>1. c \in Client /\ rx[h].msgs # <<>> /\ UNCHANGED log
  BY ClientFacts DEF HandleDisconnect, Handling
<1>2. \/ Handled(h, Blank, "none")
      \/ c.state \notin Early /\ (Handled(h, z, "none") \/ Handled(h, w, "none"))
  BY DEF HandleDisconnect, Connected, Early
<1>3. q \in Client
  BY <1>1, ClearQueuesEmpties
<1>4. c.state \notin Early => Follows(z, c) /\ Follows(w, c)
  <2>1. "ACKNOWLEDGING_DISCONNECT" \in States \ Early
    BY DEF States, Early
  <2> QED
    BY <1>1, <2>1, ClearedFollows, Zenon
<1>5. Blank \in Client /\ Blank.state = "DISCONNECTED"
  BY BlankSound DEF Sound, Blank
<1>6. "ZOMBIE" \in States /\ "ACKNOWLEDGING_DISCONNECT" \in States
  BY DEF States
<1> HIDE DEF q
<1>7. /\ z \in Client /\ z.state = "ZOMBIE"
      /\ w \in Client /\ w.state = "ACKNOWLEDGING_DISCONNECT"
  BY <1>3, <1>6 DEF Client
<1> HIDE DEF z, w
<1>8. \A e : e.state # "CONNECTING" => Repeats(Rest(rx[h]), e)
  BY DEF Repeats
<1>9. \A e \in {Blank, z, w} : Repeats(Rest(rx[h]), e) /\ e \in Client
  BY <1>5, <1>7, <1>8
<1> QED
  BY <1>1, <1>2, <1>4, <1>9, BlankFollows, HandledStep

\* This VALIDATE_CONNECT is the answer to CONNECT, with the client's configuration.
Validates(h) ==
    client[h].state = "CONNECTING" /\ Head(rx[h].msgs).arg = client[h].throttle

\* So are data, a ping, a configuration, a handshake message that comes too late,
\* and VALIDATE_CONNECT with a configuration that is not the client's.
LEMMA OtherMessagesKeepKeys ==
    ASSUME IInv, KInv, NEW h \in Hosts,
           \/ HandlePing(h) \/ HandleConfigureThrottle(h) \/ HandleReliableData(h)
           \/ HandleConnect(h) /\ client[h].state # "DISCONNECTED"
           \/ HandleValidateConnect(h) /\ ~Validates(h)
    PROVE  KInv'
<1> DEFINE c == client[h]
           m == Head(rx[h].msgs)
           d == [c EXCEPT !.inQ = @ \union {m.seq}]
<1>1. c \in Client /\ rx[h].msgs # <<>> /\ UNCHANGED log
  <2>1. HandleConnect(h) /\ c.state # "DISCONNECTED" => UNCHANGED log
    BY Zenon DEF HandleConnect, Discarded
  <2> QED
    BY <2>1, ClientFacts DEF HandlePing, HandleConfigureThrottle, HandleReliableData,
                             HandleConnect, HandleValidateConnect, Handling, Validates
<1>2. Follows(c, c) /\ Waits(c, c)
  BY SameFollows DEF Waits
<1>3. CASE HandlePing(h)
  BY <1>1, <1>2, <1>3, OthersRepeat, HandledStep DEF HandlePing, Handling
<1>4. CASE HandleReliableData(h)
  <2>1. \A x : Repeats(x, c)
    BY <1>1, <1>2, <1>4, OthersRepeat DEF HandleReliableData, Handling
  <2>2. CASE Failed(h, c)
    <3>1. rx'[h].msgs = <<>> /\ \A k \in Hosts \ {h} : rx'[k] = rx[k] /\ at'[k] = at[k]
      BY <2>2 DEF Failed, Return, IInv, TypeOK, NoDatagram
    <3>2. NetKeys(net', Offered, Accepted, Validated) /\ UNCHANGED calls
      BY <2>2, SameNet DEF Failed
    <3>3. client' = [client EXCEPT ![h] = c]
      BY <2>2 DEF Failed
    <3> HIDE DEF c
    <3> QED
      BY <1>1, <1>2, <2>1, <3>1, <3>2, <3>3, EmptyClaimed, QuietStep DEF c
  <2>3. CASE c.state = "CONNECTED" /\ Discarded(h, d)
    <3>1. /\ d.state = c.state /\ d.peer = c.peer /\ d.session = c.session /\ d.bound = c.bound
          /\ d.acks = c.acks /\ d.outR = c.outR /\ d.sent = c.sent
      BY <1>1 DEF Client
    <3> HIDE DEF d
    <3>2. Follows(d, c) /\ Repeats(Rest(rx[h]), d)
      BY <2>3, <3>1 DEF Follows, Pending, Repeats
    <3> QED
      BY <1>1, <2>3, <3>2, HandlerStep DEF Discarded
  <2> QED
    BY <1>4, <2>2, <2>3 DEF HandleReliableData
<1>5. CASE HandleConnect(h) /\ c.state # "DISCONNECTED" /\ ~Orphaned(rx[h])
  <2>1. Discarded(h, c) /\ Head(rx[h].msgs).type = "CONNECT"
    BY <1>5, Zenon DEF HandleConnect, Handling
  <2> QED
    BY <1>1, <1>2, <2>1, OthersRepeat, HandlerStep DEF Discarded
<1>6. CASE HandleConnect(h) /\ c.state # "DISCONNECTED" /\ Orphaned(rx[h])
  <2>1. /\ Head(rx[h].msgs).type = "CONNECT"
        /\ rx' = [rx EXCEPT ![h] = Rest(rx[h])] /\ UNCHANGED <<client, at, net, calls>>
    BY <1>6, Zenon DEF HandleConnect, Handling
  <2>2. /\ rx'[h] = Rest(rx[h]) /\ \A k \in Hosts \ {h} : rx'[k] = rx[k] /\ at'[k] = at[k]
        /\ client' = [client EXCEPT ![h] = c]
    BY <2>1 DEF IInv, TypeOK
  <2>3. Claimed(h, rx'[h], c, at'[h], Offered, Accepted, Validated)
    BY <1>1, <2>1, <2>2, RestClaimed, ClientFacts DEF KInv, HostInv
  <2>4. Repeats(rx'[h], c) /\ NetKeys(net', Offered, Accepted, Validated)
    BY <1>1, <1>2, <2>1, OthersRepeat, SameNet
  <2> HIDE DEF c
  <2> QED
    BY <1>1, <1>2, <2>1, <2>2, <2>3, <2>4, QuietStep DEF c
<1>7. CASE HandleValidateConnect(h) /\ ~Validates(h)
  <2> DEFINE e == [c EXCEPT !.state = "ZOMBIE"]
  <2>1. \/ c.state # "CONNECTING" /\ Discarded(h, c)
        \/ c.state = "CONNECTING" /\ Discarded(h, e)
    BY <1>7, Zenon DEF HandleValidateConnect, Validates
  <2>2. CASE c.state # "CONNECTING" /\ Discarded(h, c)
    <3>1. Repeats(Rest(rx[h]), c)
      BY <2>2 DEF Repeats
    <3> QED
      BY <1>1, <1>2, <2>2, <3>1, HandlerStep DEF Discarded
  <2>3. CASE c.state = "CONNECTING" /\ Discarded(h, e)
    <3>1. e.state = "ZOMBIE" /\ "ZOMBIE" \in States
      BY <1>1 DEF Client, States
    <3>2. Follows(e, c)
      BY <1>1, <2>3, <3>1, StateFollows
    <3> HIDE DEF e
    <3>3. Repeats(Rest(rx[h]), e)
      BY <3>1 DEF Repeats
    <3> QED
      BY <1>1, <2>3, <3>2, <3>3, HandlerStep DEF Discarded
  <2> QED
    BY <2>1, <2>2, <2>3
<1>8. CASE HandleConfigureThrottle(h)
  <2> DEFINE v == Head(rx[h].msgs).arg
             e == [c EXCEPT !.throttle = v]
  <2>1. Head(rx[h].msgs).type = "CONFIGURE_THROTTLE" /\ Handled(h, e, "none")
    BY <1>8 DEF HandleConfigureThrottle, Handling
  <2>2. v \in Nat
    BY <1>1, HeadTyped DEF Message, IInv
  <2> HIDE DEF v
  <2>3. Follows(e, c) /\ e.state = c.state /\ Pending(e) = Pending(c) /\ e \in Client
    BY <1>1, <2>2, WithThrottleFollows DEF Client
  <2> HIDE DEF e
  <2>4. Waits(e, c)
    BY <2>3 DEF Waits
  <2>5. Repeats(Rest(rx[h]), e)
    BY <1>1, <2>1, <2>4, ConfigurationRepeats
  <2> QED
    BY <1>1, <2>1, <2>3, <2>5, HandledStep
<1> QED
  BY <1>3, <1>4, <1>5, <1>6, <1>7, <1>8

-----------------------------------------------------------------------------
(* The steps of the handshake.                                              *)

\* What a step that logs one key adds to the phases.
LEMMA PhaseGrows ==
    ASSUME NEW q, NEW f, NEW t, NEW s, NEW p,
           log' = log \union {[phase |-> q, from |-> f, to |-> t, session |-> s]}
    PROVE  Phase(p)' = IF p = q THEN Phase(p) \union {<<f, t, s>>} ELSE Phase(p)
<1> DEFINE x == [phase |-> q, from |-> f, to |-> t, session |-> s]
           Of(l) == {y \in l : y.phase = p}
           Keys(l) == {<<y.from, y.to, y.session>> : y \in l}
<1>1. x.phase = q /\ x.from = f /\ x.to = t /\ x.session = s
  OBVIOUS
<1>2. Phase(p) = Keys(Of(log)) /\ Phase(p)' = Keys(Of(log'))
  BY DEF Phase
<1> HIDE DEF x
<1>3. Of(log') = IF p = q THEN Of(log) \union {x} ELSE Of(log)
  BY <1>1 DEF x
<1>4. Keys(Of(log) \union {x}) = Keys(Of(log)) \union {<<f, t, s>>}
  BY <1>1
<1> QED
  BY <1>2, <1>3, <1>4

\* The invariant after a step of h, when the phases are O, A, V and E.
LEMMA GrownStep ==
    ASSUME IInv, KInv, NEW h \in Hosts, UNCHANGED net,
           NEW c, client' = [client EXCEPT ![h] = c],
           \A k \in Hosts \ {h} : rx'[k] = rx[k] /\ at'[k] = at[k],
           NEW O, NEW A, NEW V, NEW E,
           Offered' = O, Accepted' = A, Validated' = V, Established' = E,
           KeysInOrder(O, A, V, E), Drawn', ClientKey(h, c, O, A, V),
           Claimed(h, rx'[h], c, at'[h], Offered, Accepted, Validated), Repeats(rx'[h], c),
           \A k \in Hosts \ {h} : ClientKey(k, client[k], O, A, V),
           \A d : DatagramKey(d, Offered, Accepted, Validated) => DatagramKey(d, O, A, V)
    PROVE  KInv'
<1>1. client'[h] = c /\ \A k \in Hosts \ {h} : client'[k] = client[k]
  BY DEF IInv, TypeOK
<1>2. ASSUME NEW k, NEW d, NEW b, NEW a, Claimed(k, d, b, a, Offered, Accepted, Validated)
      PROVE  Claimed(k, d, b, a, O, A, V)
  BY <1>2 DEF Claimed
<1>3. ASSUME NEW k \in Hosts
      PROVE  HostInv(k, O, A, V)'
  <2>1. CASE k = h
    BY <1>1, <1>2, <2>1 DEF HostInv
  <2>2. CASE k # h
    BY <1>1, <1>2, <2>2 DEF KInv, HostInv
  <2> QED
    BY <2>1, <2>2
<1>4. NetKeys(net', O, A, V)
  BY DEF KInv, NetKeys
<1> QED
  BY <1>3, <1>4 DEF KInv

\* connect: a key no two hosts have had, for a client that waits with CONNECT.
LEMMA ConnectKeepsKeys ==
    ASSUME [FreshDraw]_vars, IInv, KInv, NEW h \in Hosts, Connect(h)
    PROVE  KInv'
<1> DEFINE n == calls[h] + 1
           s == Sessions[h][n]
           o == client[h]
<1>1. PICK p \in Hosts \ {h} :
        /\ Become(h, QueueOut([o EXCEPT !.state = "CONNECTING", !.peer = p,
                                        !.open = TRUE, !.session = s], "CONNECT", "control"))
        /\ log' = log \union {[phase |-> "offered", from |-> h, to |-> p, session |-> s]}
  BY DEF Connect
<1>2. /\ calls' = [calls EXCEPT ![h] = @ + 1] /\ calls \in [Hosts -> Nat]
      /\ calls[h] < Len(Sessions[h]) /\ calls[h] \in Nat /\ UNCHANGED net
      /\ at[h] = "app" /\ o.state = "DISCONNECTED"
  BY DEF Connect, Idle, IInv, TypeOK
<1>3. /\ \A f \in Hosts : Sessions[f] \in Seq(Nat) /\ DOMAIN Sessions[f] = 1..Len(Sessions[f])
      /\ n \in 1..Len(Sessions[h]) /\ s \in Nat
  <2>1. ASSUME NEW f \in Hosts
        PROVE  Sessions[f] \in Seq(Nat) /\ DOMAIN Sessions[f] = 1..Len(Sessions[f])
    <3>1. Sessions[f] \in Seq(Nat)
      BY SessionsAssumption
    <3> QED
      BY <3>1
  <2>2. n \in 1..Len(Sessions[h])
    BY <1>2, <2>1
  <2> HIDE DEF n
  <2> QED
    BY <2>1, <2>2
<1> DEFINE c == [o EXCEPT !.state = "CONNECTING", !.peer = p, !.open = TRUE, !.session = s]
           q == QueueOut(c, "CONNECT", "control")
           m == Numbered(c, "CONNECT", "control")
           x == <<h, p, s>>
           O == Offered \union {x}
<1>4. /\ Sound(o) /\ o \in Client /\ client \in [Hosts -> Client]
      /\ KeysInOrder(Offered, Accepted, Validated, Established)
  BY ClientFacts DEF TypeOK
<1>5. /\ Offered' = O /\ Accepted' = Accepted
      /\ Validated' = Validated /\ Established' = Established
  <2>1. \A y : Phase(y)' = IF y = "offered" THEN Phase(y) \union {x} ELSE Phase(y)
    <3>1. log' = log \union {[phase |-> "offered", from |-> h, to |-> p, session |-> s]}
      BY <1>1, Zenon
    <3> HIDE DEF s, n
    <3> QED
      BY <3>1, PhaseGrows
  <2> HIDE DEF x
  <2> QED
    BY <2>1 DEF Offered, Accepted, Validated, Established
<1>6. Drawn'
  <2>1. ASSUME NEW f \in Hosts PROVE calls'[f] <= Len(Sessions[f]) /\ calls[f] <= calls'[f]
    <3>1. calls'[f] = (IF f = h THEN calls[h] + 1 ELSE calls[f]) /\ calls[f] \in Nat
      BY <1>2
    <3>2. calls[f] <= Len(Sessions[f]) /\ Len(Sessions[f]) \in Nat
      BY <1>3 DEF KInv, Drawn
    <3> QED
      BY <1>2, <3>1, <3>2
  <2>2. ASSUME NEW f, NEW t, NEW i, <<f, t, i>> \in O
        PROVE  \E j \in 1..calls'[f] : i = Sessions[f][j]
    <3>1. CASE <<f, t, i>> \in Offered
      <4>1. f \in Hosts
        BY <1>4, <3>1 DEF KeysInOrder
      <4>2. PICK j \in 1..calls[f] : i = Sessions[f][j]
        BY <3>1 DEF KInv, Drawn
      <4>3. calls[f] \in Nat /\ calls'[f] \in Nat
        BY <1>2, <4>1
      <4>4. j \in 1..calls'[f]
        BY <2>1, <4>1, <4>2, <4>3
      <4> QED
        BY <4>2, <4>4
    <3>2. CASE <<f, t, i>> = x
      <4>1. calls'[h] = n /\ n \in 1..n
        BY <1>2
      <4> QED
        BY <3>2, <4>1
    <3> QED
      BY <2>2, <3>1, <3>2
  <2> QED
    BY <1>5, <2>1, <2>2 DEF Drawn
<1>7. /\ c \in Client /\ c.state = "CONNECTING" /\ c.peer = p /\ c.session = s
      /\ c.bound = o.bound /\ c.sent = o.sent /\ c.outR = o.outR
      /\ c.ctlSeq = o.ctlSeq /\ c.relSeq = o.relSeq
  <2>1. s \in Nat /\ p \in Hosts
    BY <1>3
  <2> HIDE DEF s, o
  <2> QED
    BY <1>4, <2>1 DEF Client, States
<1>8. calls' # calls
  BY <1>2
<1> HIDE DEF s, o, n
<1>9. DistinctNumbers(c) /\ Counted(c) /\ Pending(c) = {} /\ ~c.bound
  BY <1>2, <1>4, <1>7
     DEF Sound, HoldsItsMessage, DistinctNumbers, QueuedOnce, Counted, CounterOf, Pending
<1> HIDE DEF c
<1>10. "CONNECT" \in MessageTypes /\ "control" \in Channels
  BY DEF MessageTypes, Channels
<1>11. /\ Pending(q) = {m} /\ q.state = "CONNECTING" /\ ~q.bound /\ m.type = "CONNECT"
       /\ q.peer = p /\ q.session = s
  <2>1. q.peer = c.peer /\ q.session = c.session
    BY <1>7 DEF QueueOut, Client
  <2>2. m.type = "CONNECT"
    BY DEF Numbered
  <2> QED
    BY <1>7, <1>9, <1>10, <2>1, <2>2, QueueOutAdds
<1> HIDE DEF q, m
<1>12. /\ client' = [client EXCEPT ![h] = q] /\ client'[h] = q
       /\ \A k \in Hosts \ {h} : rx'[k] = rx[k] /\ at'[k] = at[k]
       /\ rx'[h].msgs = <<>>
  BY <1>1, <1>2, <1>4, NothingToRead DEF Become, q, c, o, s, n
<1>13. x \notin Offered /\ <<p, h, s>> \notin Offered
  <2>1. calls'[h] # calls[h]
    BY <1>2
  <2>2. FreshDraw
    BY <1>8 DEF vars
  <2>3. \A y \in log : y.phase = "offered" /\ {y.from, y.to} = {h, client'[h].peer} =>
           y.session # client'[h].session
    BY <2>1, <2>2, Zenon DEF FreshDraw
  <2>4. \A y \in log : y.phase = "offered" /\ {y.from, y.to} = {h, p} => y.session # s
    BY <1>11, <1>12, <2>3
  <2> QED
    BY <2>4 DEF Offered, Phase
<1>14. KeysInOrder(O, Accepted, Validated, Established)
  <2>1. O \subseteq Hosts \X Hosts \X Nat
    BY <1>3, <1>4 DEF KeysInOrder, s, n
  <2>2. \A f, t, i : <<f, t, i>> \in O => f # t /\ <<t, f, i>> \notin O
    BY <1>4, <1>13 DEF KeysInOrder
  <2> QED
    BY <1>4, <2>1, <2>2 DEF KeysInOrder
<1>15. x \notin Validated
  BY <1>4, <1>13 DEF KeysInOrder
<1>16. ClientKey(h, q, O, Accepted, Validated)
  BY <1>11, <1>15 DEF ClientKey, Dials
<1>17. Repeats(rx'[h], q)
  BY <1>11 DEF Repeats, WaitsFor
<1>18. ASSUME NEW k \in Hosts \ {h}
       PROVE  ClientKey(k, client[k], O, Accepted, Validated)
  BY ClientFacts DEF ClientKey, Dials
<1>19. ASSUME NEW d, DatagramKey(d, Offered, Accepted, Validated)
       PROVE  DatagramKey(d, O, Accepted, Validated)
  BY <1>19 DEF DatagramKey
<1> HIDE DEF O, x
<1> QED
  BY <1>2, <1>5, <1>6, <1>12, <1>14, <1>16, <1>17, <1>18, <1>19, EmptyClaimed, GrownStep

\* The key that is offered, and not yet accepted, by CONNECT of the datagram.
LEMMA AcceptKeepsKeys ==
    ASSUME IInv, KInv, NEW h \in Hosts, HandleConnect(h), client[h].state = "DISCONNECTED"
    PROVE  KInv'
<1> DEFINE o == client[h]
           d == rx[h]
           c == [o EXCEPT !.state = "ACKNOWLEDGING_CONNECT", !.peer = d.src,
                          !.bound = TRUE, !.open = TRUE, !.session = d.session,
                          !.throttle = Head(d.msgs).arg]
           q == QueueOut(c, "VALIDATE_CONNECT", "control")
           m == Numbered(c, "VALIDATE_CONNECT", "control")
           x == <<d.src, h, d.session>>
           A == Accepted \union {x}
<1>1. /\ Sound(o) /\ o \in Client /\ d \in Datagram /\ d.msgs # <<>>
      /\ KeysInOrder(Offered, Accepted, Validated, Established)
      /\ Head(d.msgs).type = "CONNECT" /\ Head(d.msgs) \in Message
      /\ Claimed(h, d, o, at[h], Offered, Accepted, Validated)
  BY ClientFacts, HeadTyped DEF HandleConnect, Handling, KInv, HostInv
<1>2. Handled(h, q, "none")
  BY Zenon DEF HandleConnect
<1>3. log' = log \union {[phase |-> "accepted", from |-> d.src, to |-> h, session |-> d.session]}
  BY Zenon DEF HandleConnect
<1>4. x \in Offered
  <2>1. 1 \in DOMAIN d.msgs /\ d.msgs[1].type = "CONNECT"
    <3>1. d.msgs \in Seq(Message)
      BY <1>1 DEF Datagram
    <3> QED
      BY <1>1, <3>1
  <2>2. "CONNECT" \in Types(d)
    BY <2>1 DEF Types
  <2> QED
    BY <1>1, <2>2 DEF Claimed, DatagramKey
<1>5. /\ Offered' = Offered /\ Accepted' = A
      /\ Validated' = Validated /\ Established' = Established
  <2>1. \A y : Phase(y)' = IF y = "accepted" THEN Phase(y) \union {x} ELSE Phase(y)
    <3> DEFINE f == d.src
               t == h
               i == d.session
    <3>1. log' = log \union {[phase |-> "accepted", from |-> f, to |-> t, session |-> i]}
      BY <1>3, Zenon
    <3> HIDE DEF f, t, i
    <3>2. \A y : Phase(y)' = IF y = "accepted" THEN Phase(y) \union {<<f, t, i>>} ELSE Phase(y)
      BY <3>1, PhaseGrows
    <3> QED
      BY <3>2 DEF f, t, i
  <2> HIDE DEF x
  <2> QED
    BY <2>1 DEF Offered, Accepted, Validated, Established
<1>6. KeysInOrder(Offered, A, Validated, Established)
  BY <1>1, <1>4 DEF KeysInOrder
<1>7. /\ rx'[h] = Rest(d)
      /\ Claimed(h, rx'[h], o, at'[h], Offered, Accepted, Validated)
      /\ \A k \in Hosts \ {h} : rx'[k] = rx[k] /\ at'[k] = at[k]
      /\ UNCHANGED <<net, calls>>
  BY <1>1, <1>2, AdvanceReads DEF Handled
<1>8. Drawn'
  BY <1>5, <1>7 DEF KInv, Drawn
<1>9. /\ c \in Client /\ c.state = "ACKNOWLEDGING_CONNECT" /\ c.peer = d.src
      /\ c.session = d.session /\ c.bound /\ c.sent = o.sent /\ c.outR = o.outR
      /\ c.ctlSeq = o.ctlSeq /\ c.relSeq = o.relSeq
  BY <1>1 DEF Client, Datagram, Message, States
<1>10. DistinctNumbers(c) /\ Counted(c) /\ Pending(c) = {}
  BY <1>1, <1>9
     DEF Sound, HoldsItsMessage, DistinctNumbers, QueuedOnce, Counted, CounterOf, Pending
<1> HIDE DEF c
<1>11. "VALIDATE_CONNECT" \in MessageTypes /\ "control" \in Channels
  BY DEF MessageTypes, Channels
<1>12. /\ Pending(q) = {m} /\ q.state = "ACKNOWLEDGING_CONNECT" /\ q.bound /\ q \in Client
       /\ m.type = "VALIDATE_CONNECT" /\ q.peer = d.src /\ q.session = d.session
       /\ q.outR = Append(c.outR, m)
  <2>1. q.peer = c.peer /\ q.session = c.session /\ q.outR = Append(c.outR, m)
    BY <1>9 DEF QueueOut, Client
  <2>2. m.type = "VALIDATE_CONNECT"
    BY DEF Numbered
  <2> QED
    BY <1>9, <1>10, <1>11, <2>1, <2>2, QueueOutAdds
<1>13. m \in Range(q.outR)
  <2>1. c.outR \in Seq(Message)
    BY <1>9 DEF Client
  <2>2. m \in Message
    BY <1>9, <1>11 DEF Numbered, Message, Flags, Channels, Client
  <2> HIDE DEF m, q
  <2> QED
    BY <1>12, <2>1, <2>2, RangeAppend
<1>14. client' = [client EXCEPT ![h] = q]
  <2>1. PICK a \in Acknowledge(q, Head(d.msgs), d) : client' = [client EXCEPT ![h] = a]
    BY <1>2 DEF Handled
  <2>2. a = q
    BY <1>1, <1>12, <2>1, AcknowledgeFollows
  <2> QED
    BY <2>1, <2>2
<1> HIDE DEF q, m
<1>15. ClientKey(h, q, Offered, A, Validated)
  BY <1>12, <1>13 DEF ClientKey, Answers
<1>16. Claimed(h, rx'[h], q, at'[h], Offered, Accepted, Validated)
  <2>1. Rest(d).msgs # <<>> => Rest(d).src = d.src /\ Rest(d).session = d.session
    BY <1>1, RestOf
  <2> QED
    BY <1>7, <1>12, <2>1 DEF Claimed
<1>17. Repeats(rx'[h], q)
  BY <1>12 DEF Repeats
<1>18. ASSUME NEW k \in Hosts \ {h}
       PROVE  ClientKey(k, client[k], Offered, A, Validated)
  BY ClientFacts DEF ClientKey, Answers
<1>19. ASSUME NEW e, DatagramKey(e, Offered, Accepted, Validated)
       PROVE  DatagramKey(e, Offered, A, Validated)
  <2>1. CASE <<e.dst, e.src, e.session>> = x
    <3>1. <<e.src, e.dst, e.session>> \notin Offered
      BY <1>1, <1>4, <2>1, OneDirection
    <3>2. x \in Accepted
      BY <1>19, <2>1, <3>1 DEF DatagramKey
    <3>3. A = Accepted
      BY <3>2
    <3> QED
      BY <1>19, <3>3
  <2>2. CASE <<e.dst, e.src, e.session>> # x
    BY <1>19, <2>2 DEF DatagramKey
  <2> QED
    BY <2>1, <2>2
<1> HIDE DEF A, x, d, o
<1> QED
  BY <1>5, <1>6, <1>7, <1>8, <1>14, <1>15, <1>16, <1>17, <1>18, <1>19, GrownStep

\* VALIDATE_CONNECT comes in the session the client dialled, and is its answer.
LEMMA ValidateKeepsKeys ==
    ASSUME IInv, KInv, NEW h \in Hosts, HandleValidateConnect(h), Validates(h)
    PROVE  KInv'
<1> DEFINE c == client[h]
           d == rx[h]
           b == Dispose(c, 1, "control")
           u == [b EXCEPT !.bound = TRUE]
           n == NotifyConnect(u, sink[h])
           x == <<h, c.peer, c.session>>
           V == Validated \union {x}
<1>1. /\ Sound(c) /\ c \in Client /\ d \in Datagram /\ d.msgs # <<>>
      /\ KeysInOrder(Offered, Accepted, Validated, Established)
      /\ Head(d.msgs).type = "VALIDATE_CONNECT" /\ Head(d.msgs) \in Message
      /\ Claimed(h, d, c, at[h], Offered, Accepted, Validated)
      /\ ClientKey(h, c, Offered, Accepted, Validated) /\ c.state = "CONNECTING"
  BY ClientFacts, HeadTyped DEF HandleValidateConnect, Handling, KInv, HostInv, Validates
<1>2. Handled(h, n, Announced(h, "CONNECT"))
  BY Zenon DEF HandleValidateConnect, Validates
<1>3. log' = log \union {[phase |-> "validated", from |-> h, to |-> c.peer,
                         session |-> c.session]}
  BY Zenon DEF HandleValidateConnect, Validates
<1>4. Dials(h, c, Offered, Validated) /\ ~Answers(h, c, Accepted, Validated)
  BY <1>1 DEF ClientKey, Answers
<1>5. x \in Accepted
  <2>1. "VALIDATE_CONNECT" \in Types(d)
    BY <1>1, Unanswered
  <2>2. d.dst = h /\ <<h, d.src, d.session>> \in Accepted
    BY <1>1, <2>1 DEF Claimed, DatagramKey
  <2>3. <<d.src, h, d.session>> \notin Offered
    <3>1. <<h, d.src, d.session>> \in Offered
      BY <1>1, <2>2 DEF KeysInOrder
    <3> QED
      BY <1>1, <3>1, OneDirection
  <2>4. d.bound
    BY <1>1, <2>2, <2>3 DEF Claimed, DatagramKey
  <2>5. c.peer = d.src /\ c.session = d.session
    BY <1>1, <2>4 DEF Claimed
  <2> QED
    BY <2>2, <2>5
<1>6. /\ Offered' = Offered /\ Accepted' = Accepted
      /\ Validated' = V /\ Established' = Established
  <2>1. \A y : Phase(y)' = IF y = "validated" THEN Phase(y) \union {x} ELSE Phase(y)
    <3> DEFINE f == h
               t == c.peer
               i == c.session
    <3>1. log' = log \union {[phase |-> "validated", from |-> f, to |-> t, session |-> i]}
      BY <1>3, Zenon
    <3> HIDE DEF f, t, i
    <3>2. \A y : Phase(y)' = IF y = "validated" THEN Phase(y) \union {<<f, t, i>>} ELSE Phase(y)
      BY <3>1, PhaseGrows
    <3> QED
      BY <3>2 DEF f, t, i
  <2> HIDE DEF x
  <2> QED
    BY <2>1 DEF Offered, Accepted, Validated, Established
<1>7. KeysInOrder(Offered, Accepted, V, Established)
  BY <1>1, <1>5 DEF KeysInOrder
<1>8. /\ rx'[h] = Rest(d)
      /\ Claimed(h, rx'[h], c, at'[h], Offered, Accepted, Validated)
      /\ \A k \in Hosts \ {h} : rx'[k] = rx[k] /\ at'[k] = at[k]
      /\ UNCHANGED <<net, calls>>
  BY <1>1, <1>2, AdvanceReads DEF Handled
<1>9. Drawn'
  BY <1>6, <1>8 DEF KInv, Drawn
<1>10. /\ b \in Client /\ b.peer = c.peer /\ b.session = c.session
       /\ Pending(b) \subseteq Pending(c)
  <2>1. b.peer = c.peer /\ b.session = c.session
    BY <1>1 DEF Dispose, Client
  <2> QED
    BY <1>1, <2>1, DisposeTakesOut
<1> HIDE DEF b
<1>11. /\ u \in Client /\ u.peer = c.peer /\ u.session = c.session /\ u.bound
       /\ u.sent = b.sent /\ u.outR = b.outR
  BY <1>10 DEF Client
<1> HIDE DEF u
<1>12. /\ n \in Client /\ n.peer = c.peer /\ n.session = c.session /\ n.bound
       /\ n.sent = u.sent /\ n.outR = u.outR
       /\ n.state \in {"CONNECTED", "CONNECTION_SUCCEEDED", "CONNECTION_PENDING"}
  BY <1>11 DEF NotifyConnect, Client, States
<1> HIDE DEF n
<1>13. Pending(n) \subseteq Pending(c)
  BY <1>10, <1>11, <1>12 DEF Pending
<1>14. PICK a \in Acknowledge(n, Head(d.msgs), d) : client' = [client EXCEPT ![h] = a]
  BY <1>2 DEF Handled
<1>15. /\ a.peer = c.peer /\ a.session = c.session /\ a.bound
       /\ a.state \in {"CONNECTED", "CONNECTION_SUCCEEDED", "CONNECTION_PENDING"}
       /\ Pending(a) \subseteq Pending(c)
  BY <1>1, <1>12, <1>13, <1>14, AcknowledgeFollows
<1>16. Dials(h, a, Offered, V)
  BY <1>4, <1>15 DEF Dials
<1>17. ClientKey(h, a, Offered, Accepted, V)
  BY <1>1, <1>4, <1>15, <1>16 DEF ClientKey
<1>18. Claimed(h, rx'[h], a, at'[h], Offered, Accepted, Validated)
  BY <1>1, <1>8, <1>15 DEF Claimed
<1>19. Repeats(rx'[h], a)
  BY <1>15 DEF Repeats
<1>20. ASSUME NEW k \in Hosts \ {h}
       PROVE  ClientKey(k, client[k], Offered, Accepted, V)
  BY ClientFacts DEF ClientKey, Answers, Dials
<1>21. ASSUME NEW e, DatagramKey(e, Offered, Accepted, Validated)
       PROVE  DatagramKey(e, Offered, Accepted, V)
  BY <1>21 DEF DatagramKey
<1> HIDE DEF V, x, d, c
<1> QED
  BY <1>6, <1>7, <1>8, <1>9, <1>14, <1>17, <1>18, <1>19, <1>20, <1>21, GrownStep

\* The acknowledgement of VALIDATE_CONNECT comes from a host that validated.
LEMMA EstablishKeepsKeys ==
    ASSUME IInv, KInv, NEW h \in Hosts, HandleAcknowledge(h), EndsHandshake(h)
    PROVE  KInv'
<1> DEFINE c == client[h]
           r == rx[h]
           m == Head(r.msgs)
           d == Dispose(c, m.arg, m.chan)
           n == NotifyConnect(d, sink[h])
           x == <<c.peer, h, c.session>>
           E == Established \union {x}
<1>1. /\ Sound(c) /\ c \in Client /\ r \in Datagram /\ r.msgs # <<>>
      /\ KeysInOrder(Offered, Accepted, Validated, Established)
      /\ m.type = "ACKNOWLEDGE" /\ m \in Message /\ c.state = "ACKNOWLEDGING_CONNECT"
      /\ Claimed(h, r, c, at[h], Offered, Accepted, Validated)
      /\ ClientKey(h, c, Offered, Accepted, Validated)
  BY ClientFacts, HeadTyped DEF HandleAcknowledge, Handling, EndsHandshake, KInv, HostInv
<1>2. /\ Handled(h, n, Announced(h, "CONNECT"))
      /\ log' = log \union {[phase |-> "established", from |-> c.peer,
                             to |-> h, session |-> c.session]}
  BY Zenon DEF HandleAcknowledge, EndsHandshake
<1>3. /\ Answers(h, c, Accepted, Validated)
      /\ \A p \in Pending(c) : p.type \in {"VALIDATE_CONNECT", "CONFIGURE_THROTTLE"}
  <2>1. Answers(h, c, Accepted, Validated)
    BY <1>1 DEF ClientKey, Dials, Sound, HoldsItsMessage, WaitsFor
  <2> QED
    BY <1>1, <2>1 DEF Answers
<1>4. x \in Validated
  <2>1. "ACKNOWLEDGE" \in Types(r)
    <3>1. r.msgs \in Seq(Message)
      BY <1>1 DEF Datagram
    <3>2. 1 \in DOMAIN r.msgs /\ m = r.msgs[1]
      BY <1>1, <3>1
    <3> QED
      BY <1>1, <3>2 DEF Types
  <2>2. r.bound /\ r.dst = h /\ c.peer = r.src /\ c.session = r.session
    BY <1>1, <2>1 DEF Claimed
  <2>3. x \in Offered
    BY <1>1, <1>3 DEF Answers, KeysInOrder
  <2>4. <<h, c.peer, c.session>> \notin Accepted
    BY <1>1, <2>3, OneDirection
  <2> QED
    BY <1>1, <2>2, <2>4 DEF Claimed, DatagramKey
<1>5. /\ Offered' = Offered /\ Accepted' = Accepted
      /\ Validated' = Validated /\ Established' = E
  <2>1. \A y : Phase(y)' = IF y = "established" THEN Phase(y) \union {x} ELSE Phase(y)
    <3> DEFINE f == c.peer
               t == h
               i == c.session
    <3>1. log' = log \union {[phase |-> "established", from |-> f, to |-> t, session |-> i]}
      BY <1>2, Zenon
    <3> HIDE DEF f, t, i
    <3>2. \A y : Phase(y)' = IF y = "established" THEN Phase(y) \union {<<f, t, i>>} ELSE Phase(y)
      BY <3>1, PhaseGrows
    <3> QED
      BY <3>2 DEF f, t, i
  <2> HIDE DEF x
  <2> QED
    BY <2>1 DEF Offered, Accepted, Validated, Established
<1>6. KeysInOrder(Offered, Accepted, Validated, E)
  BY <1>1, <1>4 DEF KeysInOrder
<1>7. /\ rx'[h] = Rest(r)
      /\ Claimed(h, rx'[h], c, at'[h], Offered, Accepted, Validated)
      /\ \A k \in Hosts \ {h} : rx'[k] = rx[k] /\ at'[k] = at[k]
      /\ UNCHANGED <<net, calls>>
  BY <1>1, <1>2, AdvanceReads DEF Handled
<1>8. Drawn'
  BY <1>5, <1>7 DEF KInv, Drawn
<1>9. /\ d \in Client /\ d.peer = c.peer /\ d.session = c.session /\ d.bound = c.bound
      /\ Pending(d) \subseteq Pending(c)
  <2>1. d.peer = c.peer /\ d.session = c.session
    BY <1>1 DEF Dispose, Client
  <2> QED
    BY <1>1, <2>1, DisposeTakesOut
<1> HIDE DEF d
<1>10. /\ n \in Client /\ n.peer = c.peer /\ n.session = c.session /\ n.bound = c.bound
       /\ n.sent = d.sent /\ n.outR = d.outR
       /\ n.state \in {"CONNECTED", "CONNECTION_SUCCEEDED", "CONNECTION_PENDING"}
  BY <1>9 DEF NotifyConnect, Client, States
<1> HIDE DEF n
<1>11. PICK a \in Acknowledge(n, m, r) : client' = [client EXCEPT ![h] = a]
  BY <1>2 DEF Handled
<1>12. /\ a.peer = c.peer /\ a.session = c.session /\ a.bound = c.bound
       /\ a.state \in {"CONNECTED", "CONNECTION_SUCCEEDED", "CONNECTION_PENDING"}
       /\ Pending(a) \subseteq Pending(c)
  <2>1. Pending(n) \subseteq Pending(c)
    BY <1>9, <1>10 DEF Pending
  <2> QED
    BY <1>1, <1>10, <1>11, <2>1, AcknowledgeFollows
<1>13. Answers(h, a, Accepted, Validated)
  BY <1>3, <1>4, <1>12 DEF Answers
<1>14. ClientKey(h, a, Offered, Accepted, Validated)
  BY <1>3, <1>12, <1>13 DEF ClientKey
<1>15. Claimed(h, rx'[h], a, at'[h], Offered, Accepted, Validated)
  BY <1>1, <1>7, <1>12 DEF Claimed
<1>16. Repeats(rx'[h], a)
  BY <1>12 DEF Repeats
<1>17. \A k \in Hosts \ {h} : ClientKey(k, client[k], Offered, Accepted, Validated)
  BY ClientFacts
<1> HIDE DEF E, x, r, c
<1> QED
  BY <1>5, <1>6, <1>7, <1>8, <1>11, <1>14, <1>15, <1>16, <1>17, GrownStep

-----------------------------------------------------------------------------
(* The theorems.                                                            *)

\* No key, no datagram and no session in use at the start.
LEMMA InitKeys == Init => KInv
<1> SUFFICES ASSUME Init PROVE KInv
  OBVIOUS
<1>1. Offered = {} /\ Accepted = {} /\ Validated = {} /\ Established = {}
  BY DEF Init, Offered, Accepted, Validated, Established, Phase
<1>2. KeysInOrder({}, {}, {}, {})
  BY DEF KeysInOrder
<1>3. Drawn
  <2>1. \A h \in Hosts : calls[h] = 0 /\ Len(Sessions[h]) \in Nat
    <3>1. \A h \in Hosts : Sessions[h] \in Seq(Nat)
      BY SessionsAssumption
    <3> QED
      BY <3>1 DEF Init
  <2>2. \A h \in Hosts : calls[h] <= Len(Sessions[h])
    BY <2>1
  <2> QED
    BY <1>1, <2>2 DEF Drawn
<1>4. ASSUME NEW h \in Hosts PROVE HostInv(h, {}, {}, {})
  <2>1. /\ client[h] = Blank /\ Blank.state = "DISCONNECTED"
        /\ rx[h] = NoDatagram /\ NoDatagram.msgs = <<>>
    BY DEF Init, Blank, NoDatagram
  <2> QED
    BY <2>1 DEF HostInv, ClientKey, Claimed, Repeats
<1>5. NetKeys(net, {}, {}, {})
  BY DEF Init, NetKeys
<1> QED
  BY <1>1, <1>2, <1>3, <1>4, <1>5 DEF KInv

\* Every step that draws no id twice keeps the keys in order.
LEMMA StepKeys ==
    ASSUME IInv, KInv, [Next]_vars, [FreshDraw]_vars
    PROVE  KInv'
<1>1. CASE UNCHANGED vars
  <2>1. /\ Offered' = Offered /\ Accepted' = Accepted
        /\ Validated' = Validated /\ Established' = Established
    BY <1>1 DEF vars, Offered, Accepted, Validated, Established, Phase
  <2>2. UNCHANGED <<client, at, rx, net, calls>>
    BY <1>1 DEF vars
  <2>3. Drawn'
    BY <2>1, <2>2 DEF KInv, Drawn
  <2>4. \A h \in Hosts : HostInv(h, Offered, Accepted, Validated)'
    BY <2>1, <2>2 DEF KInv, HostInv
  <2> QED
    BY <2>1, <2>2, <2>3, <2>4 DEF KInv
<1>2. ASSUME NEW h \in Hosts, Application(h) PROVE KInv'
  BY <1>2, ConnectKeepsKeys, CallsKeepKeys
<1>3. ASSUME NEW h \in Hosts, Handle(h) PROVE KInv'
  BY <1>3, AcceptKeepsKeys, ValidateKeepsKeys, EstablishKeepsKeys, AcknowledgedStep,
     DisconnectKeepsKeys, OtherMessagesKeepKeys DEF Handle
<1>4. ASSUME NEW h \in Hosts, Poll(h) PROVE KInv'
  BY <1>3, <1>4, PollsKeepKeys, ReceiveKeepsKeys DEF Poll
<1> QED
  BY <1>1, <1>2, <1>4 DEF Next

\* Whatever the network does with datagrams of all sessions, every client in
\* use, every datagram in flight and the datagram under processing belong to a
\* key whose handshake got as far as they claim.  Hypothesis of this theorem and
\* of the two below: FreshIds, no connect draws the id of an earlier one between
\* the same two hosts.  Pairs of hosts that dial each other after a fresh start,
\* and a host that restarts and dials the same peer again, draw the same from
\* rand() and are not covered; ids of other pairs may be equal.
THEOREM KeysStayInOrder == Spec /\ FreshIds => []KInv
<1>1. Init => IInv /\ KInv
  BY InitSound, InitKeys
<1>2. IInv /\ KInv /\ [Next]_vars /\ [FreshDraw]_vars => IInv' /\ KInv'
  BY StepSound, StepKeys
<1> QED
  BY <1>1, <1>2, PTL DEF Spec, FreshIds

\* The CONNECT of a client that waits for VALIDATE_CONNECT is repeated until the
\* answer is there, or its time-out is: no acknowledgement of another session,
\* left in a slot or in the network, takes it out and leaves the client waiting,
\* whatever else it has queued: CONFIGURE_THROTTLE may be beside CONNECT.  Under
\* FreshIds: with one id for two sessions an acknowledgement may do so.
THEOREM ConnectStaysPending == Spec /\ FreshIds => []ConnectIsRepeated
<1>1. IInv /\ KInv => ConnectIsRepeated
  <2> SUFFICES ASSUME KInv, NEW h \in Hosts, client[h].state = "CONNECTING", rx[h].msgs = <<>>
               PROVE  WaitsFor(client[h], "CONNECT") /\ ~client[h].bound
    BY DEF ConnectIsRepeated
  <2>1. Types(rx[h]) = {}
    BY DEF Types
  <2> QED
    BY <2>1 DEF KInv, HostInv, Repeats, ClientKey, Dials, Answers
<1> QED
  BY <1>1, Soundness, KeysStayInOrder, PTL

Phases == {"offered", "accepted", "validated", "established"}

\* A step logs one handshake step, or none.
LEMMA StepLogs ==
    ASSUME [Next]_vars
    PROVE  \/ UNCHANGED log
           \/ \E q \in Phases : \E f, t, s :
                log' = log \union {[phase |-> q, from |-> f, to |-> t, session |-> s]}
<1>1. CASE UNCHANGED vars
  BY <1>1 DEF vars
<1>2. ASSUME NEW h \in Hosts, Application(h), ~Connect(h) PROVE UNCHANGED log
  BY <1>2 DEF Application, Ping, SetThrottle, SendData, Flush, CloseGracefully, CloseLater, CloseNow,
              DestroyClient, Close
<1>3. ASSUME NEW h \in Hosts, Connect(h)
      PROVE  \E f, t, s :
               log' = log \union {[phase |-> "offered", from |-> f, to |-> t, session |-> s]}
  <2>1. \E t, s :
          log' = log \union {[phase |-> "offered", from |-> h, to |-> t, session |-> s]}
    BY <1>3, Zenon DEF Connect
  <2> QED
    BY <2>1, Zenon
<1>4. ASSUME NEW h \in Hosts, Poll(h), ~Handle(h) PROVE UNCHANGED log
  BY <1>4 DEF Poll, PollDispatch, PollSend, PollGivesUp, PollEnd, Receive
<1>5. ASSUME NEW h \in Hosts, HandleConnect(h)
      PROVE  \/ UNCHANGED log
             \/ \E f, t, s :
                  log' = log \union {[phase |-> "accepted", from |-> f, to |-> t, session |-> s]}
  BY <1>5, Zenon DEF HandleConnect
<1>6. ASSUME NEW h \in Hosts, HandleValidateConnect(h)
      PROVE  \/ UNCHANGED log
             \/ \E f, t, s :
                  log' = log \union {[phase |-> "validated", from |-> f, to |-> t, session |-> s]}
  BY <1>6, Zenon DEF HandleValidateConnect
<1>7. ASSUME NEW h \in Hosts, HandleAcknowledge(h)
      PROVE  \/ UNCHANGED log
             \/ \E f, t, s :
                  log' = log \union {[phase |-> "established", from |-> f, to |-> t, session |-> s]}
  <2>1. CASE EndsHandshake(h)
    BY <1>7, <2>1, Zenon DEF HandleAcknowledge, EndsHandshake
  <2>2. CASE ~EndsHandshake(h)
    BY <1>7, <2>2 DEF HandleAcknowledge, EndsHandshake
  <2> QED
    BY <2>1, <2>2
<1>8. ASSUME NEW h \in Hosts,
             \/ HandleDisconnect(h) \/ HandlePing(h)
             \/ HandleConfigureThrottle(h) \/ HandleReliableData(h)
      PROVE  UNCHANGED log
  BY <1>8 DEF HandleDisconnect, HandlePing, HandleConfigureThrottle, HandleReliableData
<1>9. ASSUME NEW h \in Hosts, Application(h) \/ Poll(h)
      PROVE  \/ UNCHANGED log
             \/ \E q \in Phases : \E f, t, s :
                  log' = log \union {[phase |-> q, from |-> f, to |-> t, session |-> s]}
  <2>1. {"offered", "accepted", "validated", "established"} = Phases
    BY DEF Phases
  <2>2. ASSUME NEW q \in Phases,
               \E f, t, s : log' = log \union {[phase |-> q, from |-> f, to |-> t, session |-> s]}
        PROVE  \E p \in Phases : \E f, t, s :
                 log' = log \union {[phase |-> p, from |-> f, to |-> t, session |-> s]}
    BY <2>2, Zenon
  <2>3. CASE Application(h)
    BY <1>2, <1>3, <2>1, <2>2, <2>3
  <2>4. CASE Handle(h)
    BY <1>5, <1>6, <1>7, <1>8, <2>1, <2>2, <2>4 DEF Handle
  <2>5. CASE Poll(h)
    BY <1>4, <2>4, <2>5
  <2> QED
    BY <1>9, <2>3, <2>5
<1> QED
  BY <1>1, <1>9 DEF Next

\* What one step does to the phases of the handshake: nothing, or what module
\* Handshake allows.
LEMMA StepRefines ==
    ASSUME KInv, [Next]_vars, IInv', KInv'
    PROVE  [Abstract!Next]_(Abstract!vars)
<1>1. CASE UNCHANGED log
  BY <1>1 DEF Abstract!vars, Phase
<1>2. ASSUME NEW q \in Phases, NEW f, NEW t, NEW s,
             log' = log \union {[phase |-> q, from |-> f, to |-> t, session |-> s]}
      PROVE  Abstract!Next
  <2> DEFINE k == <<f, t, s>>
             Keys == Hosts \X Hosts \X UNION {Range(Sessions[h]) : h \in Hosts}
  <2>1. \A y : Phase(y)' = IF y = q THEN Phase(y) \union {k} ELSE Phase(y)
    BY <1>2, PhaseGrows
  <2>2. KeysInOrder(Offered, Accepted, Validated, Established)' /\ Drawn'
    BY DEF KInv
  <2> HIDE DEF k
  <2>3. k \in Offered' /\ (q = "accepted" => k \in Offered)
        /\ (q = "validated" => k \in Accepted) /\ (q = "established" => k \in Validated)
    BY <2>1, <2>2 DEF KeysInOrder, Offered, Accepted, Validated, Established, Phases
  <2>4. k \in Keys
    <3>1. f \in Hosts /\ t \in Hosts
      BY <2>2, <2>3 DEF KeysInOrder, k
    <3>2. PICK i \in 1..calls'[f] : s = Sessions[f][i]
      BY <2>2, <2>3 DEF Drawn, k
    <3>3. Sessions[f] \in Seq(Nat)
      BY <3>1, SessionsAssumption
    <3>4. s \in Range(Sessions[f])
      <4>1. calls'[f] <= Len(Sessions[f]) /\ calls'[f] \in Nat
        BY <2>2, <3>1 DEF Drawn, IInv, TypeOK
      <4>2. i \in DOMAIN Sessions[f]
        BY <3>2, <3>3, <4>1
      <4> QED
        BY <3>2, <4>2 DEF Range
    <3> QED
      BY <3>1, <3>4 DEF k
  <2> HIDE DEF Keys
  <2>5. CASE q = "offered"
    <3>1. Abstract!Offer(k)
      BY <2>1, <2>5 DEF Abstract!Offer
    <3> QED
      BY <2>4, <3>1 DEF Abstract!Next, Keys
  <2>6. CASE q = "accepted"
    <3>1. Abstract!Accept(k)
      BY <2>1, <2>3, <2>6 DEF Abstract!Accept, Offered
    <3> QED
      BY <2>4, <3>1 DEF Abstract!Next, Keys
  <2>7. CASE q = "validated"
    <3>1. Abstract!Validate(k)
      BY <2>1, <2>3, <2>7 DEF Abstract!Validate, Accepted
    <3> QED
      BY <2>4, <3>1 DEF Abstract!Next, Keys
  <2>8. CASE q = "established"
    <3>1. Abstract!Establish(k)
      BY <2>1, <2>3, <2>8 DEF Abstract!Establish, Validated
    <3> QED
      BY <2>4, <3>1 DEF Abstract!Next, Keys
  <2> QED
    BY <2>5, <2>6, <2>7, <2>8 DEF Phases
<1> QED
  BY <1>1, <1>2, StepLogs

\* The refinement: in every behaviour of the protocol, CONNECT, VALIDATE_CONNECT
\* and its acknowledgement establish a session in the order module Handshake
\* promises, at both hosts, for any number of hosts, calls and datagrams, if each
\* pair of hosts draws an id once (FreshIds); without that a CONNECT is taken for
\* the session of its receiver, and the order is lost.
THEOREM HandshakeRefines == Spec /\ FreshIds => HandshakeKept
<1>1. Init => Abstract!Init
  BY DEF Init, Abstract!Init, Phase
<1>2. IInv /\ KInv /\ [Next]_vars /\ [FreshDraw]_vars
        => KInv' /\ [Abstract!Next]_(Abstract!vars)
  BY StepSound, StepKeys, StepRefines
<1> QED
  BY <1>1, <1>2, Soundness, KeysStayInOrder, PTL
     DEF Spec, FreshIds, HandshakeKept, Abstract!Spec

-----------------------------------------------------------------------------
(* What poll() tells of the handshake: the inductive invariant of          *)
(* ConnectedIsTold.                                                         *)

\* A client without incoming data.
Untouched(c) == c.inRel = 0 /\ c.inQ = {}

\* A reliable data message has a number of its channel.
DataNumbered(m) == m.type = "RELIABLE_DATA" => m.chan = "data" /\ m.seq > 0

\* A client that is not connected yet has open channels without incoming data.
Ready(c) ==
    /\ c.state = "DISCONNECTED" => Untouched(c)
    /\ c.state \in {"CONNECTING", "ACKNOWLEDGING_CONNECT"} => Untouched(c) /\ c.open
    /\ \A m \in Pending(c) : DataNumbered(m)

\* The reliable data among these messages is new to a channel that has queued
\* the numbers Q, each message to the others as well.
NewData(msgs, Q) ==
    \A i \in DOMAIN msgs : msgs[i].type = "RELIABLE_DATA" =>
        /\ msgs[i].seq > 0 /\ msgs[i].seq \notin Q
        /\ \A j \in DOMAIN msgs :
             msgs[j].type = "RELIABLE_DATA" /\ msgs[j].seq = msgs[i].seq => i = j

\* The poll that connected the client goes on with the datagram that did it: it
\* will not fail, and return CONNECT.
Fresh(h) ==
    /\ client[h].state = "CONNECTED" /\ client[h].open /\ client[h].inRel = 0
    /\ ev[h] = "CONNECT"
    /\ rx[h].msgs # <<>> /\ NewData(rx[h].msgs, client[h].inQ)

ToldInv(h) ==
    /\ Connected(client[h]) => told[h] \/ Fresh(h)
    /\ Ready(client[h])
    /\ rx[h].msgs # <<>> => at[h] = "receive"
    /\ NewData(rx[h].msgs, {})

TInv == (\A h \in Hosts : ToldInv(h)) /\ \A d \in net : NewData(d.msgs, {})

\* d is what became of c: it is free, in a later state, or has received nothing.
Continues(d, c) ==
    /\ d.state \in {"DISCONNECTED", "CONNECTING", "ACKNOWLEDGING_CONNECT"} =>
         \/ d.state = "DISCONNECTED" /\ Untouched(d)
         \/ d.state = c.state /\ d.inRel = c.inRel /\ d.inQ = c.inQ /\ d.open = c.open
    /\ \A m \in Pending(d) : m \in Pending(c) \/ DataNumbered(m)

\* ... and is connected only if c was.
Goes(d, c) == Continues(d, c) /\ (Connected(d) => Connected(c))

\* Such a client is as ready as its predecessor was.
LEMMA ContinuesReady ==
    ASSUME NEW c, NEW d, Ready(c), Continues(d, c)
    PROVE  Ready(d)
BY DEF Ready, Continues, Untouched

LEMMA SameGoes == \A c : Goes(c, c)
BY DEF Goes, Continues

LEMMA GoesTransitive ==
    ASSUME NEW c, NEW d, NEW e
    PROVE  /\ Goes(d, c) /\ Goes(e, d) => Goes(e, c)
           /\ Continues(d, c) /\ Continues(e, d) => Continues(e, c)
BY DEF Goes, Continues, Untouched

\* A free slot follows anything.
LEMMA BlankGoes == \A c : Goes(Blank, c)
<1>1. Blank.state = "DISCONNECTED" /\ Untouched(Blank) /\ Blank.sent = {} /\ Blank.outR = <<>>
  BY DEF Blank, Untouched
<1>2. Pending(Blank) = {}
  BY <1>1, RangeEmpty DEF Pending
<1> QED
  BY <1>1, <1>2 DEF Goes, Continues, Connected

\* A later state; the states below are those of the handshake.
LEMMA StateGoes ==
    ASSUME NEW c \in Client,
           NEW st \in States \ {"DISCONNECTED", "CONNECTING", "ACKNOWLEDGING_CONNECT"}
    PROVE  LET d == [c EXCEPT !.state = st]
           IN  Continues(d, c) /\ d.state = st /\ Pending(d) = Pending(c)
<1> DEFINE d == [c EXCEPT !.state = st]
<1>1. d.state = st /\ d.sent = c.sent /\ d.outR = c.outR
  BY DEF Client
<1> HIDE DEF d
<1>2. Pending(d) = Pending(c)
  BY <1>1 DEF Pending
<1> QED
  BY <1>1, <1>2 DEF Continues, d

\* A message is queued.
LEMMA QueueOutGoes ==
    ASSUME NEW c, Sound(c), NEW type \in MessageTypes, NEW chan \in Channels,
           type = "RELIABLE_DATA" => chan = "data"
    PROVE  Goes(QueueOut(c, type, chan), c)
<1> DEFINE m == Numbered(c, type, chan)
           q == QueueOut(c, type, chan)
<1>1. c \in Client
  BY DEF Sound
<1>2. DataNumbered(m)
  BY <1>1 DEF DataNumbered, Numbered, Client, Channels
<1>3. Pending(q) = Pending(c) \union {m}
  BY QueueOutAdds DEF Sound
<1>4. q.state = c.state /\ q.inRel = c.inRel /\ q.inQ = c.inQ /\ q.open = c.open
  BY <1>1 DEF QueueOut, Client
<1> HIDE DEF m, q
<1>5. Goes(q, c)
  BY <1>2, <1>3, <1>4 DEF Goes, Continues, Connected
<1> QED
  BY <1>5 DEF q

\* A configuration changes.
LEMMA WithThrottleGoes ==
    ASSUME NEW c \in Client, NEW v \in Nat
    PROVE  LET d == [c EXCEPT !.throttle = v]
           IN  /\ Goes(d, c)
               /\ d.state = c.state /\ d.inRel = c.inRel /\ d.inQ = c.inQ /\ d.open = c.open
<1> DEFINE d == [c EXCEPT !.throttle = v]
<1>1. /\ d.state = c.state /\ d.outR = c.outR /\ d.sent = c.sent
      /\ d.inRel = c.inRel /\ d.inQ = c.inQ /\ d.open = c.open
  BY DEF Client
<1> HIDE DEF d
<1>2. Goes(d, c)
  BY <1>1 DEF Goes, Continues, Connected, Pending
<1> QED
  BY <1>1, <1>2 DEF d

\* Sending: all of it, or the acknowledgements only.
LEMMA AfterSendGoes ==
    ASSUME NEW c \in Client
    PROVE  Goes(AfterSend(c), c) /\ Goes(AcksSent(c), c)
<1> DEFINE a == AcksSent(c)
           s == Sent(c)
<1>1. /\ a.state \in {c.state, "ZOMBIE"} /\ a \in Client
      /\ a.sent = c.sent /\ a.outR = c.outR
      /\ a.inRel = c.inRel /\ a.inQ = c.inQ /\ a.open = c.open
  <2>1. <<>> \in Seq(Ack)
    OBVIOUS
  <2> QED
    BY <2>1 DEF AcksSent, Client, States
<1>2. s = [a EXCEPT !.outR = <<>>, !.sent = a.sent \union Range(c.outR)]
  BY DEF Sent
<1> HIDE DEF a, s
<1>3. /\ s.state = a.state /\ s.outR = <<>> /\ s.sent = c.sent \union Range(c.outR)
      /\ s.inRel = a.inRel /\ s.inQ = a.inQ /\ s.open = a.open
  BY <1>1, <1>2 DEF Client
<1>4. Pending(s) = Pending(c) /\ Pending(a) = Pending(c)
  BY <1>1, <1>3, RangeEmpty DEF Pending
<1>5. Goes(a, c) /\ Goes(s, c)
  BY <1>1, <1>3, <1>4 DEF Goes, Continues, Connected
<1> QED
  BY <1>5, SameGoes DEF AfterSend, a, s

\* An acknowledgement takes messages out, and touches no channel.
LEMMA DisposeGoes ==
    ASSUME NEW c \in Client, NEW seq, NEW chan
    PROVE  LET d == Dispose(c, seq, chan)
           IN  /\ Goes(d, c)
               /\ d.state = c.state /\ d.inRel = c.inRel /\ d.inQ = c.inQ /\ d.open = c.open
<1> DEFINE d == Dispose(c, seq, chan)
<1>1. /\ d.state = c.state /\ d.outR = c.outR /\ d.sent \subseteq c.sent
      /\ d.inRel = c.inRel /\ d.inQ = c.inQ /\ d.open = c.open
  BY DEF Dispose, Client
<1> HIDE DEF d
<1>2. Pending(d) \subseteq Pending(c)
  BY <1>1 DEF Pending
<1>3. Goes(d, c)
  BY <1>1, <1>2 DEF Goes, Continues, Connected
<1> QED
  BY <1>1, <1>3 DEF d

\* So does one that is queued.
LEMMA AcknowledgeGoes ==
    ASSUME NEW c \in Client, NEW m \in Message, NEW d, NEW a \in Acknowledge(c, m, d)
    PROVE  /\ Goes(a, c)
           /\ a.state = c.state /\ a.inRel = c.inRel /\ a.inQ = c.inQ /\ a.open = c.open
<1> DEFINE n == [c EXCEPT !.acks = Append(@, [type |-> m.type, chan |-> m.chan, seq |-> m.seq])]
<1>1. a \in {c, n}
  BY DEF Acknowledge, QueueAck
<1>2. /\ n.state = c.state /\ n.outR = c.outR /\ n.sent = c.sent
      /\ n.inRel = c.inRel /\ n.inQ = c.inQ /\ n.open = c.open
  BY DEF Client
<1> HIDE DEF n
<1>3. Goes(n, c)
  BY <1>2 DEF Goes, Continues, Connected, Pending
<1> QED
  BY <1>1, <1>2, <1>3, SameGoes

\* Cleared queues, in a state that is not connected.
LEMMA ClearedGoes ==
    ASSUME NEW c \in Client
    PROVE  /\ \A st \in {"ZOMBIE", "ACKNOWLEDGING_DISCONNECT"} :
                Goes([ClearQueues(c) EXCEPT !.state = st], c)
           /\ Goes(CloseConnected(c), c)
<1> DEFINE k == ClearQueues(c)
           q == QueueOut(k, "DISCONNECT", "control")
<1>1. k \in Client /\ Pending(k) = {} /\ DistinctNumbers(k) /\ Counted(k)
  BY ClearQueuesEmpties
<1> HIDE DEF k
<1>2. \A st \in {"ZOMBIE", "ACKNOWLEDGING_DISCONNECT"} : Goes([k EXCEPT !.state = st], c)
  <2> SUFFICES ASSUME NEW st \in {"ZOMBIE", "ACKNOWLEDGING_DISCONNECT"}
               PROVE  Goes([k EXCEPT !.state = st], c)
    OBVIOUS
  <2>1. st \in States \ {"DISCONNECTED", "CONNECTING", "ACKNOWLEDGING_CONNECT"}
    BY DEF States
  <2> DEFINE d == [k EXCEPT !.state = st]
  <2>2. d.state = st /\ Pending(d) = {}
    BY <1>1, <2>1, StateGoes
  <2> HIDE DEF d
  <2>3. Goes(d, c)
    BY <2>1, <2>2 DEF Goes, Continues, Connected
  <2> QED
    BY <2>3 DEF d
<1>3. "DISCONNECT" \in MessageTypes /\ "control" \in Channels
      /\ "DISCONNECTING" \in States \ {"DISCONNECTED", "CONNECTING", "ACKNOWLEDGING_CONNECT"}
  BY DEF MessageTypes, Channels, States
<1>4. q \in Client /\ Pending(q) = {Numbered(k, "DISCONNECT", "control")}
  BY <1>1, <1>3, QueueOutAdds
<1>5. DataNumbered(Numbered(k, "DISCONNECT", "control"))
  BY DEF Numbered, DataNumbered
<1> HIDE DEF q
<1> DEFINE d == [q EXCEPT !.state = "DISCONNECTING"]
<1>6. d.state = "DISCONNECTING" /\ Pending(d) = Pending(q)
  BY <1>3, <1>4, StateGoes
<1> HIDE DEF d
<1>7. Goes(d, c)
  BY <1>4, <1>5, <1>6 DEF Goes, Continues, Connected
<1> QED
  BY <1>2, <1>7, Zenon DEF k, q, d, CloseConnected

\* The end of a client, at once or announced.
LEMMA NotifyDisconnectGoes ==
    ASSUME NEW c \in Client, NEW s
    PROVE  Goes(NotifyDisconnect(c, s), c)
<1>1. "ZOMBIE" \in States \ {"DISCONNECTED", "CONNECTING", "ACKNOWLEDGING_CONNECT"}
  BY DEF States
<1> DEFINE d == [c EXCEPT !.state = "ZOMBIE"]
<1>2. Continues(d, c) /\ d.state = "ZOMBIE"
  BY <1>1, StateGoes
<1> HIDE DEF d
<1>3. Goes(d, c)
  BY <1>2 DEF Goes, Connected
<1> QED
  BY <1>3, BlankGoes DEF NotifyDisconnect, d

\* An event that is taken connects a client only if it is CONNECT.
LEMMA DispatchedContinues ==
    ASSUME NEW c \in Client
    PROVE  /\ Continues(Dispatched(c), c)
           /\ Connected(Dispatched(c)) => Connected(c) \/ DispatchEvent(c) = "CONNECT"
<1> DEFINE n == [c EXCEPT !.inRel = @ + 1, !.inQ = @ \ {c.inRel + 1}]
           u == [c EXCEPT !.state = "CONNECTED"]
<1>1. \/ Dispatched(c) \in {Blank, c}
      \/ Dispatched(c) = n /\ c.state = "CONNECTED"
      \/ Dispatched(c) = u /\ DispatchEvent(c) = "CONNECT"
  BY DEF Dispatched, DispatchEvent
<1>2. c.state = "CONNECTED" => Goes(n, c)
  <2>1. n.state = c.state /\ n.outR = c.outR /\ n.sent = c.sent
    BY DEF Client
  <2> HIDE DEF n
  <2> QED
    BY <2>1 DEF Goes, Continues, Connected, Pending
<1>3. Continues(u, c)
  <2>1. "CONNECTED" \in States \ {"DISCONNECTED", "CONNECTING", "ACKNOWLEDGING_CONNECT"}
    BY DEF States
  <2> QED
    BY <2>1, StateGoes
<1> HIDE DEF n, u
<1> QED
  BY <1>1, <1>2, <1>3, SameGoes, BlankGoes DEF Goes

\* The throttle connects nobody.
LEMMA ThrottledGoes ==
    ASSUME NEW h, Sound(client[h]), NEW t \in Throttled(h)
    PROVE  Goes(t[1], client[h])
<1> DEFINE q == QueueOut(client[h], "PING", "control")
<1>1. "PING" \in MessageTypes /\ "control" \in Channels
  BY DEF MessageTypes, Channels
<1>2. Goes(q, client[h])
  BY <1>1, QueueOutGoes
<1>3. CASE t = <<client[h], reconf[h]>>
  BY <1>3, SameGoes
<1>4. CASE t = <<q, FALSE>>
  BY <1>2, <1>4
<1> QED
  BY <1>3, <1>4 DEF Throttled

-----------------------------------------------------------------------------
(* The reliable data of a datagram.                                         *)

\* Two queues without duplicates and without a common message, in one.
LEMMA ConcatStaysInjective ==
    ASSUME NEW u \in Seq(Message), NEW v \in Seq(Message), NEW w, w = u \o v,
           \A i, j \in DOMAIN u : u[i] = u[j] => i = j,
           \A i, j \in DOMAIN v : v[i] = v[j] => i = j,
           \A i \in DOMAIN u, j \in DOMAIN v : u[i] # v[j]
    PROVE  \A i, j \in DOMAIN w : w[i] = w[j] => i = j
<1>1. /\ w \in Seq(Message) /\ Len(w) = Len(u) + Len(v)
      /\ \A i \in 1..(Len(u) + Len(v)) : w[i] = IF i <= Len(u) THEN u[i] ELSE v[i - Len(u)]
  BY ConcatProperties, Zenon
<1>2. Len(u) \in Nat /\ Len(v) \in Nat /\ DOMAIN u = 1..Len(u) /\ DOMAIN v = 1..Len(v)
  OBVIOUS
<1>3. DOMAIN w = 1..(Len(u) + Len(v))
  <2>1. DOMAIN w = 1..Len(w)
    BY <1>1
  <2> QED
    BY <1>1, <2>1
<1> SUFFICES ASSUME NEW i \in 1..(Len(u) + Len(v)), NEW j \in 1..(Len(u) + Len(v)), w[i] = w[j]
             PROVE  i = j
  BY <1>3
<1>4. CASE i <= Len(u) /\ j <= Len(u)
  <2>1. i \in DOMAIN u /\ j \in DOMAIN u
    BY <1>2, <1>4
  <2>2. u[i] = u[j]
    BY <1>1, <1>4
  <2> QED
    BY <2>1, <2>2
<1>5. CASE i > Len(u) /\ j > Len(u)
  <2>1. i - Len(u) \in DOMAIN v /\ j - Len(u) \in DOMAIN v
    BY <1>2, <1>5
  <2>2. v[i - Len(u)] = v[j - Len(u)]
    BY <1>1, <1>2, <1>5
  <2>3. i - Len(u) = j - Len(u)
    BY <2>1, <2>2
  <2> QED
    BY <1>2, <2>3
<1>6. ASSUME NEW k \in 1..(Len(u) + Len(v)), NEW l \in 1..(Len(u) + Len(v)),
             k <= Len(u), l > Len(u)
      PROVE  w[k] # w[l]
  <2>1. k \in DOMAIN u /\ l - Len(u) \in DOMAIN v
    BY <1>2, <1>6
  <2>2. w[k] = u[k] /\ w[l] = v[l - Len(u)]
    BY <1>1, <1>2, <1>6
  <2> QED
    BY <2>1, <2>2
<1> QED
  BY <1>2, <1>4, <1>5, <1>6

\* A datagram of a client holds no message twice, but for acknowledgements.
LEMMA SentOnce ==
    ASSUME NEW c, Sound(c), NEW t \in Seq(Header), NEW r, Resendable(c, r), IsInjective(r),
           NEW msgs, msgs = Outgoing(c, t, r)
    PROVE  \A i, j \in DOMAIN msgs :
             i > Len(c.acks) /\ j > Len(c.acks) /\ msgs[i] = msgs[j] => i = j
<1> DEFINE a == AckMessages(c, t)
           b == r \o c.outR
<1>1. a \in Seq(Message) /\ Len(a) = Len(c.acks) /\ Len(c.acks) \in Nat
  <2>1. c.acks \in Seq(Ack) /\ DOMAIN c.acks = 1..Len(c.acks)
    BY DEF Sound, Client
  <2>2. DOMAIN a = 1..Len(c.acks)
    BY <2>1 DEF AckMessages
  <2> QED
    BY <2>1, <2>2, AckMessagesTyped DEF Sound
<1> HIDE DEF a
<1>2. r \in Seq(Message) /\ c.outR \in Seq(Message)
  BY DEF Resendable, Sound, Client
<1>3. \A i, j \in DOMAIN b : b[i] = b[j] => i = j
  <2>1. \A i, j \in DOMAIN r : r[i] = r[j] => i = j
    BY DEF IsInjective
  <2>2. \A i, j \in DOMAIN c.outR : c.outR[i] = c.outR[j] => i = j
    BY DEF Sound, DistinctNumbers, QueuedOnce, IsInjective
  <2>3. \A i \in DOMAIN r, j \in DOMAIN c.outR : r[i] # c.outR[j]
    BY DEF Resendable, Sound, DistinctNumbers, QueuedOnce, Range
  <2> QED
    BY <1>2, <2>1, <2>2, <2>3, ConcatStaysInjective
<1>4. b \in Seq(Message)
  BY <1>2, ConcatProperties
<1>5. msgs = a \o b
  <2>1. (a \o r) \o c.outR = a \o (r \o c.outR)
    BY <1>1, <1>2, MessagesAssociative
  <2> QED
    BY <2>1, Zenon DEF a, Outgoing
<1> HIDE DEF b
<1>6. /\ msgs \in Seq(Message) /\ Len(msgs) = Len(a) + Len(b)
      /\ \A i \in 1..(Len(a) + Len(b)) : msgs[i] = IF i <= Len(a) THEN a[i] ELSE b[i - Len(a)]
  <2>1. /\ a \o b \in Seq(Message) /\ Len(a \o b) = Len(a) + Len(b)
        /\ \A i \in 1..(Len(a) + Len(b)) :
             (a \o b)[i] = IF i <= Len(a) THEN a[i] ELSE b[i - Len(a)]
    BY <1>1, <1>4, ConcatProperties
  <2> QED
    BY <1>5, <2>1
<1>7. DOMAIN msgs = 1..Len(msgs) /\ DOMAIN b = 1..Len(b) /\ Len(b) \in Nat
  <2>1. b \in Seq(Message) /\ msgs \in Seq(Message)
    BY <1>4, <1>6
  <2> QED
    BY <2>1
<1> SUFFICES ASSUME NEW i \in 1..(Len(a) + Len(b)), NEW j \in 1..(Len(a) + Len(b)),
                    i > Len(a), j > Len(a), msgs[i] = msgs[j]
             PROVE  i = j
  BY <1>1, <1>6, <1>7
<1>8. i - Len(a) \in DOMAIN b /\ j - Len(a) \in DOMAIN b
  BY <1>1, <1>7
<1>9. b[i - Len(a)] = b[j - Len(a)]
  <2>1. ~(i <= Len(a)) /\ ~(j <= Len(a))
    BY <1>1, <1>7
  <2>2. msgs[i] = b[i - Len(a)]
    BY <1>6, <2>1, Zenon
  <2>3. msgs[j] = b[j - Len(a)]
    BY <1>6, <2>1, Zenon
  <2> QED
    BY <2>2, <2>3, Zenon
<1>10. i - Len(a) = j - Len(a)
  BY <1>3, <1>8, <1>9
<1> QED
  BY <1>1, <1>10

\* So its reliable data is new to a channel that has received nothing.
LEMMA SentData ==
    ASSUME NEW c, Sound(c), Ready(c), NEW t \in Seq(Header), NEW r, Resendable(c, r),
           IsInjective(r), NEW msgs, msgs = Outgoing(c, t, r)
    PROVE  NewData(msgs, {})
<1>1. /\ Len(c.acks) \in Nat /\ msgs \in Seq(Message)
      /\ \A i \in DOMAIN msgs :
           IF i <= Len(c.acks) THEN msgs[i].type = "ACKNOWLEDGE" ELSE msgs[i] \in Pending(c)
  <2>1. c \in Client
    BY DEF Sound
  <2> QED
    BY <2>1, SentMessages
<1>2. \A i, j \in DOMAIN msgs :
        i > Len(c.acks) /\ j > Len(c.acks) /\ msgs[i] = msgs[j] => i = j
  BY SentOnce
<1>3. ASSUME NEW i \in DOMAIN msgs, msgs[i].type = "RELIABLE_DATA"
      PROVE  /\ msgs[i] \in Pending(c) /\ i > Len(c.acks)
             /\ msgs[i].chan = "data" /\ msgs[i].seq > 0
  <2>1. ~(i <= Len(c.acks)) /\ i \in Nat
    BY <1>1, <1>3
  <2>2. msgs[i] \in Pending(c)
    BY <1>1, <2>1
  <2>3. DataNumbered(msgs[i])
    BY <2>2 DEF Ready
  <2> QED
    BY <1>1, <1>3, <2>1, <2>2, <2>3 DEF DataNumbered
<1>4. ASSUME NEW i \in DOMAIN msgs, NEW j \in DOMAIN msgs, msgs[i].type = "RELIABLE_DATA",
             msgs[j].type = "RELIABLE_DATA", msgs[i].seq = msgs[j].seq
      PROVE  i = j
  <2>1. msgs[i] = msgs[j]
    BY <1>3, <1>4 DEF Sound, DistinctNumbers
  <2> QED
    BY <1>2, <1>3, <1>4, <2>1
<1> QED
  BY <1>3, <1>4 DEF NewData

\* Nothing holds no data.
LEMMA NothingNew == \A Q : NewData(<<>>, Q)
BY DEF NewData

\* What the first send of a poll resends holds nothing twice.
LEMMA ResendsOnce ==
    ASSUME NEW c
    PROVE  (\A r \in Resends(c) : IsInjective(r)) /\ IsInjective(<<>>)
BY EmptyInjective DEF Resends, Injection

\* Nor does the rest of a datagram; its data is new also after the first message
\* has been queued.
LEMMA RestData ==
    ASSUME NEW d \in Datagram, d.msgs # <<>>, NEW Q, NewData(d.msgs, Q)
    PROVE  /\ NewData(Rest(d).msgs, Q)
           /\ Head(d.msgs).type = "RELIABLE_DATA" =>
                /\ Head(d.msgs).seq > 0 /\ Head(d.msgs).seq \notin Q
                /\ NewData(Rest(d).msgs, Q \union {Head(d.msgs).seq})
<1> DEFINE s == d.msgs
           n == Head(s)
<1>1. s \in Seq(Message) /\ s # <<>>
  BY DEF Datagram
<1> HIDE DEF s
<1>2. 1 \in DOMAIN s /\ n = s[1]
  BY <1>1
<1>3. CASE Len(s) = 1
  <2>1. Rest(d).msgs = <<>>
    BY <1>3 DEF Rest, NoDatagram, s
  <2> QED
    BY <1>2, <2>1 DEF NewData, s
<1>4. CASE Len(s) # 1
  <2> DEFINE t == Tail(s)
  <2>1. Rest(d).msgs = t
    BY <1>4 DEF Rest, Datagram, s
  <2>2. \A i \in DOMAIN t : i + 1 \in DOMAIN s /\ i + 1 # 1 /\ t[i] = s[i + 1] /\ i \in Nat
    <3>1. /\ Len(t) = Len(s) - 1 /\ Len(s) \in Nat /\ DOMAIN s = 1 .. Len(s)
          /\ t \in Seq(Message)
      BY <1>1
    <3>2. DOMAIN t = 1 .. Len(s) - 1
      BY <3>1
    <3>3. \A i \in 1 .. Len(s) - 1 : t[i] = s[i + 1]
      BY <1>1
    <3> HIDE DEF t
    <3> QED
      BY <3>1, <3>2, <3>3
  <2> HIDE DEF t
  <2>3. NewData(s, Q)
    BY DEF s
  <2>4. NewData(t, Q)
    <3> SUFFICES ASSUME NEW i \in DOMAIN t, t[i].type = "RELIABLE_DATA"
                 PROVE  /\ t[i].seq > 0 /\ t[i].seq \notin Q
                        /\ \A j \in DOMAIN t :
                             t[j].type = "RELIABLE_DATA" /\ t[j].seq = t[i].seq => i = j
      BY DEF NewData
    <3>1. ASSUME NEW j \in DOMAIN t, t[j].type = "RELIABLE_DATA", t[j].seq = t[i].seq
          PROVE  i = j
      <4>1. i + 1 = j + 1
        BY <2>2, <2>3, <3>1 DEF NewData
      <4> QED
        BY <2>2, <4>1
    <3> QED
      BY <2>2, <2>3, <3>1 DEF NewData
  <2>5. ASSUME n.type = "RELIABLE_DATA"
        PROVE  /\ n.seq > 0 /\ n.seq \notin Q
               /\ \A i \in DOMAIN t : t[i].type = "RELIABLE_DATA" => t[i].seq # n.seq
    BY <1>2, <2>2, <2>3, <2>5 DEF NewData
  <2>6. n.type = "RELIABLE_DATA" => NewData(t, Q \union {n.seq})
    BY <2>4, <2>5 DEF NewData
  <2> HIDE DEF n
  <2>7. Head(d.msgs) = n
    BY DEF n, s
  <2> QED
    BY <2>1, <2>4, <2>5, <2>6, <2>7
<1> QED
  BY <1>3, <1>4

-----------------------------------------------------------------------------
(* Steps.                                                                   *)

NetData(ds) == \A d \in ds : NewData(d.msgs, {})

\* Transmitting adds a datagram of new data, or none.
LEMMA TransmitData ==
    ASSUME TypeOK, NetData(net), NEW h \in Hosts, NEW c, Sound(c), Ready(c),
           NEW r, Resendable(c, r), IsInjective(r), Transmit(h, c, r)
    PROVE  NetData(net')
<1> DEFINE msgs == Outgoing(c, tmpl[h], r)
           d == DatagramOf(h, c, r \o c.outR # <<>>, msgs)
<1>1. net' = net \/ net' = Put(d)
  BY DEF Transmit, Outgoing
<1>2. d.msgs = msgs
  BY DEF DatagramOf
<1>3. NewData(msgs, {})
  <2>1. tmpl[h] \in Seq(Header)
    BY DEF TypeOK
  <2> QED
    BY <2>1, SentData
<1> HIDE DEF d, msgs
<1> QED
  BY <1>1, <1>2, <1>3 DEF NetData, Put

\* A farewell holds none.
LEMMA FarewellData ==
    ASSUME NetData(net), NEW h, Farewell(h)
    PROVE  NetData(net')
<1> DEFINE m == [type |-> "DISCONNECT", chan |-> "control", flag |-> "unseq",
                 seq |-> client[h].ctlSeq + 1, arg |-> 0]
           d == DatagramOf(h, client[h], FALSE, <<m>>)
<1>1. net' = Put(d) /\ d.msgs = <<m>> /\ m.type = "DISCONNECT"
  BY DEF Farewell, DatagramOf
<1> HIDE DEF d, m
<1>2. NewData(d.msgs, {})
  BY <1>1 DEF NewData
<1> QED
  BY <1>1, <1>2 DEF NetData, Put

\* The parts of the invariant a step of h can disturb.
LEMMA ToldStep ==
    ASSUME IInv, TInv, NEW h \in Hosts, NEW c, client' = [client EXCEPT ![h] = c],
           \A k \in Hosts \ {h} :
             rx'[k] = rx[k] /\ at'[k] = at[k] /\ ev'[k] = ev[k] /\ told'[k] = told[k],
           Connected(c) => (told[h] \/ Fresh(h))',
           Ready(c), rx'[h].msgs # <<>> => at'[h] = "receive", NewData(rx'[h].msgs, {}),
           NetData(net')
    PROVE  TInv'
<1>1. client'[h] = c /\ \A k \in Hosts \ {h} : client'[k] = client[k]
  BY DEF IInv, TypeOK
<1>2. ASSUME NEW k \in Hosts PROVE ToldInv(k)'
  <2>1. CASE k = h
    BY <1>1, <2>1 DEF ToldInv
  <2>2. CASE k # h
    BY <1>1, <2>2 DEF TInv, ToldInv, Fresh
  <2> QED
    BY <2>1, <2>2
<1> QED
  BY <1>2 DEF TInv, NetData

\* What the invariants say of a host.
LEMMA ToldFacts ==
    ASSUME IInv, TInv, NEW h \in Hosts
    PROVE  /\ Sound(client[h]) /\ client[h] \in Client /\ Ready(client[h])
           /\ NetData(net) /\ TypeOK /\ rx[h] \in Datagram /\ NewData(rx[h].msgs, {})
           /\ at[h] = "app" \/ rx[h].msgs = <<>> =>
                rx[h].msgs = <<>> /\ (Connected(client[h]) => told[h])
BY DEF IInv, TInv, ToldInv, Fresh, NetData, Sound, TypeOK

\* A call of the application.
LEMMA CallTold ==
    ASSUME IInv, TInv, NEW h \in Hosts, at[h] = "app",
           NEW c, Become(h, c), Ready(c), Connected(c) => Connected(client[h]), NetData(net')
    PROVE  TInv'
<1>1. rx[h].msgs = <<>> /\ (Connected(client[h]) => told[h])
  BY ToldFacts
<1>2. /\ client' = [client EXCEPT ![h] = c]
      /\ \A k \in Hosts \ {h} :
           rx'[k] = rx[k] /\ at'[k] = at[k] /\ ev'[k] = ev[k] /\ told'[k] = told[k]
      /\ rx'[h].msgs = <<>> /\ told'[h] = (told[h] /\ c.state # "DISCONNECTED")
  BY <1>1 DEF Become, IInv, TypeOK
<1>3. Connected(c) => told'[h]
  BY <1>1, <1>2 DEF Connected
<1>4. NewData(rx'[h].msgs, {})
  BY <1>2, NothingNew
<1>5. Connected(c) => (told[h] \/ Fresh(h))'
  BY <1>3
<1> QED
  BY <1>2, <1>4, <1>5, ToldStep

\* A poll that returns with nothing left to read.
LEMMA ReturnTold ==
    ASSUME IInv, TInv, NEW h \in Hosts, at[h] = "app" \/ rx[h].msgs = <<>>,
           NEW c, client' = [client EXCEPT ![h] = c], NEW o, Return(h, o),
           Continues(c, client[h]), Connected(c) => Connected(client[h]) \/ o = "CONNECT",
           NetData(net')
    PROVE  TInv'
<1>1. rx[h].msgs = <<>> /\ (Connected(client[h]) => told[h]) /\ Ready(client[h])
  BY ToldFacts
<1>2. /\ \A k \in Hosts \ {h} :
           rx'[k] = rx[k] /\ at'[k] = at[k] /\ ev'[k] = ev[k] /\ told'[k] = told[k]
      /\ rx'[h].msgs = <<>>
      /\ told'[h] = (c.state # "DISCONNECTED" /\ (told[h] \/ o = "CONNECT"))
  BY DEF Return, IInv, TypeOK, NoDatagram
<1>3. Connected(c) => told'[h]
  BY <1>1, <1>2 DEF Connected
<1>4. Ready(c) /\ NewData(rx'[h].msgs, {})
  BY <1>1, <1>2, ContinuesReady, NothingNew
<1>5. Connected(c) => (told[h] \/ Fresh(h))'
  BY <1>3
<1> QED
  BY <1>2, <1>4, <1>5, ToldStep

\* A handler whose client is connected afterwards has told so, or goes on to.
LEMMA HandlerTold ==
    ASSUME IInv, TInv, NEW h \in Hosts, rx[h].msgs # <<>>,
           NEW c, client' = [client EXCEPT ![h] = c], NEW e, Advance(h, e),
           Ready(c),
           Connected(c) =>
             \/ told[h]
             \/ /\ c.state = "CONNECTED" /\ c.open /\ c.inRel = 0
                /\ e = "CONNECT" \/ (e = "none" /\ ev[h] = "CONNECT")
                /\ NewData(Rest(rx[h]).msgs, c.inQ)
    PROVE  TInv'
<1> DEFINE v == IF e = "none" THEN ev[h] ELSE e
           d == rx[h]
<1>1. d \in Datagram /\ NewData(d.msgs, {}) /\ NetData(net)
  BY ToldFacts
<1>2. NewData(Rest(d).msgs, {}) /\ client'[h] = c
  BY <1>1, RestData DEF IInv, TypeOK
<1>3. NetData(net')
  BY <1>1 DEF Advance
<1>4. Len(d.msgs) = 1 \/ Rest(d).msgs # <<>>
  BY <1>1, RestOf
<1>5. CASE Len(d.msgs) = 1 /\ v # "none"
  <2>1. Return(h, v)
    BY <1>5 DEF Advance
  <2>2. /\ \A k \in Hosts \ {h} :
             rx'[k] = rx[k] /\ at'[k] = at[k] /\ ev'[k] = ev[k] /\ told'[k] = told[k]
        /\ rx'[h] = NoDatagram
        /\ told'[h] = (c.state # "DISCONNECTED" /\ (told[h] \/ v = "CONNECT"))
    BY <1>2, <2>1 DEF Return, IInv, TypeOK
  <2>3. Connected(c) => told'[h]
    BY <2>2 DEF Connected
  <2>4. NewData(rx'[h].msgs, {}) /\ rx'[h].msgs = <<>>
    BY <2>2, NothingNew DEF NoDatagram
  <2>5. Connected(c) => (told[h] \/ Fresh(h))'
    BY <2>3
  <2> QED
    BY <1>2, <1>3, <2>2, <2>4, <2>5, ToldStep
<1>6. CASE ~(Len(d.msgs) = 1 /\ v # "none")
  <2>1. /\ rx' = [rx EXCEPT ![h] = Rest(d)] /\ ev' = [ev EXCEPT ![h] = v]
        /\ told' = [told EXCEPT ![h] = @ /\ client'[h].state # "DISCONNECTED"]
        /\ UNCHANGED at
    BY <1>6 DEF Advance
  <2>2. /\ \A k \in Hosts \ {h} :
             rx'[k] = rx[k] /\ at'[k] = at[k] /\ ev'[k] = ev[k] /\ told'[k] = told[k]
        /\ rx'[h] = Rest(d) /\ at'[h] = at[h] /\ ev'[h] = v
        /\ told'[h] = (told[h] /\ c.state # "DISCONNECTED")
    BY <1>2, <2>1 DEF IInv, TypeOK
  <2>3. at[h] = "receive"
    BY DEF TInv, ToldInv
  <2>4. Connected(c) => (told[h] \/ Fresh(h))'
    <3>1. CASE told[h]
      BY <2>2, <3>1 DEF Connected
    <3>2. CASE ~told[h]
      BY <1>2, <1>4, <1>6, <2>2, <3>2 DEF Fresh
    <3> QED
      BY <3>1, <3>2
  <2> QED
    BY <1>2, <1>3, <2>2, <2>3, <2>4, ToldStep
<1> QED
  BY <1>5, <1>6

\* The calls of the application.
LEMMA CallsTold ==
    ASSUME IInv, TInv, NEW h \in Hosts, Application(h)
    PROVE  TInv'
<1> DEFINE c == client[h]
<1>1. Sound(c) /\ c \in Client /\ Ready(c) /\ NetData(net) /\ TypeOK
  BY ToldFacts
<1>2. UNCHANGED net => NetData(net')
  BY <1>1
<1>3. at[h] = "app"
  BY DEF Application, Connect, Ping, SendData, Flush, CloseGracefully, CloseLater, CloseNow,
         DestroyClient, Calls, Idle, SetThrottle
<1>4. ASSUME NEW d, Become(h, d), Goes(d, c), NetData(net') PROVE TInv'
  <2>1. Ready(d) /\ (Connected(d) => Connected(c))
    BY <1>1, <1>4, ContinuesReady DEF Goes
  <2> QED
    BY <1>3, <1>4, <2>1, CallTold
<1>5. CASE Connect(h)
  <2>1. PICK p, s :
          /\ Become(h, QueueOut([c EXCEPT !.state = "CONNECTING", !.peer = p,
                                          !.open = TRUE, !.session = s], "CONNECT", "control"))
          /\ UNCHANGED net /\ c.state = "DISCONNECTED"
    BY <1>5, Zenon DEF Connect
  <2> DEFINE b == [c EXCEPT !.state = "CONNECTING", !.peer = p, !.open = TRUE, !.session = s]
             m == Numbered(b, "CONNECT", "control")
             q == QueueOut(b, "CONNECT", "control")
  <2>2. /\ b.state = "CONNECTING" /\ b.open /\ b.inRel = c.inRel /\ b.inQ = c.inQ
        /\ b.sent = c.sent /\ b.outR = c.outR
    BY <1>1 DEF Client
  <2>3. /\ q.state = b.state /\ q.open = b.open /\ q.inRel = b.inRel /\ q.inQ = b.inQ
        /\ q.sent = b.sent /\ q.outR = Append(b.outR, m)
    BY <1>1 DEF QueueOut, Client
  <2>4. m.type = "CONNECT" /\ m \in Message
    BY <1>1 DEF Numbered, Message, MessageTypes, Channels, Flags, Client
  <2> HIDE DEF b, m, q
  <2>5. Pending(q) = Pending(c) \union {m}
    <3>1. c.outR \in Seq(Message)
      BY <1>1 DEF Client
    <3> QED
      BY <2>2, <2>3, <2>4, <3>1, RangeAppend DEF Pending
  <2>6. Ready(q) /\ ~Connected(q)
    BY <1>1, <2>1, <2>2, <2>3, <2>4, <2>5 DEF Ready, DataNumbered, Untouched, Connected
  <2>7. Become(h, q)
    BY <2>1 DEF q, b
  <2> QED
    BY <1>2, <1>3, <2>1, <2>6, <2>7, CallTold
<1>6. {"PING", "RELIABLE_DATA"} \subseteq MessageTypes /\ {"control", "data"} \subseteq Channels
  BY DEF MessageTypes, Channels
<1>7. CASE Ping(h)
  <2>1. Goes(QueueOut(c, "PING", "control"), c)
    BY <1>1, <1>6, QueueOutGoes
  <2> QED
    BY <1>2, <1>4, <1>7, <2>1 DEF Ping
<1>8. CASE SendData(h)
  <2>1. Goes(QueueOut(c, "RELIABLE_DATA", "data"), c)
    BY <1>1, <1>6, QueueOutGoes
  <2> QED
    BY <1>2, <1>4, <1>8, <2>1 DEF SendData
<1>9. CASE Flush(h)
  <2>1. NetData(net')
    BY <1>1, <1>9, ResendsAreResendable, EmptyInjective, TransmitData DEF Flush
  <2> QED
    BY <1>1, <1>4, <1>9, <2>1, AfterSendGoes DEF Flush
<1>10. ASSUME Close(h) PROVE TInv'
  <2>1. \/ Become(h, CloseConnected(c)) /\ UNCHANGED net
        \/ Become(h, Blank) /\ (Farewell(h) \/ UNCHANGED net)
    BY <1>10 DEF Close
  <2> QED
    BY <1>1, <1>2, <1>4, <2>1, ClearedGoes, BlankGoes, FarewellData
<1>11. CASE CloseGracefully(h)
  BY <1>10, <1>11 DEF CloseGracefully
<1>12. CASE CloseLater(h)
  <2> DEFINE d == [c EXCEPT !.state = "DELAYING_DISCONNECT"]
  <2>1. "DELAYING_DISCONNECT" \in States \ {"DISCONNECTED", "CONNECTING", "ACKNOWLEDGING_CONNECT"}
    BY DEF States
  <2>2. Continues(d, c)
    BY <1>1, <2>1, StateGoes
  <2> HIDE DEF d
  <2>3. CASE Connected(c) /\ Become(h, d) /\ UNCHANGED net
    BY <1>2, <1>4, <2>2, <2>3 DEF Goes
  <2> QED
    BY <1>10, <1>12, <2>3 DEF CloseLater, d
<1>13. CASE CloseNow(h)
  BY <1>1, <1>2, <1>4, <1>13, BlankGoes, FarewellData DEF CloseNow
<1>14. CASE DestroyClient(h)
  BY <1>2, <1>4, <1>14, BlankGoes DEF DestroyClient
<1>15. CASE SetThrottle(h)
  <2>1. PICK v \in Configurations :
          /\ Become(h, QueueOut([c EXCEPT !.throttle = v], "CONFIGURE_THROTTLE", "control"))
          /\ UNCHANGED net
    BY <1>15 DEF SetThrottle
  <2> DEFINE d == [c EXCEPT !.throttle = v]
             q == QueueOut(d, "CONFIGURE_THROTTLE", "control")
  <2>2. v \in Nat
    BY ConfigurationsAssumption
  <2>3. Sound(d) /\ Goes(d, c)
    BY <1>1, <2>2, WithThrottle, WithThrottleGoes
  <2> HIDE DEF d
  <2>4. "CONFIGURE_THROTTLE" \in MessageTypes /\ "control" \in Channels
    BY DEF MessageTypes, Channels
  <2>5. Goes(q, d)
    BY <2>3, <2>4, QueueOutGoes
  <2> HIDE DEF q
  <2>6. Goes(q, c) /\ Become(h, q)
    BY <2>1, <2>3, <2>5, GoesTransitive DEF q, d
  <2> QED
    BY <1>2, <1>4, <2>1, <2>6
<1> QED
  BY <1>5, <1>7, <1>8, <1>9, <1>11, <1>12, <1>13, <1>14, <1>15 DEF Application

\* The steps of a poll outside its receive loop.
LEMMA PollsTold ==
    ASSUME IInv, TInv, NEW h \in Hosts,
           PollDispatch(h) \/ PollSend(h) \/ PollGivesUp(h) \/ PollEnd(h) \/ Receive(h)
    PROVE  TInv'
<1> DEFINE b == client[h]
<1>1. Sound(b) /\ b \in Client /\ Ready(b) /\ NetData(net) /\ TypeOK
  BY ToldFacts
<1>2. UNCHANGED net => NetData(net')
  BY <1>1
<1>3. CASE PollDispatch(h)
  BY <1>1, <1>2, <1>3, DispatchedContinues, ReturnTold DEF PollDispatch, Idle
<1>4. CASE PollSend(h)
  <2>1. PICK t \in Throttled(h) :
          /\ \E r \in Resends(t[1]) : Transmit(h, t[1], r)
          /\ client' = [client EXCEPT ![h] = AfterSend(t[1])]
          /\ at' = [at EXCEPT ![h] = "receive"]
          /\ UNCHANGED <<rx, ev, told>>
    BY <1>4 DEF PollSend
  <2> DEFINE c == AfterSend(t[1])
  <2>2. rx[h].msgs = <<>> /\ (Connected(b) => told[h])
    BY <1>4, ToldFacts DEF PollSend, PollStarts, Idle
  <2>3. Sound(t[1]) /\ t[1] \in Client /\ Goes(t[1], b)
    BY <1>1, ThrottledSound, ThrottledGoes DEF Sound
  <2>4. Ready(t[1])
    BY <1>1, <2>3, ContinuesReady DEF Goes
  <2>5. NetData(net')
    BY <1>1, <2>1, <2>3, <2>4, ResendsAreResendable, ResendsOnce, TransmitData
  <2>6. Goes(c, t[1])
    BY <2>3, AfterSendGoes
  <2> HIDE DEF c
  <2>7. Ready(c) /\ (Connected(c) => Connected(b))
    BY <2>3, <2>4, <2>6, ContinuesReady DEF Goes
  <2>8. Connected(c) => (told[h] \/ Fresh(h))'
    BY <2>1, <2>2, <2>7
  <2>9. \A k \in Hosts \ {h} :
          rx'[k] = rx[k] /\ at'[k] = at[k] /\ ev'[k] = ev[k] /\ told'[k] = told[k]
    BY <2>1 DEF IInv, TypeOK
  <2>10. rx'[h].msgs = <<>> /\ NewData(rx'[h].msgs, {})
    BY <2>1, <2>2, NothingNew
  <2>11. client' = [client EXCEPT ![h] = c]
    BY <2>1 DEF c
  <2> QED
    BY <2>5, <2>7, <2>8, <2>9, <2>10, <2>11, ToldStep
<1>5. CASE PollGivesUp(h)
  <2>1. PICK s \in Sinks, t \in Throttled(h), o \in Results :
          /\ client' = [client EXCEPT ![h] = NotifyDisconnect(AcksSent(t[1]), s)]
          /\ Return(h, o) /\ UNCHANGED net
    BY <1>5 DEF PollGivesUp, Results, Events
  <2> DEFINE a == AcksSent(t[1])
             c == NotifyDisconnect(a, s)
  <2>2. at[h] = "app"
    BY <1>5 DEF PollGivesUp, PollStarts, Idle
  <2>3. Sound(t[1]) /\ t[1] \in Client /\ Goes(t[1], b)
    BY <1>1, ThrottledSound, ThrottledGoes DEF Sound
  <2>4. a \in Client /\ Goes(a, t[1])
    <3>1. <<>> \in Seq(Ack)
      OBVIOUS
    <3> QED
      BY <2>3, <3>1, AfterSendGoes DEF AcksSent, Client, States
  <2> HIDE DEF a
  <2>5. Goes(c, a)
    BY <2>4, NotifyDisconnectGoes
  <2> HIDE DEF c
  <2>6. Goes(c, b)
    BY <2>3, <2>4, <2>5, GoesTransitive
  <2>7. client' = [client EXCEPT ![h] = c]
    BY <2>1 DEF c, a
  <2> QED
    BY <1>2, <2>1, <2>2, <2>6, <2>7, ReturnTold DEF Goes
<1>6. CASE PollEnd(h)
  <2> DEFINE d == AfterSend(b)
             e == IF sink[h] THEN DispatchEvent(d) ELSE "none"
             o == IF e = "none" THEN "idle" ELSE e
             c == IF sink[h] THEN Dispatched(d) ELSE d
  <2>1. /\ client' = [client EXCEPT ![h] = c] /\ Return(h, o)
        /\ rx[h].msgs = <<>> /\ Transmit(h, b, <<>>)
    BY <1>6 DEF PollEnd
  <2>2. Goes(d, b) /\ d \in Client
    BY <1>1, AfterSendGoes, AfterSendSound DEF Sound
  <2> HIDE DEF d
  <2>3. Continues(c, d) /\ (Connected(c) => Connected(d) \/ o = "CONNECT")
    BY <2>2, DispatchedContinues, SameGoes DEF Goes
  <2> HIDE DEF c, o
  <2>4. Continues(c, b) /\ (Connected(c) => Connected(b) \/ o = "CONNECT")
    BY <2>2, <2>3, GoesTransitive DEF Goes
  <2>5. NetData(net')
    BY <1>1, <2>1, ResendsAreResendable, EmptyInjective, TransmitData
  <2> QED
    BY <2>1, <2>4, <2>5, ReturnTold
<1>7. CASE Receive(h)
  <2>1. /\ at[h] = "receive" /\ rx[h].msgs = <<>>
        /\ UNCHANGED <<client, at, net, ev, told>>
    BY <1>7 DEF Receive
  <2>2. PICK d \in net : rx' = rx \/ rx' = [rx EXCEPT ![h] = d]
    BY <1>7 DEF Receive
  <2>3. Connected(b) => (told[h] \/ Fresh(h))'
    BY <2>1, ToldFacts
  <2>4. NewData(rx'[h].msgs, {}) /\ \A k \in Hosts \ {h} : rx'[k] = rx[k]
    BY <1>1, <2>1, <2>2, NothingNew DEF NetData, IInv, TypeOK
  <2>5. client' = [client EXCEPT ![h] = b]
    BY <2>1 DEF IInv, TypeOK
  <2> HIDE DEF b
  <2> QED
    BY <1>1, <1>2, <2>1, <2>3, <2>4, <2>5, ToldStep
<1> QED
  BY <1>3, <1>4, <1>5, <1>6, <1>7

\* A client that may be connected after a handler made the event e for it.
Announces(h, c, e) ==
    Connected(c) =>
        \/ told[h]
        \/ /\ c.state = "CONNECTED" /\ c.open /\ c.inRel = 0
           /\ e = "CONNECT" \/ (e = "none" /\ ev[h] = "CONNECT")
           /\ NewData(Rest(rx[h]).msgs, c.inQ)

\* A message that is handled, and may be acknowledged.
LEMMA HandledTold ==
    ASSUME IInv, TInv, NEW h \in Hosts, rx[h].msgs # <<>>,
           NEW c \in Client, NEW e, Handled(h, c, e), Ready(c), Announces(h, c, e)
    PROVE  TInv'
<1>1. Head(rx[h].msgs) \in Message
  BY HeadTyped DEF IInv
<1>2. PICK a \in Acknowledge(c, Head(rx[h].msgs), rx[h]) : client' = [client EXCEPT ![h] = a]
  BY DEF Handled
<1>3. /\ Goes(a, c)
      /\ a.state = c.state /\ a.inRel = c.inRel /\ a.inQ = c.inQ /\ a.open = c.open
  BY <1>1, <1>2, AcknowledgeGoes
<1>4. Ready(a)
  BY <1>3, ContinuesReady DEF Goes
<1>5. Announces(h, a, e)
  BY <1>3 DEF Announces, Connected
<1> QED
  BY <1>2, <1>4, <1>5, HandlerTold DEF Handled, Announces

\* One that is discarded.
LEMMA DiscardedTold ==
    ASSUME IInv, TInv, NEW h \in Hosts, rx[h].msgs # <<>>,
           NEW c, Discarded(h, c), Ready(c), Announces(h, c, "none")
    PROVE  TInv'
BY HandlerTold DEF Discarded, Announces

\* A handler that leaves the channels of a client as they were announces what
\* an earlier one of the same datagram did.
LEMMA StillAnnounces ==
    ASSUME IInv, TInv, NEW h \in Hosts, rx[h].msgs # <<>>, NEW c,
           Connected(c) => Connected(client[h]),
           Connected(client[h]) =>
             /\ c.inRel = client[h].inRel /\ c.inQ = client[h].inQ /\ c.open = client[h].open
             /\ c.state = client[h].state \/ ~Connected(c)
    PROVE  Announces(h, c, "none")
<1> SUFFICES ASSUME Connected(c), ~told[h]
             PROVE  /\ c.state = "CONNECTED" /\ c.open /\ c.inRel = 0 /\ ev[h] = "CONNECT"
                    /\ NewData(Rest(rx[h]).msgs, c.inQ)
  BY DEF Announces
<1>1. Fresh(h)
  BY DEF TInv, ToldInv
<1>2. NewData(Rest(rx[h]).msgs, client[h].inQ)
  BY <1>1, ToldFacts, RestData DEF Fresh
<1> QED
  BY <1>1, <1>2 DEF Fresh

\* The end of the handshake announces itself.
LEMMA ConnectedAnnounces ==
    ASSUME IInv, TInv, NEW h \in Hosts, rx[h].msgs # <<>>, NEW c \in Client,
           Untouched(c), c.open, \A m \in Pending(c) : DataNumbered(m)
    PROVE  LET n == NotifyConnect(c, sink[h])
           IN  n \in Client /\ Ready(n) /\ Announces(h, n, Announced(h, "CONNECT"))
<1> DEFINE st == IF sink[h] THEN "CONNECTED"
                 ELSE IF c.state = "CONNECTING" THEN "CONNECTION_SUCCEEDED"
                 ELSE "CONNECTION_PENDING"
           n == [c EXCEPT !.state = st]
<1>1. st \in States \ {"DISCONNECTED", "CONNECTING", "ACKNOWLEDGING_CONNECT"}
      /\ (st \in {"CONNECTED", "DELAYING_DISCONNECT"} => sink[h] /\ st = "CONNECTED")
  BY DEF States
<1> HIDE DEF st
<1>2. /\ n \in Client /\ n.state = st /\ Pending(n) = Pending(c)
      /\ n.inRel = c.inRel /\ n.inQ = c.inQ /\ n.open = c.open
  BY <1>1, StateGoes DEF Client
<1>3. NotifyConnect(c, sink[h]) = n
  BY DEF NotifyConnect, st
<1> HIDE DEF n
<1>4. Ready(n)
  BY <1>1, <1>2 DEF Ready
<1>5. NewData(Rest(rx[h]).msgs, {})
  BY ToldFacts, RestData
<1>6. Announces(h, n, Announced(h, "CONNECT"))
  BY <1>1, <1>2, <1>5 DEF Announces, Announced, Connected, Untouched
<1> QED
  BY <1>2, <1>3, <1>4, <1>6

\* The handlers.
LEMMA HandlersTold ==
    ASSUME IInv, TInv, NEW h \in Hosts, Handle(h)
    PROVE  TInv'
<1> DEFINE c == client[h]
           r == rx[h]
           m == Head(r.msgs)
<1>1. /\ Sound(c) /\ c \in Client /\ Ready(c) /\ NetData(net) /\ TypeOK /\ r \in Datagram
      /\ r.msgs # <<>> /\ NewData(r.msgs, {})
  BY ToldFacts DEF Handle, HandleConnect, HandleValidateConnect, HandleAcknowledge,
                   HandleDisconnect, HandlePing, HandleConfigureThrottle,
                   HandleReliableData, Handling
<1>2. Announces(h, c, "none")
  BY <1>1, StillAnnounces
<1>3. ASSUME NEW d \in Client, NEW e, Handled(h, d, e), Goes(d, c), ~Connected(d) PROVE TInv'
  <2>1. Ready(d) /\ Announces(h, d, e)
    BY <1>1, <1>3, ContinuesReady DEF Goes, Announces
  <2> QED
    BY <1>1, <1>3, <2>1, HandledTold
<1>4. CASE HandleConnect(h)
  <2>1. CASE Discarded(h, c)
    BY <1>1, <1>2, <2>1, DiscardedTold
  <2>2. CASE c.state = "DISCONNECTED"
    <3> DEFINE b == [c EXCEPT !.state = "ACKNOWLEDGING_CONNECT", !.peer = r.src,
                              !.bound = TRUE, !.open = TRUE, !.session = r.session,
                              !.throttle = m.arg]
               n == Numbered(b, "VALIDATE_CONNECT", "control")
               q == QueueOut(b, "VALIDATE_CONNECT", "control")
    <3>1. Handled(h, q, "none")
      BY <1>4, <2>2, Zenon DEF HandleConnect
    <3>2. /\ b \in Client /\ b.state = "ACKNOWLEDGING_CONNECT" /\ b.open /\ b.inRel = c.inRel
          /\ b.inQ = c.inQ /\ b.sent = c.sent /\ b.outR = c.outR
          /\ b.ctlSeq = c.ctlSeq /\ b.relSeq = c.relSeq
      BY <1>1, HeadTyped DEF Client, Datagram, Message, States, IInv
    <3> HIDE DEF b
    <3>3. DistinctNumbers(b) /\ Counted(b) /\ Pending(b) = Pending(c)
      BY <1>1, <3>2 DEF Sound, DistinctNumbers, QueuedOnce, Counted, CounterOf, Pending
    <3>4. "VALIDATE_CONNECT" \in MessageTypes /\ "control" \in Channels
      BY DEF MessageTypes, Channels
    <3>5. q \in Client /\ Pending(q) = Pending(b) \union {n} /\ q.state = b.state
      BY <3>2, <3>3, <3>4, QueueOutAdds
    <3>6. q.inRel = b.inRel /\ q.inQ = b.inQ /\ q.open = b.open
      BY <3>2 DEF QueueOut, Client
    <3>7. DataNumbered(n)
      BY DEF Numbered, DataNumbered
    <3> HIDE DEF q, n
    <3>8. Ready(q) /\ Announces(h, q, "none")
      BY <1>1, <2>2, <3>2, <3>3, <3>5, <3>6, <3>7
         DEF Ready, Untouched, Announces, Connected
    <3> QED
      BY <1>1, <3>1, <3>5, <3>8, HandledTold
  <2>3. CASE c.state # "DISCONNECTED" /\ Orphaned(r)
    <3>1. /\ rx' = [rx EXCEPT ![h] = Rest(r)]
          /\ UNCHANGED <<client, at, ev, told, net>>
      BY <1>4, <2>3, Zenon DEF HandleConnect
    <3>2. /\ rx'[h] = Rest(r) /\ client' = [client EXCEPT ![h] = c] /\ client'[h] = c
          /\ \A k \in Hosts \ {h} :
               rx'[k] = rx[k] /\ at'[k] = at[k] /\ ev'[k] = ev[k] /\ told'[k] = told[k]
      BY <3>1 DEF IInv, TypeOK
    <3>3. NewData(rx'[h].msgs, {}) /\ Rest(r).msgs # <<>>
      <4>1. Len(r.msgs) # 1
        <5>1. Len(r.msgs) \in Nat /\ Len(r.msgs) > 1
          BY <1>1, <2>3 DEF Orphaned, Datagram
        <5>2. \A n \in Nat : n > 1 => n # 1
          OBVIOUS
        <5> QED
          BY <5>1, <5>2, Zenon
      <4>2. NewData(Rest(r).msgs, {}) /\ Rest(r).msgs # <<>>
        BY <1>1, <4>1, RestData, RestOf
      <4> QED
        BY <3>2, <4>2
    <3>4. at'[h] = "receive"
      BY <1>1, <3>1 DEF TInv, ToldInv
    <3>5. Fresh(h) => Fresh(h)'
      BY <1>1, <3>1, <3>2, <3>3, RestData DEF Fresh
    <3>6. Connected(c) => (told[h] \/ Fresh(h))'
      BY <3>1, <3>5 DEF TInv, ToldInv
    <3>7. NetData(net')
      BY <1>1, <3>1
    <3> HIDE DEF c
    <3> QED
      BY <1>1, <3>2, <3>3, <3>4, <3>6, <3>7, ToldStep
  <2> QED
    BY <1>4, <2>1, <2>2, <2>3, Zenon DEF HandleConnect
<1>5. CASE HandleValidateConnect(h)
  <2>1. CASE Discarded(h, c)
    BY <1>1, <1>2, <2>1, DiscardedTold
  <2>2. CASE Validates(h)
    <3> DEFINE b == Dispose(c, 1, "control")
               u == [b EXCEPT !.bound = TRUE]
               n == NotifyConnect(u, sink[h])
    <3>1. Handled(h, n, Announced(h, "CONNECT")) /\ c.state = "CONNECTING"
      BY <1>5, <2>2, Zenon DEF HandleValidateConnect, Validates
    <3>2. /\ b \in Client /\ Pending(b) \subseteq Pending(c)
          /\ b.inRel = c.inRel /\ b.inQ = c.inQ /\ b.open = c.open
      BY <1>1, DisposeGoes, DisposeTakesOut
    <3> HIDE DEF b
    <3>3. /\ u \in Client /\ u.sent = b.sent /\ u.outR = b.outR
          /\ u.inRel = b.inRel /\ u.inQ = b.inQ /\ u.open = b.open
      BY <3>2 DEF Client
    <3> HIDE DEF u
    <3>4. Untouched(u) /\ u.open /\ \A x \in Pending(u) : DataNumbered(x)
      BY <1>1, <3>1, <3>2, <3>3 DEF Ready, Untouched, Pending
    <3>5. n \in Client /\ Ready(n) /\ Announces(h, n, Announced(h, "CONNECT"))
      BY <1>1, <3>3, <3>4, ConnectedAnnounces
    <3> HIDE DEF n
    <3> QED
      BY <1>1, <3>1, <3>5, HandledTold
  <2>3. CASE Discarded(h, [c EXCEPT !.state = "ZOMBIE"])
    <3> DEFINE d == [c EXCEPT !.state = "ZOMBIE"]
    <3>1. "ZOMBIE" \in States \ {"DISCONNECTED", "CONNECTING", "ACKNOWLEDGING_CONNECT"}
      BY DEF States
    <3>2. Continues(d, c) /\ d.state = "ZOMBIE"
      BY <1>1, <3>1, StateGoes
    <3> HIDE DEF d
    <3>3. Ready(d) /\ Announces(h, d, "none")
      BY <1>1, <3>2, ContinuesReady DEF Announces, Connected
    <3> QED
      BY <1>1, <2>3, <3>3, DiscardedTold DEF d
  <2> QED
    BY <1>5, <2>1, <2>2, <2>3, Zenon DEF HandleValidateConnect, Validates
<1>6. CASE HandleAcknowledge(h)
  <2> DEFINE d == Dispose(c, m.arg, m.chan)
             n == NotifyConnect(d, sink[h])
             z == NotifyDisconnect(d, sink[h])
             k == CloseConnected(d)
  <2>1. /\ d \in Client /\ DistinctNumbers(d) /\ Counted(d) /\ Goes(d, c)
        /\ d.state = c.state /\ d.inRel = c.inRel /\ d.inQ = c.inQ /\ d.open = c.open
    BY <1>1, DisposeGoes, DisposeTakesOut DEF Sound
  <2>2. \/ c.state = "ACKNOWLEDGING_CONNECT" /\ Handled(h, n, Announced(h, "CONNECT"))
        \/ Discarded(h, d)
        \/ Handled(h, z, Announced(h, "DISCONNECT")) /\ c.state = "DISCONNECTING"
        \/ Handled(h, k, "none")
        \/ Handled(h, d, "none")
    BY <1>6, Zenon DEF HandleAcknowledge
  <2> HIDE DEF d
  <2>3. Ready(d)
    BY <1>1, <2>1, ContinuesReady DEF Goes
  <2>4. Announces(h, d, "none")
    BY <1>1, <2>1, StillAnnounces DEF Goes
  <2>5. CASE c.state = "ACKNOWLEDGING_CONNECT" /\ Handled(h, n, Announced(h, "CONNECT"))
    <3>1. Untouched(d) /\ d.open /\ \A x \in Pending(d) : DataNumbered(x)
      BY <2>1, <2>3, <2>5 DEF Ready
    <3>2. n \in Client /\ Ready(n) /\ Announces(h, n, Announced(h, "CONNECT"))
      BY <1>1, <2>1, <3>1, ConnectedAnnounces
    <3> HIDE DEF n
    <3> QED
      BY <1>1, <2>5, <3>2, HandledTold
  <2>6. CASE Handled(h, z, Announced(h, "DISCONNECT")) /\ c.state = "DISCONNECTING"
    <3>1. z \in Client /\ Goes(z, c)
      <4>1. sink[h] \in BOOLEAN
        BY DEF IInv, TypeOK
      <4>2. z \in Client
        BY <2>1, <4>1, NotifySound DEF Sound
      <4>3. Goes(z, d)
        BY <2>1, <4>1, NotifyDisconnectGoes
      <4> HIDE DEF z
      <4> QED
        BY <2>1, <4>2, <4>3, GoesTransitive
    <3>2. ~Connected(z)
      BY <2>6, <3>1 DEF Goes, Connected
    <3> HIDE DEF z
    <3> QED
      BY <1>3, <2>6, <3>1, <3>2
  <2>7. CASE Handled(h, k, "none")
    <3>1. k \in Client /\ Goes(k, c)
      BY <2>1, CloseConnectedSound, ClearedGoes, GoesTransitive DEF Sound
    <3>2. k.state = "DISCONNECTING"
      BY <2>1 DEF CloseConnected, QueueOut, ClearQueues, Client
    <3> HIDE DEF k
    <3> QED
      BY <1>3, <2>7, <3>1, <3>2 DEF Connected
  <2> QED
    BY <1>1, <2>1, <2>2, <2>3, <2>4, <2>5, <2>6, <2>7, HandledTold, DiscardedTold
<1>7. CASE HandleDisconnect(h)
  <2> DEFINE q == ClearQueues(c)
             z == [q EXCEPT !.state = "ZOMBIE"]
             w == [q EXCEPT !.state = "ACKNOWLEDGING_DISCONNECT"]
  <2>1. Handled(h, Blank, "none") \/ Handled(h, z, "none") \/ Handled(h, w, "none")
    BY <1>7 DEF HandleDisconnect, Connected
  <2>2. Goes(z, c) /\ Goes(w, c) /\ Goes(Blank, c)
    BY <1>1, ClearedGoes, BlankGoes, Zenon
  <2>3. q \in Client /\ Blank \in Client /\ ~Connected(Blank)
    BY <1>1, ClearQueuesEmpties, BlankSound DEF Sound, Connected, Blank
  <2> HIDE DEF q
  <2>4. z \in Client /\ w \in Client /\ ~Connected(z) /\ ~Connected(w)
    BY <2>3 DEF Client, States, Connected
  <2> HIDE DEF z, w
  <2> QED
    BY <1>3, <2>1, <2>2, <2>3, <2>4
<1>8. CASE HandlePing(h)
  BY <1>1, <1>2, <1>8, HandledTold DEF HandlePing
<1>9. CASE HandleConfigureThrottle(h)
  <2> DEFINE d == [c EXCEPT !.throttle = m.arg]
  <2>1. Handled(h, d, "none") /\ m.arg \in Nat
    BY <1>1, <1>9, HeadTyped DEF HandleConfigureThrottle, Message, IInv
  <2>2. /\ Goes(d, c) /\ d \in Client
        /\ d.state = c.state /\ d.inRel = c.inRel /\ d.inQ = c.inQ /\ d.open = c.open
    BY <1>1, <2>1, WithThrottleGoes DEF Client
  <2> HIDE DEF d
  <2>3. Ready(d) /\ Announces(h, d, "none")
    BY <1>1, <2>2, ContinuesReady, StillAnnounces DEF Goes
  <2> QED
    BY <1>1, <2>1, <2>2, <2>3, HandledTold
<1>10. CASE HandleReliableData(h)
  <2> DEFINE d == [c EXCEPT !.inQ = @ \union {m.seq}]
  <2>1. m \in Message
    BY <1>1, HeadTyped
  <2>2. m.type = "RELIABLE_DATA"
    BY <1>10 DEF HandleReliableData, Handling
  <2>3. CASE c.state = "CONNECTED" /\ Discarded(h, d)
    <3>1. /\ d.state = c.state /\ d.sent = c.sent /\ d.outR = c.outR
          /\ d.inRel = c.inRel /\ d.inQ = c.inQ \union {m.seq} /\ d.open = c.open
      BY <1>1 DEF Client
    <3> HIDE DEF d
    <3>2. Ready(d)
      BY <1>1, <2>3, <3>1 DEF Ready, Pending
    <3>3. Announces(h, d, "none")
      <4> SUFFICES ASSUME ~told[h]
                   PROVE  /\ d.state = "CONNECTED" /\ d.open /\ d.inRel = 0 /\ ev[h] = "CONNECT"
                          /\ NewData(Rest(r).msgs, d.inQ)
        BY DEF Announces
      <4>1. Fresh(h)
        BY <2>3 DEF TInv, ToldInv, Connected
      <4>2. NewData(Rest(r).msgs, c.inQ \union {m.seq})
        BY <1>1, <2>2, <4>1, RestData DEF Fresh
      <4> QED
        BY <3>1, <4>1, <4>2 DEF Fresh
    <3> QED
      BY <1>1, <2>3, <3>2, <3>3, DiscardedTold
  <2>4. CASE /\ ~(c.open /\ c.state = "CONNECTED" /\ m.seq > c.inRel /\ m.seq \notin c.inQ)
             /\ Failed(h, c)
    <3>1. ~Fresh(h)
      <4> SUFFICES ASSUME Fresh(h) PROVE FALSE
        OBVIOUS
      <4>1. m.seq > 0 /\ m.seq \notin c.inQ
        BY <1>1, <2>2, RestData DEF Fresh
      <4> QED
        BY <2>4, <4>1 DEF Fresh
    <3>2. Connected(c) => told[h]
      BY <3>1 DEF TInv, ToldInv
    <3>3. /\ \A k \in Hosts \ {h} :
               rx'[k] = rx[k] /\ at'[k] = at[k] /\ ev'[k] = ev[k] /\ told'[k] = told[k]
          /\ rx'[h].msgs = <<>>
      BY <2>4 DEF Failed, Return, IInv, TypeOK, NoDatagram
    <3>4. client' = [client EXCEPT ![h] = c] /\ UNCHANGED net
      BY <2>4 DEF Failed
    <3>5. told'[h] = (c.state # "DISCONNECTED" /\ (told[h] \/ "error" = "CONNECT"))
      <4>1. Return(h, "error") /\ client'[h] = c
        BY <2>4, <3>4 DEF Failed, IInv, TypeOK
      <4> QED
        BY <4>1 DEF Return, IInv, TypeOK
    <3>6. Connected(c) => (told[h] \/ Fresh(h))'
      BY <3>2, <3>5 DEF Connected
    <3>7. NewData(rx'[h].msgs, {}) /\ NetData(net')
      BY <1>1, <3>3, <3>4, NothingNew
    <3> HIDE DEF c
    <3> QED
      BY <1>1, <3>3, <3>4, <3>6, <3>7, ToldStep
  <2> QED
    BY <1>10, <2>3, <2>4 DEF HandleReliableData
<1> QED
  BY <1>4, <1>5, <1>6, <1>7, <1>8, <1>9, <1>10 DEF Handle

\* CONNECT is reported to the application before anything else of a client: a
\* client is connected, outside poll(), only if the application was told so, also
\* when a datagram did more than connect it and whatever followed in the same
\* poll.
THEOREM ConnectionsAreTold == Spec => []ConnectedIsTold
<1>1. Init => TInv
  <2> SUFFICES ASSUME Init PROVE TInv
    OBVIOUS
  <2>0. NetData(net)
    BY DEF Init, NetData
  <2> SUFFICES \A h \in Hosts : ToldInv(h)
    BY <2>0 DEF TInv, NetData
  <2> TAKE h \in Hosts
  <2>1. client[h] = Blank /\ rx[h].msgs = <<>>
    BY DEF Init, NoDatagram
  <2>2. /\ Blank.state = "DISCONNECTED" /\ Untouched(Blank)
        /\ Blank.sent = {} /\ Blank.outR = <<>>
    BY DEF Blank, Untouched
  <2>3. Ready(Blank) /\ ~Connected(Blank)
    BY <2>2, RangeEmpty DEF Ready, Pending, Connected
  <2> QED
    BY <2>1, <2>3, NothingNew DEF ToldInv, Init
<1>2. IInv /\ TInv /\ [Next]_vars => TInv'
  <2> SUFFICES ASSUME IInv, TInv, [Next]_vars PROVE TInv'
    OBVIOUS
  <2>1. CASE UNCHANGED vars
    BY <2>1 DEF vars, TInv, ToldInv, Fresh
  <2>2. ASSUME NEW h \in Hosts, Application(h) \/ Poll(h) PROVE TInv'
    BY <2>2, CallsTold, PollsTold, HandlersTold DEF Poll
  <2> QED
    BY <2>1, <2>2 DEF Next
<1>3. TInv => ConnectedIsTold
  BY DEF TInv, ToldInv, Fresh, ConnectedIsTold
<1> QED
  BY <1>1, <1>2, <1>3, Soundness, PTL DEF Spec
=============================================================================
