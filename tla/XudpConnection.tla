--------------------------- MODULE XudpConnection ---------------------------
(***************************************************************************)
(* The connection protocol of gekkota_xudp.c and gekkota_xudpclient.c:     *)
(* handshake, reliable messages, acknowledgements, time-outs, the three    *)
(* ways of closing, and the events gekkota_xudp_poll() returns.            *)
(*                                                                         *)
(* Every host is one GekkotaXudp with ONE client slot (maxClient = 1),     *)
(* served by one thread that calls the library; a call is cut into the     *)
(* steps between which a datagram may arrive.  The network is a set of     *)
(* datagrams that only grows: a datagram may be delivered late, never, in  *)
(* any order and any number of times.                                      *)
(*                                                                         *)
(* Abstracted: payloads, RTT and window arithmetic, compression (other     *)
(* modules of the project); the three parameters of the packet throttle    *)
(* are one number, 0 for the defaults.  PING stands for PING and           *)
(* CONFIGURE_BANDWIDTH, whose handlers change nothing modelled here.       *)
(* Unreliable data, fragments and multicast are not in this module.        *)
(***************************************************************************)
EXTENDS Naturals, FiniteSets, Sequences, Functions

CONSTANTS
    Hosts,       \* the machines
    Nobody,      \* a NULL remoteEndPoint
    Sessions,    \* Sessions[h]: what rand() returns to h, call after call
    MaxControl,  \* bound: control messages one incarnation of a client queues
    MaxData,     \* bound: data messages one incarnation of a client queues
    MaxAcks,     \* bound: acknowledgements a client holds
    MaxNet,      \* bound: datagrams the network keeps
    Configurations, \* what an application may set the packet throttle to
    Sinks,       \* does poll() get an event pointer?  subset of BOOLEAN
    Uses         \* Uses[h]: the calls, besides connect and poll, h makes

ASSUME HostsAssumption == Nobody \notin Hosts
ASSUME SessionsAssumption == Sessions \in [Hosts -> Seq(Nat)]
ASSUME BoundsAssumption ==
    /\ MaxControl \in Nat /\ MaxData \in Nat /\ MaxAcks \in Nat /\ MaxNet \in Nat
    /\ Sinks \subseteq BOOLEAN
ASSUME ConfigurationsAssumption == Configurations \subseteq Nat
ASSUME UsesAssumption ==
    Uses \in [Hosts -> SUBSET {"ping", "throttle", "send", "flush", "graceful", "later",
                             "now", "destroy"}]

VARIABLES
    client,   \* client[h]: the GekkotaXudpClient of h
    reconf,   \* xudp->reconfigureBandwidth
    tmpl,     \* flags and sequenceNumber left in xudp->messages[]
    at,       \* "app": outside poll(), "receive": in _gekkota_xudp_receive
    rx,       \* the datagram under processing, less the messages handled
    ev,       \* *event of the poll under way
    sink,     \* event != NULL in the poll under way
    out,      \* what the last poll() returned
    hung,     \* the receive loop spins for ever (gekkota_xudp.c:2171)
    told,     \* the application was told CONNECT for this incarnation
    net,      \* datagrams sent
    calls,    \* rand() calls made
    log       \* history: the handshake steps taken

vars == <<client, reconf, tmpl, at, rx, ev, sink, out, hung, told, net, calls, log>>

-----------------------------------------------------------------------------
(* Types.                                                                  *)

States == {"DISCONNECTED", "CONNECTING", "ACKNOWLEDGING_CONNECT",
           "CONNECTION_PENDING", "CONNECTION_SUCCEEDED", "CONNECTED",
           "DELAYING_DISCONNECT", "DISCONNECTING",
           "ACKNOWLEDGING_DISCONNECT", "ZOMBIE"}

MessageTypes == {"ACKNOWLEDGE", "CONNECT", "VALIDATE_CONNECT", "DISCONNECT",
                 "PING", "CONFIGURE_THROTTLE", "RELIABLE_DATA"}

Channels == {"control", "data"}      \* channelId 0xFF, and a channel of the client
Flags == {"none", "ack", "unseq"}    \* GEKKOTA_XUDP_MESSAGE_FLAG_*

\* The messages that carry the throttle configuration of the client.
Configuring == {"CONNECT", "VALIDATE_CONNECT", "CONFIGURE_THROTTLE"}

\* arg is acknowledge.sequenceNumber, the throttle configuration, or 0.
Message == [type : MessageTypes, chan : Channels, flag : Flags, seq : Nat, arg : Nat]

\* bound: clientId # 0xFFFF; timed: the header carries sentTime.
Datagram == [src : Hosts \union {Nobody}, dst : Hosts \union {Nobody}, bound : BOOLEAN,
             session : Nat, timed : BOOLEAN, msgs : Seq(Message)]

Ack == [type : MessageTypes, chan : Channels, seq : Nat]
Header == [flag : Flags, seq : Nat]

Client == [state : States, session : Nat, peer : Hosts \union {Nobody},
           bound : BOOLEAN,      \* remoteClientId # 0xFFFF
           throttle : Nat,       \* packetThrottleInterval, -Acceleration, -Deceleration
           open : BOOLEAN,       \* channels # NULL
           acks : Seq(Ack),      \* acknowledgements
           sent : SUBSET Message,\* sentReliableMessages
           outR : Seq(Message),  \* outgoingReliableMessages
           ctlSeq : Nat,         \* outgoingReliableSequenceNumber
           relSeq : Nat,         \* ... of the data channel
           inRel : Nat,          \* incomingReliableSequenceNumber of the channel
           inQ : SUBSET Nat]     \* incomingReliableMessages of the channel

Events == {"CONNECT", "DISCONNECT", "RECEIVE"}
Results == Events \union {"idle", "error", "silent"}   \* "silent": 1 and no event

HandshakeStep == [phase : {"offered", "accepted", "validated", "established"},
                  from : Hosts \union {Nobody}, to : Hosts \union {Nobody}, session : Nat]

-----------------------------------------------------------------------------
(* The client record and its message queues.                               *)

\* A slot after gekkota_xudpclient_destroy: queues cleared, fields zeroed,
\* then _gekkota_xudpclient_reset.
Blank == [state |-> "DISCONNECTED", session |-> 0, peer |-> Nobody, bound |-> FALSE,
          throttle |-> 0, open |-> FALSE, acks |-> <<>>, sent |-> {}, outR |-> <<>>,
          ctlSeq |-> 0, relSeq |-> 0, inRel |-> 0, inQ |-> {}]

\* _gekkota_xudpclient_clear_message_queues also frees the channels.
ClearQueues(c) ==
    [c EXCEPT !.acks = <<>>, !.sent = {}, !.outR = <<>>, !.inQ = {},
              !.open = FALSE, !.relSeq = 0, !.inRel = 0]

\* Mutant: the number is taken before the counter is initialized to 0.
NumberedTooEarly(c, type, chan) ==
    [type |-> type, chan |-> chan, flag |-> "ack",
     arg |-> IF type \in Configuring THEN c.throttle ELSE 0,
     seq |-> IF chan = "control" THEN c.ctlSeq - 1 ELSE c.relSeq - 1]

Numbered(c, type, chan) ==
    [type |-> type, chan |-> chan, flag |-> "ack",
     arg |-> IF type \in Configuring THEN c.throttle ELSE 0,
     seq |-> IF chan = "control" THEN c.ctlSeq + 1 ELSE c.relSeq + 1]

\* Mutant: the control channel's counter is not advanced.
QueueOutSameNumber(c, type, chan) ==
    [c EXCEPT !.outR = Append(@, Numbered(c, type, chan)),
              !.relSeq = IF chan = "data" THEN @ + 1 ELSE @]

\* _gekkota_xudpclient_queue_outgoing_message, flag ACKNOWLEDGE.
QueueOut(c, type, chan) ==
    [c EXCEPT !.outR = Append(@, Numbered(c, type, chan)),
              !.ctlSeq = IF chan = "control" THEN @ + 1 ELSE @,
              !.relSeq = IF chan = "data" THEN @ + 1 ELSE @]

\* _gekkota_xudpclient_close_gracefully of a connected client.
CloseConnected(c) ==
    [QueueOut(ClearQueues(c), "DISCONNECT", "control") EXCEPT !.state = "DISCONNECTING"]

Connected(c) == c.state \in {"CONNECTED", "DELAYING_DISCONNECT"}

Drained(c) == c.outR = <<>> /\ c.sent = {}

\* The acknowledgement of m is queued.  The node is not zeroed when it is
\* allocated and gekkota_list_insert refuses one whose links are not NULL: the
\* acknowledgement may also be dropped, and nobody looks at the result.
QueueAck(c, m) ==
    {c, [c EXCEPT !.acks = Append(@, [type |-> m.type, chan |-> m.chan, seq |-> m.seq])]}

\* _gekkota_xudp_acknowledge.
Acknowledge(c, m, d) ==
    IF \/ m.flag # "ack"
       \/ ~d.timed
       \/ c.state \in {"DISCONNECTING", "ACKNOWLEDGING_CONNECT"}
       \/ c.state = "ACKNOWLEDGING_DISCONNECT" /\ m.type # "DISCONNECT"
    THEN {c}
    ELSE QueueAck(c, m)

\* _gekkota_xudp_dispose_acknowledged_message, and its messageType result.
Disposed(c, seq, chan) == {m \in c.sent : m.seq = seq /\ m.chan = chan}

\* Mutant: all messages of the channel are taken for acknowledged.
DisposeChannel(c, seq, chan) ==
    [c EXCEPT !.sent = IF Disposed(c, seq, chan) = {} THEN @ ELSE {m \in @ : m.chan # chan}]

Dispose(c, seq, chan) == [c EXCEPT !.sent = @ \ Disposed(c, seq, chan)]

-----------------------------------------------------------------------------
(* Sending.                                                                *)

\* Messages whose round trip time-out has expired go back to the head of
\* outgoingReliableMessages and leave with the same datagram.  Which ones have
\* expired, and in what order, is the clock's choice.
Resends(c) ==
    UNION {Injection(1..n, c.sent) : n \in 0..Cardinality(c.sent)}

\* _gekkota_xudp_send_acknowledgements fills in type, channel, and body; flags
\* and sequenceNumber stay those of the message that used messages[i] before.
AckMessages(c, t) ==
    [i \in DOMAIN c.acks |->
        [type |-> "ACKNOWLEDGE", chan |-> c.acks[i].chan, arg |-> c.acks[i].seq,
         flag |-> IF i \in DOMAIN t THEN t[i].flag ELSE "none",
         seq |-> IF i \in DOMAIN t THEN t[i].seq ELSE 0]]

Overwrite(t, msgs) ==
    [i \in 1..(IF Len(t) < Len(msgs) THEN Len(msgs) ELSE Len(t)) |->
        IF i \in DOMAIN msgs THEN [flag |-> msgs[i].flag, seq |-> msgs[i].seq] ELSE t[i]]

AcksSent(c) ==
    [c EXCEPT !.acks = <<>>,
              !.state = IF \E i \in DOMAIN c.acks : c.acks[i].type = "DISCONNECT"
                        THEN "ZOMBIE" ELSE @]

\* The client after one datagram took all its acknowledgements and messages.
Sent(c) ==
    [AcksSent(c) EXCEPT !.outR = <<>>, !.sent = @ \union Range(c.outR)]

DatagramOf(h, c, timed, msgs) ==
    [src |-> h, dst |-> c.peer, bound |-> c.bound, session |-> c.session,
     timed |-> timed, msgs |-> msgs]

\* A datagram that does not fit the bound is lost.
Put(d) == IF Cardinality(net \union {d}) <= MaxNet THEN net \union {d} ELSE net

\* _gekkota_xudp_send for a client whose expired messages are r: what goes out.
\* The client is skipped while DISCONNECTED or ZOMBIE.  A client holds fewer
\* than GEKKOTA_XUDP_MAX_MESSAGES messages here: one datagram takes them all.
Silent(c) == c.state \in {"DISCONNECTED", "ZOMBIE"}

Transmit(h, c, r) ==
    LET msgs == AckMessages(c, tmpl[h]) \o r \o c.outR
    IN  IF Silent(c) \/ msgs = <<>>
        THEN UNCHANGED <<tmpl, net>>
        ELSE /\ tmpl' = [tmpl EXCEPT ![h] = Overwrite(@, msgs)]
             /\ net' = Put(DatagramOf(h, c, r \o c.outR # <<>>, msgs))

AfterSend(c) == IF Silent(c) THEN c ELSE Sent(c)

-----------------------------------------------------------------------------
(* Events and the result of a poll.                                        *)

NoDatagram == [src |-> Nobody, dst |-> Nobody, bound |-> FALSE, session |-> 0,
               timed |-> FALSE, msgs |-> <<>>]

\* _gekkota_xudp_dispatch with one client: the event it makes, and the client.
DispatchEvent(c) ==
    CASE c.state \in {"CONNECTION_PENDING", "CONNECTION_SUCCEEDED"} -> "CONNECT"
      [] c.state = "ZOMBIE" -> "DISCONNECT"
      [] c.state = "CONNECTED" /\ c.inRel + 1 \in c.inQ -> "RECEIVE"
      [] OTHER -> "none"

Dispatched(c) ==
    CASE c.state \in {"CONNECTION_PENDING", "CONNECTION_SUCCEEDED"} ->
             [c EXCEPT !.state = "CONNECTED"]
      [] c.state = "ZOMBIE" -> Blank
      [] c.state = "CONNECTED" /\ c.inRel + 1 \in c.inQ ->
             [c EXCEPT !.inRel = @ + 1, !.inQ = @ \ {c.inRel + 1}]
      [] OTHER -> c

\* poll() of h returns with result o and leaves the client as c.
Return(h, o) ==
    /\ at' = [at EXCEPT ![h] = "app"]
    /\ rx' = [rx EXCEPT ![h] = NoDatagram]
    /\ ev' = [ev EXCEPT ![h] = "none"]
    /\ sink' = [sink EXCEPT ![h] = FALSE]
    /\ out' = [out EXCEPT ![h] = o]
    /\ told' = [told EXCEPT ![h] =
                  client'[h].state # "DISCONNECTED" /\ (@ \/ o = "CONNECT")]

\* Mutant: a client is up without an event pointer to tell it.
NotifyConnectUntold(c, s) == [c EXCEPT !.state = "CONNECTED"]

\* _gekkota_xudp_notify_connect.
NotifyConnect(c, s) ==
    [c EXCEPT !.state = IF s THEN "CONNECTED"
                        ELSE IF @ = "CONNECTING" THEN "CONNECTION_SUCCEEDED"
                        ELSE "CONNECTION_PENDING"]

\* _gekkota_xudp_notify_disconnect: silent below CONNECTION_SUCCEEDED, unless
\* the client is CONNECTING.
Unannounced(c) == c.state \in {"DISCONNECTED", "ACKNOWLEDGING_CONNECT", "CONNECTION_PENDING"}

\* Mutant: the event is made and the client stays.
NotifyDisconnectKeeps(c, s) == IF Unannounced(c) \/ s THEN c ELSE [c EXCEPT !.state = "ZOMBIE"]

NotifyDisconnect(c, s) ==
    IF Unannounced(c) \/ s THEN Blank ELSE [c EXCEPT !.state = "ZOMBIE"]

NotifyReconf(c) == c.state \notin {"DISCONNECTED", "CONNECTING", "ACKNOWLEDGING_CONNECT"}

\* From here to the end of the module: c is the client of the host h.
-----------------------------------------------------------------------------
(* Calls of the application, outside poll().                               *)

Idle(h) == at[h] = "app" /\ ~hung[h]
Calls(h, call) == Idle(h) /\ call \in Uses[h]

\* The client of h becomes c, and nothing is returned.
Become(h, c) ==
    /\ client' = [client EXCEPT ![h] = c]
    /\ told' = [told EXCEPT ![h] = @ /\ c.state # "DISCONNECTED"]
    /\ UNCHANGED <<at, rx, ev, sink, out, hung>>

\* gekkota_xudp_connect_3.
Connect(h) ==
    /\ Idle(h)
    /\ client[h].state = "DISCONNECTED"
    /\ calls[h] < Len(Sessions[h])
    /\ \E p \in Hosts \ {h} :
         LET s == Sessions[h][calls[h] + 1]
             c == [client[h] EXCEPT !.state = "CONNECTING", !.peer = p,
                                    !.open = TRUE, !.session = s]
         IN  /\ Become(h, QueueOut(c, "CONNECT", "control"))
             /\ log' = log \union {[phase |-> "offered", from |-> h, to |-> p, session |-> s]}
    /\ calls' = [calls EXCEPT ![h] = @ + 1]
    /\ UNCHANGED <<reconf, tmpl, net>>

\* gekkota_xudpclient_ping.
Ping(h) ==
    /\ Calls(h, "ping")
    /\ client[h].state = "CONNECTED"
    /\ client[h].ctlSeq < MaxControl
    /\ Become(h, QueueOut(client[h], "PING", "control"))
    /\ UNCHANGED <<reconf, tmpl, net, calls, log>>

\* gekkota_xudpclient_set_throttle_configuration, of a client in any state it may
\* be in from connect to its end.
SetThrottle(h) ==
    /\ Calls(h, "throttle")
    /\ client[h].state # "DISCONNECTED"
    /\ client[h].ctlSeq < MaxControl
    /\ \E v \in Configurations :
         Become(h, QueueOut([client[h] EXCEPT !.throttle = v], "CONFIGURE_THROTTLE", "control"))
    /\ UNCHANGED <<reconf, tmpl, net, calls, log>>

\* gekkota_xudpclient_send of a reliable packet that fits the mtu.
SendData(h) ==
    /\ Calls(h, "send")
    /\ client[h].state = "CONNECTED"
    /\ client[h].open
    /\ client[h].relSeq < MaxData
    /\ Become(h, QueueOut(client[h], "RELIABLE_DATA", "data"))
    /\ UNCHANGED <<reconf, tmpl, net, calls, log>>

\* gekkota_xudp_flush.
Flush(h) ==
    /\ Calls(h, "flush")
    /\ Transmit(h, client[h], <<>>)
    /\ Become(h, AfterSend(client[h]))
    /\ UNCHANGED <<reconf, calls, log>>

\* The unsequenced DISCONNECT that close_gracefully and close_now flush once
\* the queues are cleared, before they destroy the client.
Farewell(h) ==
    LET c == client[h]
        msgs == <<[type |-> "DISCONNECT", chan |-> "control", flag |-> "unseq",
                   seq |-> c.ctlSeq + 1, arg |-> 0]>>
    IN  /\ tmpl' = [tmpl EXCEPT ![h] = Overwrite(@, msgs)]
        /\ net' = Put(DatagramOf(h, c, FALSE, msgs))

\* _gekkota_xudpclient_close_gracefully.  The peer of a client that is not
\* connected hears of it or not: flush() and destroy() are operands of a macro
\* that compares them, and C does not say which of the two it evaluates first.
Close(h) ==
    /\ client[h].state \notin {"DISCONNECTING", "DISCONNECTED", "ZOMBIE"}
    /\ \/ /\ Connected(client[h])
          /\ Become(h, CloseConnected(client[h]))
          /\ UNCHANGED <<tmpl, net>>
       \/ /\ ~Connected(client[h])
          /\ Become(h, Blank)
          /\ Farewell(h) \/ UNCHANGED <<tmpl, net>>
    /\ UNCHANGED <<reconf, calls, log>>

CloseGracefully(h) == Calls(h, "graceful") /\ Close(h)

\* _gekkota_xudpclient_close_later.
CloseLater(h) ==
    /\ Calls(h, "later")
    /\ IF Connected(client[h]) /\ ~Drained(client[h])
       THEN /\ Become(h, [client[h] EXCEPT !.state = "DELAYING_DISCONNECT"])
            /\ UNCHANGED <<reconf, tmpl, net, calls, log>>
       ELSE Close(h)

\* _gekkota_xudpclient_close_now.
CloseNow(h) ==
    /\ Calls(h, "now")
    /\ client[h].state # "DISCONNECTED"
    /\ IF client[h].state \in {"ZOMBIE", "DISCONNECTING"}
       THEN UNCHANGED <<tmpl, net>>
       ELSE Farewell(h)
    /\ Become(h, Blank)
    /\ UNCHANGED <<reconf, calls, log>>

\* gekkota_xudpclient_destroy, called by the application or by
\* gekkota_xudp_destroy: the peer is told nothing.
DestroyClient(h) ==
    /\ Calls(h, "destroy")
    /\ client[h].state # "DISCONNECTED"
    /\ Become(h, Blank)
    /\ UNCHANGED <<reconf, tmpl, net, calls, log>>

-----------------------------------------------------------------------------
(* gekkota_xudp_poll, up to the receive loop and after it.                 *)

\* The poll returns an event that was ready before it sent anything.
PollDispatch(h) ==
    /\ Idle(h)
    /\ TRUE \in Sinks
    /\ DispatchEvent(client[h]) # "none"
    /\ client' = [client EXCEPT ![h] = Dispatched(@)]
    /\ reconf' = [reconf EXCEPT ![h] = @ \/ client[h].state = "ZOMBIE"]
    /\ Return(h, DispatchEvent(client[h]))
    /\ UNCHANGED <<tmpl, hung, net, calls, log>>

\* _gekkota_xudp_throttle_bandwidth, when its interval has elapsed: <<client,
\* reconfigureBandwidth>> afterwards.
Throttled(h) ==
    LET c == client[h]
    IN  {<<c, reconf[h]>>} \union
        IF reconf[h] /\ Connected(c) /\ c.ctlSeq < MaxControl
        THEN {<<QueueOut(c, "PING", "control"), FALSE>>} ELSE {}

PollStarts(h, s) == Idle(h) /\ (s => DispatchEvent(client[h]) = "none")

\* Bandwidth throttling, then the first _gekkota_xudp_send of the poll.
PollSend(h) ==
    \E s \in Sinks, t \in Throttled(h) :
        /\ PollStarts(h, s)
        /\ \E r \in Resends(t[1]) : Transmit(h, t[1], r)
        /\ client' = [client EXCEPT ![h] = AfterSend(t[1])]
        /\ reconf' = [reconf EXCEPT ![h] = t[2]]
        /\ at' = [at EXCEPT ![h] = "receive"]
        /\ sink' = [sink EXCEPT ![h] = s]
        /\ out' = [out EXCEPT ![h] = "idle"]
        /\ UNCHANGED <<rx, ev, hung, told, calls, log>>

\* A message was resent too often or for too long: the first send gives the
\* peer up (_gekkota_xudp_check_for_timeouts) and the poll returns at once.  The
\* acknowledgements are gone, and the datagram that held them is never sent.
PollGivesUp(h) ==
    \E s \in Sinks, t \in Throttled(h) :
        LET c == AcksSent(t[1])
        IN  /\ PollStarts(h, s)
            /\ ~Silent(t[1])
            /\ c.sent # {}
            /\ client' = [client EXCEPT ![h] = NotifyDisconnect(c, s)]
            /\ reconf' = [reconf EXCEPT ![h] = t[2] \/ NotifyReconf(c)]
            /\ Return(h, IF ~s THEN "idle"
                         ELSE IF Unannounced(c) THEN "silent" ELSE "DISCONNECT")
            /\ UNCHANGED <<tmpl, hung, net, calls, log>>

\* The socket is empty: the second send, the second dispatch, and the return.
\* (xudp->currentTime has not moved since the first send: nothing expires.)
PollEnd(h) ==
    LET c == AfterSend(client[h])
        e == IF sink[h] THEN DispatchEvent(c) ELSE "none"
    IN  /\ at[h] = "receive" /\ ~hung[h]
        /\ rx[h].msgs = <<>>
        /\ Transmit(h, client[h], <<>>)
        /\ client' = [client EXCEPT ![h] = IF sink[h] THEN Dispatched(c) ELSE c]
        /\ reconf' = [reconf EXCEPT ![h] = @ \/ (sink[h] /\ c.state = "ZOMBIE")]
        /\ Return(h, IF e = "none" THEN "idle" ELSE e)
        /\ UNCHANGED <<hung, calls, log>>

-----------------------------------------------------------------------------
(* _gekkota_xudp_receive.                                                  *)

\* Mutant: the session id of the datagram is not compared.
UnclaimedAnySession(c, d) ==
    IF d.bound
    THEN c.state \in {"DISCONNECTED", "ZOMBIE"} \/ c.peer # d.src
    ELSE Head(d.msgs).type # "CONNECT"

\* _gekkota_xudp_get_message_handler_args returns 0 on the first message of d,
\* and leaves args.data where it was: before the receive buffer.
Unclaimed(c, d) ==
    IF d.bound
    THEN \/ c.state \in {"DISCONNECTED", "ZOMBIE"}
         \/ c.peer # d.src
         \/ c.session # d.session
    ELSE Head(d.msgs).type # "CONNECT"

\* A datagram is taken from the socket; the loop over its messages starts, or
\* never ends.
Receive(h) ==
    /\ at[h] = "receive" /\ ~hung[h]
    /\ rx[h].msgs = <<>>
    /\ \E d \in net :
         /\ d.dst = h
         /\ Len(client[h].acks) + Len(d.msgs) <= MaxAcks
         /\ IF Unclaimed(client[h], d)
            THEN hung' = [hung EXCEPT ![h] = TRUE] /\ UNCHANGED rx
            ELSE rx' = [rx EXCEPT ![h] = d] /\ UNCHANGED hung
    /\ UNCHANGED <<client, reconf, tmpl, at, ev, sink, out, told, net, calls, log>>

\* The next message is of type t, for a client in c.
Handling(h, t) == ~hung[h] /\ rx[h].msgs # <<>> /\ Head(rx[h].msgs).type = t

\* The three results of a handler that left the client as c and made the event
\* e ("none" if it made none).  -1: poll() fails and the event is destroyed.
Failed(h, c) ==
    /\ client' = [client EXCEPT ![h] = c]
    /\ Return(h, "error")
    /\ UNCHANGED <<tmpl, hung, net, calls>>

\* The datagram without its first message.
Rest(d) == IF Len(d.msgs) = 1 THEN NoDatagram ELSE [d EXCEPT !.msgs = Tail(@)]

\* On to the next message; after the last one, poll() returns if it has an event.
Advance(h, e) ==
    LET v == IF e = "none" THEN ev[h] ELSE e
    IN  /\ IF Len(rx[h].msgs) = 1 /\ v # "none"
           THEN Return(h, v)
           ELSE /\ rx' = [rx EXCEPT ![h] = Rest(@)]
                /\ ev' = [ev EXCEPT ![h] = v]
                /\ told' = [told EXCEPT ![h] = @ /\ client'[h].state # "DISCONNECTED"]
                /\ UNCHANGED <<at, sink, out>>
        /\ UNCHANGED <<tmpl, hung, net, calls>>

\* 0: the message is discarded.
Discarded(h, c) ==
    /\ client' = [client EXCEPT ![h] = c]
    /\ Advance(h, "none")

\* 1: the message is acknowledged if it asks for it.
Handled(h, c, e) ==
    /\ \E a \in Acknowledge(c, Head(rx[h].msgs), rx[h]) :
         client' = [client EXCEPT ![h] = a]
    /\ Advance(h, e)

\* The event a handler makes, if poll() was given a pointer for one.
Announced(h, e) == IF sink[h] THEN e ELSE "none"

\* The client of an unbound datagram is the one its CONNECT found; after a CONNECT
\* that is discarded there is none, and get_message_handler_args never gets past
\* a message of any other type (gekkota_xudp.c:1304).
Orphaned(d) == ~d.bound /\ Len(d.msgs) > 1 /\ d.msgs[2].type # "CONNECT"

\* _gekkota_xudp_on_connect_message: discarded if the session is known already
\* no client is free, which for one client is the same test.
HandleConnect(h) ==
    LET c == client[h]
        d == rx[h]
    IN  /\ Handling(h, "CONNECT")
        /\ CASE c.state = "DISCONNECTED" ->
                  /\ Handled(h, QueueOut([c EXCEPT !.state = "ACKNOWLEDGING_CONNECT",
                                                   !.peer = d.src, !.bound = TRUE,
                                                   !.open = TRUE, !.session = d.session,
                                                   !.throttle = Head(d.msgs).arg],
                                         "VALIDATE_CONNECT", "control"), "none")
                  /\ log' = log \union {[phase |-> "accepted", from |-> d.src, to |-> h,
                                         session |-> d.session]}
             [] c.state # "DISCONNECTED" /\ ~Orphaned(d) ->
                  Discarded(h, c) /\ UNCHANGED log
             [] c.state # "DISCONNECTED" /\ Orphaned(d) ->
                  /\ hung' = [hung EXCEPT ![h] = TRUE]
                  /\ rx' = [rx EXCEPT ![h] = Rest(@)]
                  /\ UNCHANGED <<client, tmpl, at, ev, sink, out, told, net, calls, log>>
        /\ UNCHANGED reconf

\* _gekkota_xudp_on_validate_connect_message.  Of the parameters it compares, only
\* those of the throttle can have changed since they went out with CONNECT.
HandleValidateConnect(h) ==
    LET c == client[h]
    IN  /\ Handling(h, "VALIDATE_CONNECT")
        /\ IF c.state # "CONNECTING"
           THEN Discarded(h, c) /\ UNCHANGED <<reconf, log>>
           ELSE IF Head(rx[h].msgs).arg # c.throttle
           THEN Discarded(h, [c EXCEPT !.state = "ZOMBIE"]) /\ UNCHANGED <<reconf, log>>
           ELSE /\ Handled(h, NotifyConnect([Dispose(c, 1, "control") EXCEPT !.bound = TRUE],
                                            sink[h]), Announced(h, "CONNECT"))
                /\ reconf' = [reconf EXCEPT ![h] = TRUE]
                /\ log' = log \union {[phase |-> "validated", from |-> h, to |-> c.peer,
                                       session |-> c.session]}

\* _gekkota_xudp_on_acknowledge_message.
HandleAcknowledge(h) ==
    LET c == client[h]
        m == Head(rx[h].msgs)
        d == Dispose(c, m.arg, m.chan)
        Acknowledges(t) == \E a \in Disposed(c, m.arg, m.chan) : a.type = t
    IN  /\ Handling(h, "ACKNOWLEDGE")
        /\ CASE c.state = "ACKNOWLEDGING_CONNECT" ->
                  IF Acknowledges("VALIDATE_CONNECT")
                  THEN /\ Handled(h, NotifyConnect(d, sink[h]), Announced(h, "CONNECT"))
                       /\ reconf' = [reconf EXCEPT ![h] = TRUE]
                       /\ log' = log \union {[phase |-> "established", from |-> c.peer,
                                              to |-> h, session |-> c.session]}
                  ELSE Discarded(h, d) /\ UNCHANGED <<reconf, log>>
             [] c.state = "DISCONNECTING" ->
                  /\ IF Acknowledges("DISCONNECT")
                     THEN /\ Handled(h, NotifyDisconnect(d, sink[h]),
                                     Announced(h, "DISCONNECT"))
                          /\ reconf' = [reconf EXCEPT ![h] = TRUE]
                     ELSE Discarded(h, d) /\ UNCHANGED reconf
                  /\ UNCHANGED log
             [] c.state = "DELAYING_DISCONNECT" /\ Drained(d) ->
                  Handled(h, CloseConnected(d), "none") /\ UNCHANGED <<reconf, log>>
             [] OTHER ->
                  Handled(h, d, "none") /\ UNCHANGED <<reconf, log>>

\* _gekkota_xudp_on_disconnect_message.
HandleDisconnect(h) ==
    LET c == client[h]
        m == Head(rx[h].msgs)
        d == CASE c.state = "CONNECTION_SUCCEEDED" ->
                    [ClearQueues(c) EXCEPT !.state = "ZOMBIE"]
               [] ~Connected(c) /\ c.state # "CONNECTION_SUCCEEDED" -> Blank
               [] Connected(c) ->
                    [ClearQueues(c) EXCEPT !.state = IF m.flag = "ack"
                                                     THEN "ACKNOWLEDGING_DISCONNECT"
                                                     ELSE "ZOMBIE"]
    IN  /\ Handling(h, "DISCONNECT")
        /\ Handled(h, d, "none")
        /\ reconf' = [reconf EXCEPT ![h] = @ \/ c.state = "CONNECTION_PENDING"]
        /\ UNCHANGED log

\* _gekkota_xudp_on_ping_message and on_configure_bandwidth.
HandlePing(h) ==
    /\ Handling(h, "PING")
    /\ Handled(h, client[h], "none")
    /\ UNCHANGED <<reconf, log>>

\* _gekkota_xudp_on_configure_throttle_message.
HandleConfigureThrottle(h) ==
    /\ Handling(h, "CONFIGURE_THROTTLE")
    /\ Handled(h, [client[h] EXCEPT !.throttle = Head(rx[h].msgs).arg], "none")
    /\ UNCHANGED <<reconf, log>>

\* _gekkota_xudp_on_reliable_data_message: -1 for a closed channel, a client
\* that is not connected, and whatever _gekkota_xudpclient_queue_incoming_message
\* refuses; and what that returns when it has queued the message is 0.
HandleReliableData(h) ==
    LET c == client[h]
        m == Head(rx[h].msgs)
    IN  /\ Handling(h, "RELIABLE_DATA")
        /\ IF c.open /\ c.state = "CONNECTED" /\ m.seq > c.inRel /\ m.seq \notin c.inQ
           THEN Discarded(h, [c EXCEPT !.inQ = @ \union {m.seq}])
           ELSE Failed(h, c)
        /\ UNCHANGED <<reconf, log>>

-----------------------------------------------------------------------------

Init ==
    /\ client = [h \in Hosts |-> Blank]
    /\ reconf = [h \in Hosts |-> FALSE]
    /\ tmpl = [h \in Hosts |-> <<>>]
    /\ at = [h \in Hosts |-> "app"]
    /\ rx = [h \in Hosts |-> NoDatagram]
    /\ ev = [h \in Hosts |-> "none"]
    /\ sink = [h \in Hosts |-> FALSE]
    /\ out = [h \in Hosts |-> "idle"]
    /\ hung = [h \in Hosts |-> FALSE]
    /\ told = [h \in Hosts |-> FALSE]
    /\ net = {}
    /\ calls = [h \in Hosts |-> 0]
    /\ log = {}

Application(h) ==
    \/ Connect(h) \/ Ping(h) \/ SetThrottle(h) \/ SendData(h) \/ Flush(h)
    \/ CloseGracefully(h) \/ CloseLater(h) \/ CloseNow(h) \/ DestroyClient(h)

Handle(h) ==
    \/ HandleConnect(h) \/ HandleValidateConnect(h) \/ HandleAcknowledge(h)
    \/ HandleDisconnect(h) \/ HandlePing(h) \/ HandleConfigureThrottle(h)
    \/ HandleReliableData(h)

Poll(h) ==
    \/ PollDispatch(h) \/ PollSend(h) \/ PollGivesUp(h)
    \/ Receive(h) \/ Handle(h) \/ PollEnd(h)

Next == \E h \in Hosts : Application(h) \/ Poll(h)

Spec == Init /\ [][Next]_vars

-----------------------------------------------------------------------------
(* Properties.                                                             *)

\* Every variable has its type: in particular, a sequence number is never
\* taken before its counter was set up, and poll() returns nothing else.
TypeOK ==
    /\ client \in [Hosts -> Client]
    /\ reconf \in [Hosts -> BOOLEAN]
    /\ tmpl \in [Hosts -> Seq(Header)]
    /\ at \in [Hosts -> {"app", "receive"}]
    /\ rx \in [Hosts -> Datagram]
    /\ ev \in [Hosts -> Events \union {"none"}]
    /\ sink \in [Hosts -> BOOLEAN]
    /\ out \in [Hosts -> Results]
    /\ hung \in [Hosts -> BOOLEAN]
    /\ told \in [Hosts -> BOOLEAN]
    /\ net \subseteq Datagram
    /\ calls \in [Hosts -> Nat]
    /\ log \subseteq HandshakeStep

Pending(c) == c.sent \union Range(c.outR)

WaitsFor(c, t) == \E m \in Pending(c) : m.type = t

HoldsItsMessage(c) ==
    /\ c.state = "DISCONNECTED" => Pending(c) = {} /\ ~c.open /\ ~c.bound
    /\ c.state = "ACKNOWLEDGING_CONNECT" => WaitsFor(c, "VALIDATE_CONNECT")
    /\ c.state = "DISCONNECTING" => WaitsFor(c, "DISCONNECT")
    /\ c.state = "ACKNOWLEDGING_DISCONNECT" =>
         \A m \in Pending(c) : m.type = "CONFIGURE_THROTTLE"
    /\ c.state = "DELAYING_DISCONNECT" => Pending(c) # {}

\* A client that waits for an acknowledgement still holds, in its queues, the
\* message whose acknowledgement or time-out ends the wait; a delayed close
\* still has something to drain; a client that was told to disconnect sends
\* nothing of the connection any more, and a slot that is free nothing at all.
\* Lost, repeated and late datagrams, time-outs, acknowledgements of other
\* messages and a throttle configured at any time never leave a client waiting
\* for nothing.
WaitsForAnAnswer == \A h \in Hosts : HoldsItsMessage(client[h])

\* The same of a client that waits for VALIDATE_CONNECT, between two datagrams:
\* no acknowledgement takes its CONNECT out and leaves it waiting.  (One that
\* does is in front of VALIDATE_CONNECT in the same datagram.  This rests on
\* FreshIds, below.)
ConnectIsRepeated ==
    \A h \in Hosts : client[h].state = "CONNECTING" /\ rx[h].msgs = <<>> =>
        WaitsFor(client[h], "CONNECT") /\ ~client[h].bound

QueuedOnce(c) == IsInjective(c.outR) /\ Range(c.outR) \intersect c.sent = {}

DistinctNumbers(c) ==
    /\ QueuedOnce(c)
    /\ \A m, n \in Pending(c) : m.chan = n.chan /\ m.seq = n.seq => m = n

\* Two messages of a client that wait for an acknowledgement differ in channel
\* or sequence number, and none is in the queues twice: an acknowledgement names
\* one message, also after queues were cleared and counters restarted.
AcksNameOneMessage == \A h \in Hosts : DistinctNumbers(client[h])

\* A client is connected, outside poll(), only if poll() has told so to the
\* application: CONNECT is reported before any RECEIVE, also when it had to
\* wait for a poll with an event pointer, and when the poll that connected the
\* client went on to fail.
ConnectedIsTold ==
    \A h \in Hosts : Connected(client[h]) /\ at[h] = "app" => told[h]

\* What gekkota_xudp.c:41-43 requires of a handler: it returns 0 for a message it
\* discards.  So a reliable message that is queued for the application is not
\* one of those, and is acknowledged (or its acknowledgement fails) once the
\* receive loop is done with it.
QueuedDataIsAcknowledged ==
    [][\A h \in Hosts :
         client[h].inQ # {} \/ client'[h].inQ = {} \/ client'[h].acks # client[h].acks]_vars

\* "message discarded", gekkota_xudp.c:2179: a datagram that belongs to no client
\* is dropped, and the receive loop goes on.
ReceiveLoopEnds == \A h \in Hosts : ~hung[h]

Phase(p) == {<<s.from, s.to, s.session>> : s \in {x \in log : x.phase = p}}

Abstract == INSTANCE Handshake WITH
    Keys <- Hosts \X Hosts \X UNION {Range(Sessions[h]) : h \in Hosts},
    offered <- Phase("offered"), accepted <- Phase("accepted"),
    validated <- Phase("validated"), established <- Phase("established")

\* The handshake keeps the promise of module Handshake: CONNECT,
\* VALIDATE_CONNECT and its acknowledgement establish a session in that order,
\* at both hosts, although sessions share slots, sequence numbers and network.
\* (This rests on FreshIds, too.)
HandshakeKept == Abstract!Spec

\* Not a property of the code but the hypothesis of two above: no call of connect
\* draws a session id that an earlier call between the same two hosts drew, in
\* whichever direction.  Other pairs of hosts may use the same ids.  rand() gives
\* this as long as one of the two dials and does not restart; two hosts that
\* dial each other, fresh from start, draw the same.
FreshDraw ==
    \A h \in Hosts : calls'[h] # calls[h] =>
        \A o \in log : o.phase = "offered" /\ {o.from, o.to} = {h, client'[h].peer} =>
            o.session # client'[h].session

FreshIds == [][FreshDraw]_vars

-----------------------------------------------------------------------------
(* Liveness.  The application calls poll() in a loop, and a poll ends: the   *)
(* network does not repeat datagrams faster than poll() reads them.  A       *)
(* message nobody acknowledges expires for good, since its time-out doubles  *)
(* up to a limit: as long as a client waits for one, give-up is due.         *)

WaitingStates == {"CONNECTING", "ACKNOWLEDGING_CONNECT", "DISCONNECTING",
                  "DELAYING_DISCONNECT"}

Waiting(h) == client[h].state \in WaitingStates

Fairness ==
    \A h \in Hosts :
        /\ WF_vars(PollDispatch(h) \/ PollSend(h) \/ PollGivesUp(h))
        /\ WF_vars(Handle(h))
        /\ SF_vars(PollEnd(h))
        /\ SF_vars(Waiting(h) /\ PollGivesUp(h))

FairSpec == Spec /\ Fairness

\* No client waits for the peer, or is a zombie, for ever: the answer comes, or
\* the client is given up and its slot is free again, unless the host never
\* returns from its receive loop.
NoWaitIsForEver ==
    \A h \in Hosts :
        (Waiting(h) \/ client[h].state = "ZOMBIE")
            ~> (hung[h] \/ ~(Waiting(h) \/ client[h].state = "ZOMBIE"))
=============================================================================
