------------------------------ MODULE Packets ------------------------------
(* One host: its table of clients, and the packets, LZF instances and        *)
(* multicast groups the clients share.  The application makes packets, sends *)
(* them to one client or to all, receives others in events, and gives up the *)
(* references it was given; the library counts the references of packets and *)
(* of LZF instances.  What the protocol does with a message is the matter of *)
(* XudpConnection, Transmission and Channel: here a message leaves, expires, *)
(* is acknowledged or is cleared in any order, and every one of these steps  *)
(* does to the packets what the code does.                                   *)
EXTENDS Integers, Sequences, FiniteSets, SequencesExt

CONSTANTS MaxClient,     \* slots in the table of clients
          PacketIds,     \* bound: packets alive at a time
          MaxMessages,   \* bound: messages in all queues
          MaxHeld,       \* bound: references the application holds
          Groups,        \* end points of multicast groups
          LocalGroups,   \* those whose port is the port of the socket
          Levels,        \* levels of compression
          GroupLevel,    \* GEKKOTA_COMPRESSION_LEVEL_FAST
          Kinds,         \* bound: the packets the application makes
          Links,         \* bound: what is agreed with a peer
          Mtu,           \* what a message of the host may be long
          Notice,        \* an event without a packet
          None

Slots  == 1 .. MaxClient
LzfIds == Slots

\* Whether a packet is unsequenced makes no difference here.
Flags == {"RELIABLE", "COMPRESSED"}

ASSUME PacketsAssumption ==
  /\ MaxClient \in Nat \ {0} /\ MaxMessages \in Nat /\ MaxHeld \in Nat
  /\ LocalGroups \subseteq Groups /\ GroupLevel \in Levels
  /\ Kinds \subseteq [flags : SUBSET Flags, length : Nat \ {0}, shrinks : BOOLEAN]
  /\ Mtu \in Nat \ {0} /\ Links \subseteq [level : Levels, mtu : 1 .. Mtu]
  /\ IsFiniteSet(PacketIds)
  /\ None \notin Groups \cup Levels \cup Slots \cup PacketIds
  /\ Notice \notin PacketIds \cup {None}

VARIABLES host,    \* what the library keeps: see HostType
          event,   \* the packet of the event the application holds, Notice or None
          held     \* the references the application holds of each packet

vars == <<host, event, held>>

\* A packet: `deflated` says that its data is what deflate made, `shrinks`
\* whether deflating it makes it shorter.  Lengths are coarse: the shorter
\* packet takes as many messages as the longer one.
Packet == [refCount : Nat, flags : SUBSET Flags, length : Nat,
           deflated : BOOLEAN, shrinks : BOOLEAN]
NoPacket == [refCount |-> 0, flags |-> {}, length |-> 0,
             deflated |-> FALSE, shrinks |-> FALSE]

\* A message of an outgoing or sent queue, and one of an incoming queue.
Outgoing == [packet : PacketIds, reliable : BOOLEAN, compressed : BOOLEAN]
Incoming == [packet : PacketIds, fragmentsRemaining : Nat]

\* LEAVING stands for DISCONNECTING, ACKNOWLEDGING_DISCONNECT and ZOMBIE, which
\* XudpConnection tells apart: the slot is taken, and the queues are cleared.
States == {"DISCONNECTED", "CONNECTED", "LEAVING"}

Client == [state : States, group : Groups \cup {None},
           level : Levels \cup {None}, lzf : LzfIds \cup {None},
           mtu : 0 .. Mtu,
           outgoing : Seq(Outgoing), sent : Seq(Outgoing), incoming : Seq(Incoming)]

\* _gekkota_xudpclient_reset, after all of gekkota_xudpclient_destroy.
Reset == [state |-> "DISCONNECTED", group |-> None, level |-> None, lzf |-> None,
          mtu |-> 0, outgoing |-> <<>>, sent |-> <<>>, incoming |-> <<>>]

Instance == [refCount : Nat, level : Levels \cup {None}]
NoInstance == [refCount |-> 0, level |-> None]

HostType == [clients : [Slots -> Client], packets : [PacketIds -> Packet],
             instances : [LzfIds -> Instance],
             joined : SUBSET Groups]   \* groups the socket is a member of

-----------------------------------------------------------------------------
(* Packets and their references.  The operators take a host h and return    *)
(* what it is after the call.                                               *)

FreePackets(h) == {p \in PacketIds : h.packets[p].refCount = 0}

\* The place of the next new packet.
Fresh(h) == CHOOSE p \in FreePackets(h) : TRUE

\* gekkota_packet_new_1.
PacketNew(h, flags, length, deflated, shrinks) ==
  [h EXCEPT !.packets[Fresh(h)] =
     [refCount |-> 1, flags |-> flags, length |-> length,
      deflated |-> deflated, shrinks |-> shrinks]]

\* gekkota_packet_new_0, shallow.
PacketShare(h, p) == [h EXCEPT !.packets[p].refCount = @ + 1]

\* A packet after n calls of gekkota_packet_destroy.
Released(packet, n) ==
  IF packet.refCount = n THEN NoPacket ELSE [packet EXCEPT !.refCount = @ - n]

PacketDestroy(h, p) == [h EXCEPT !.packets[p] = Released(@, 1)]

\* The messages of a queue that hold packet p.
HoldersIn(queue, p) == {k \in DOMAIN queue : queue[k].packet = p}

\* A queue loses its messages, and they give up their packets.
QueueClear(h, s, q) ==
  [h EXCEPT !.clients[s][q] = <<>>,
            !.packets = [p \in PacketIds |->
               Released(@[p], Cardinality(HoldersIn(h.clients[s][q], p)))]]

SetFlags(h, p, flags) == [h EXCEPT !.packets[p].flags = flags]

-----------------------------------------------------------------------------
(* LZF instances: one for each level in use, shared by its clients.         *)

\* The clients whose instance serves the level of client s.
Servers(h, s) == {t \in Slots : /\ h.clients[t].lzf # None
                                /\ h.clients[t].level = h.clients[s].level}

\* The search for a slot or an instance begins with the first of the table.
First(S) == CHOOSE x \in S : \A y \in S : x <= y

FreeInstances(h) == {z \in LzfIds : h.instances[z].refCount = 0}

\* Mutant: an instance that serves another level will do.
WithLzfAny(h, s) ==
  LET servers == {t \in Slots : h.clients[t].lzf # None}
      z == IF servers # {}
             THEN h.clients[First(servers)].lzf
             ELSE First(FreeInstances(h))
  IN IF h.clients[s].lzf # None THEN h
     ELSE [h EXCEPT !.clients[s].lzf = z,
                    !.instances[z] = [refCount |-> @.refCount + 1,
                                      level |-> h.clients[s].level]]

\* _gekkota_xudpclient_get_lzf, at the first use: the instance of the first
\* client with the same level, or a new one.
WithLzf(h, s) ==
  LET servers == Servers(h, s)
      z == IF servers # {}
             THEN h.clients[First(servers)].lzf
             ELSE First(FreeInstances(h))
  IN IF h.clients[s].lzf # None THEN h
     ELSE [h EXCEPT !.clients[s].lzf = z,
                    !.instances[z] = [refCount |-> @.refCount + 1,
                                      level |-> h.clients[s].level]]

\* gekkota_lzf_destroy.
LzfDestroy(h, z) ==
  [h EXCEPT !.instances[z] =
     IF @.refCount = 1 THEN NoInstance
     ELSE [refCount |-> @.refCount - 1, level |-> @.level]]

-----------------------------------------------------------------------------
(* Clients.                                                                 *)

\* The socket is made a member of a group, by gekkota_socket_join_multicast_
\* group_2: setsockopt refuses a second membership, and is taken to grant the
\* first.  A group of another port is left to the sockets of that port.
MayJoin(h, g) == g \in LocalGroups => g \notin h.joined
SocketJoin(h, g) == [h EXCEPT !.joined = @ \cup ({g} \cap LocalGroups)]

\* gekkota_socket_leave_multicast_group_1.
SocketLeave(h, g) == [h EXCEPT !.joined = @ \ {g}]

Connected(h, s) == h.clients[s].state = "CONNECTED"
Free(h, s) == h.clients[s].state = "DISCONNECTED"

\* _gekkota_xudpclient_clear_message_queues.
ClearQueues(h, s) ==
  QueueClear(QueueClear(QueueClear(h, s, "sent"), s, "outgoing"), s, "incoming")

\* Mutant: the group is left in the table only.
ClientDestroyStays(h, s) ==
  LET c  == h.clients[s]
      h1 == IF c.lzf = None THEN h ELSE LzfDestroy(h, c.lzf)
  IN [ClearQueues(h1, s) EXCEPT !.clients[s] = Reset]

\* gekkota_xudpclient_destroy: the group is left, the LZF instance and the
\* queued packets are given up.
ClientDestroy(h, s) ==
  LET c  == h.clients[s]
      h1 == SocketLeave(h, c.group)
      h2 == IF c.lzf = None THEN h1 ELSE LzfDestroy(h1, c.lzf)
  IN [ClearQueues(h2, s) EXCEPT !.clients[s] = Reset]

\* n calls of _gekkota_xudpclient_queue_outgoing_message, for parts of a packet.
QueueOutgoing(h, s, p, compressed, n) ==
  LET m == [packet |-> p, reliable |-> "RELIABLE" \in h.packets[p].flags,
            compressed |-> compressed]
  IN [h EXCEPT !.packets[p].refCount = @ + n,
               !.clients[s].outgoing = @ \o [k \in 1 .. n |-> m]]

\* The messages a packet takes, each as long as the client's mtu but the last.
Fragments(h, s, p) ==
  LET mtu == h.clients[s].mtu IN (h.packets[p].length + mtu - 1) \div mtu

\* The messages of a packet are queued: its fragments, which make the packet
\* reliable, or the packet as it is.  A group takes no fragments: the code
\* leaves, with a result of 0.
QueueMessages(h, s, p, compressed) ==
  IF Fragments(h, s, p) = 1 THEN QueueOutgoing(h, s, p, compressed, 1)
  ELSE IF h.clients[s].group # None THEN h
  ELSE QueueOutgoing(SetFlags(h, p, h.packets[p].flags \cup {"RELIABLE"}),
                     s, p, compressed, Fragments(h, s, p))

\* _gekkota_xudpclient_deflate: another packet with the same flags.  If it is
\* not the shorter one its data is not used, and does not count as deflated.
Deflated(h, s, p) ==
  PacketNew(WithLzf(h, s), h.packets[p].flags, h.packets[p].length,
            h.packets[p].shrinks, FALSE)

\* Mutant: the packet that deflate did not shorten keeps its flag.
SendFlagged(h, s, p) ==
  IF "COMPRESSED" \notin h.packets[p].flags THEN QueueMessages(h, s, p, FALSE)
  ELSE LET d  == Fresh(h)
           h2 == Deflated(h, s, p)
           q  == IF h.packets[p].shrinks THEN d ELSE p
           h3 == IF h.packets[p].shrinks THEN h2 ELSE PacketDestroy(h2, d)
       IN PacketDestroy(QueueMessages(h3, s, q, h.packets[p].shrinks), q)

\* Mutant: the header does not say that the packet was deflated.
SendUnmarked(h, s, p) ==
  IF "COMPRESSED" \notin h.packets[p].flags THEN QueueMessages(h, s, p, FALSE)
  ELSE LET d  == Fresh(h)
           h2 == Deflated(h, s, p)
       IN IF h.packets[p].shrinks
            THEN PacketDestroy(QueueMessages(h2, s, d, FALSE), d)
            ELSE QueueMessages(SetFlags(PacketDestroy(h2, d), p,
                                        h.packets[p].flags \ {"COMPRESSED"}),
                               s, p, FALSE)

\* gekkota_xudpclient_send to a client that takes the packet: it is deflated
\* when it is flagged, and the deflated one is sent and given up if it is
\* shorter.  A packet that is not loses its flag, for good.
Sent(h, s, p) ==
  IF "COMPRESSED" \notin h.packets[p].flags THEN QueueMessages(h, s, p, FALSE)
  ELSE LET d  == Fresh(h)
           h2 == Deflated(h, s, p)
       IN IF h.packets[p].shrinks
            THEN PacketDestroy(QueueMessages(h2, s, d, TRUE), d)
            ELSE QueueMessages(SetFlags(PacketDestroy(h2, d), p,
                                        h.packets[p].flags \ {"COMPRESSED"}),
                               s, p, FALSE)

\* The checks of gekkota_xudpclient_send: groups are not sent reliable packets.
Accepts(h, s, p) ==
  /\ Connected(h, s)
  /\ h.clients[s].group = None \/ "RELIABLE" \notin h.packets[p].flags

\* gekkota_xudp_broadcast: to every connected client in turn, up to the first
\* that refuses the packet.
SentInTurn(r, s, p) ==
  IF r.failed \/ ~Connected(r.host, s) THEN r
  ELSE IF Accepts(r.host, s, p) THEN [r EXCEPT !.host = Sent(@, s, p)]
  ELSE [r EXCEPT !.failed = TRUE]

Broadcasted(h, p) ==
  LET turn[s \in 0 .. MaxClient] ==
        IF s = 0 THEN [host |-> h, failed |-> FALSE] ELSE SentInTurn(turn[s - 1], s, p)
  IN turn[MaxClient].host

\* The first slot a connect or a join may take, MaxClient + 1 if there is none.
FirstFree(h) ==
  CHOOSE s \in 1 .. MaxClient + 1 :
    /\ s \in Slots => Free(h, s)
    /\ \A t \in 1 .. s - 1 : ~Free(h, t)

\* A group is known to be joined if a connected client before the first free
\* slot is in it: the search ends at that slot.
KnownJoined(h, g) ==
  \E s \in 1 .. FirstFree(h) - 1 : Connected(h, s) /\ h.clients[s].group = g

-----------------------------------------------------------------------------
(* The application.                                                         *)

\* The application may use a packet it has a reference of, or has in an event.
Usable(p) == held[p] > 0 \/ event = p

\* Bound: the references the application holds.
Held == FoldFunction(LAMBDA a, b : a + b, 0, held)

Keep(h) == host' = h /\ UNCHANGED <<event, held>>

\* gekkota_packet_new_1.
NewPacket ==
  /\ FreePackets(host) # {} /\ Held < MaxHeld
  /\ \E k \in Kinds : host' = PacketNew(host, k.flags, k.length, FALSE, k.shrinks)
  /\ held' = [held EXCEPT ![Fresh(host)] = 1]
  /\ UNCHANGED event

\* gekkota_packet_new_0 by the application, for a packet it will keep.
NewReference ==
  \E p \in PacketIds :
    /\ Usable(p) /\ Held < MaxHeld
    /\ host' = PacketShare(host, p)
    /\ held' = [held EXCEPT ![p] = @ + 1]
    /\ UNCHANGED event

DestroyPacket ==
  \E p \in PacketIds :
    /\ held[p] > 0
    /\ host' = PacketDestroy(host, p)
    /\ held' = [held EXCEPT ![p] = @ - 1]
    /\ UNCHANGED event

\* Bound: the queues have room for n more messages.
RoomFor(n) ==
  n + FoldLeft(LAMBDA k, c : k + Len(c.outgoing) + Len(c.sent) + Len(c.incoming),
               0, host.clients) <= MaxMessages

\* Messages a call of send may queue for a client.
Need(s, p) == IF Connected(host, s) THEN Fragments(host, s, p) ELSE 0

\* gekkota_xudpclient_send; refused, it changes nothing.
Send ==
  \E s \in Slots, p \in PacketIds :
    /\ Usable(p) /\ Accepts(host, s, p)
    /\ RoomFor(Need(s, p)) /\ FreePackets(host) # {}
    /\ Keep(Sent(host, s, p))

NeedOfAll(p) == FoldLeft(LAMBDA k, s : k + Need(s, p), 0, [s \in Slots |-> s])

Broadcast ==
  \E p \in PacketIds :
    /\ Usable(p) /\ RoomFor(NeedOfAll(p))
    /\ Cardinality(FreePackets(host)) >= MaxClient
    /\ Keep(Broadcasted(host, p))

\* A connection is made, by gekkota_xudp_connect_3 or by a CONNECT of a peer.
Connect ==
  \E link \in Links :
    LET s == FirstFree(host)
    IN /\ s \in Slots
       /\ Keep([host EXCEPT !.clients[s] = [Reset EXCEPT
            !.state = "CONNECTED", !.level = link.level, !.mtu = link.mtu]])

\* gekkota_xudp_join_multicast_group_1: the socket joins a group of its own
\* port, and refuses one it has joined.
Join ==
  \E g \in Groups :
    LET s == FirstFree(host)
    IN /\ s \in Slots /\ ~KnownJoined(host, g) /\ MayJoin(host, g)
       /\ Keep([SocketJoin(host, g) EXCEPT !.clients[s] = [Reset EXCEPT
            !.state = "CONNECTED", !.group = g, !.level = GroupLevel, !.mtu = Mtu]])

\* A connection is closed gracefully, or the peer's DISCONNECT arrives.
Leave ==
  \E s \in Slots :
    /\ Connected(host, s) /\ host.clients[s].group = None
    /\ Keep([ClearQueues(host, s) EXCEPT !.clients[s].state = "LEAVING"])

\* A client is destroyed, by a call that closes it or in the end.
Close == \E s \in Slots : ~Free(host, s) /\ Keep(ClientDestroy(host, s))

\* gekkota_xudp_destroy, and another instance made on the same socket address:
\* the application's packets and its event outlive the first.
Restart ==
  LET gone[s \in 0 .. MaxClient] ==
        IF s = 0 THEN host ELSE ClientDestroy(gone[s - 1], s)
  IN /\ \E s \in Slots : ~Free(host, s)
     /\ Keep(gone[MaxClient])

-----------------------------------------------------------------------------
(* The library, in gekkota_xudp_poll.                                       *)

\* The message k of a queue is taken out.
Without(h, s, q, k) == [h EXCEPT !.clients[s][q] = RemoveAt(@, k)]

\* _gekkota_xudp_send_reliable moves a message to the sent ones.
SendReliable ==
  \E s \in Slots :
    LET c == host.clients[s]
    IN \E k \in DOMAIN c.outgoing :
         /\ c.outgoing[k].reliable
         /\ \A j \in 1 .. k - 1 : ~c.outgoing[j].reliable
         /\ Keep([Without(host, s, "outgoing", k)
                    EXCEPT !.clients[s].sent = Append(@, c.outgoing[k])])

\* _gekkota_xudp_send_unreliable: the message leaves or is throttled, and its
\* packet is given up before _gekkota_xudp_send returns.
SendUnreliable ==
  \E s \in Slots :
    LET c == host.clients[s]
    IN \E k \in DOMAIN c.outgoing :
         /\ ~c.outgoing[k].reliable
         /\ \A j \in 1 .. k - 1 : c.outgoing[j].reliable
         /\ Keep(PacketDestroy(Without(host, s, "outgoing", k), c.outgoing[k].packet))

\* _gekkota_xudp_check_for_timeouts puts a message back before the others.
TimedOut ==
  \E s \in Slots :
    LET c == host.clients[s]
    IN \E k \in DOMAIN c.sent :
         Keep([Without(host, s, "sent", k)
                 EXCEPT !.clients[s].outgoing = <<c.sent[k]>> \o @])

\* _gekkota_xudp_dispose_acknowledged_message.
Acknowledged ==
  \E s \in Slots :
    LET c == host.clients[s]
    IN \E k \in DOMAIN c.sent :
         Keep(PacketDestroy(Without(host, s, "sent", k), c.sent[k].packet))

\* What the four data handlers do with a message: a packet of its own, which
\* is queued or, if the message comes again, is not.
Received(h, s, flags, length, deflated, fragments, queued) ==
  LET p  == Fresh(h)
      h1 == PacketNew(h, flags, length, deflated, FALSE)
      h2 == IF queued
              THEN [PacketShare(h1, p) EXCEPT !.clients[s].incoming = Append(@,
                      [packet |-> p, fragmentsRemaining |-> fragments])]
              ELSE h1
  IN PacketDestroy(h2, p)

\* A data message arrives whose header says whether its data is deflated.
\* Groups are sent no reliable messages.
Receive ==
  \E s \in Slots, reliable, compressed, queued \in BOOLEAN, fragments \in {0, 2} :
    /\ Connected(host, s) /\ FreePackets(host) # {}
    /\ queued => RoomFor(1)
    /\ fragments > 0 => reliable
    /\ reliable => host.clients[s].group = None
    /\ Keep(Received(host, s,
              (IF reliable THEN {"RELIABLE"} ELSE {})
                \cup (IF compressed THEN {"COMPRESSED"} ELSE {}),
              1, compressed, IF fragments = 0 THEN 0 ELSE fragments - 1, queued))

\* Another fragment of a packet arrives, and is copied into the packet.
ReceiveFragment ==
  \E s \in Slots : \E k \in DOMAIN host.clients[s].incoming :
    /\ host.clients[s].incoming[k].fragmentsRemaining > 0
    /\ Keep([host EXCEPT !.clients[s].incoming[k].fragmentsRemaining = @ - 1])

\* The end of gekkota_xudpclient_receive: a packet flagged as compressed is
\* inflated into another, which keeps the flag.
InflateFor(h, s, p) ==
  IF "COMPRESSED" \notin h.packets[p].flags THEN [host |-> h, packet |-> p]
  ELSE LET h1 == WithLzf(h, s)
       IN [packet |-> Fresh(h1),
           host |-> PacketDestroy(
             PacketNew(h1, h.packets[p].flags, h.packets[p].length, FALSE, FALSE), p)]

\* A message of a connected client that is whole: which of them is the next is
\* the matter of Channel.
Ready(s, k) ==
  Connected(host, s) /\ host.clients[s].incoming[k].fragmentsRemaining = 0

Taken(s, k) == Without(host, s, "incoming", k)

\* gekkota_xudpclient_receive, called by _gekkota_xudp_dispatch: a message is
\* taken from its queue, and its packet is the event's.
Dispatch ==
  \E s \in Slots : \E k \in DOMAIN host.clients[s].incoming :
    /\ event = None /\ Ready(s, k) /\ FreePackets(host) # {}
    /\ LET r == InflateFor(Taken(s, k), s, host.clients[s].incoming[k].packet)
       IN host' = r.host /\ event' = r.packet
    /\ UNCHANGED held

\* The same for a packet whose data cannot be inflated: it is given up, and
\* there is no event.
DispatchFails ==
  \E s \in Slots : \E k \in DOMAIN host.clients[s].incoming :
    LET p == host.clients[s].incoming[k].packet
    IN /\ event = None /\ Ready(s, k)
       /\ "COMPRESSED" \in host.packets[p].flags
       /\ Keep(PacketDestroy(WithLzf(Taken(s, k), s), p))

\* A member of a group joins or leaves: the event has no packet.
Notify ==
  /\ event = None
  /\ \E s \in Slots : Connected(host, s) /\ host.clients[s].group # None
  /\ event' = Notice
  /\ UNCHANGED <<host, held>>

\* gekkota_event_destroy of the last reference of the event: its packet goes.
DestroyEvent ==
  /\ event # None
  /\ host' = IF event = Notice THEN host ELSE PacketDestroy(host, event)
  /\ event' = None
  /\ UNCHANGED held

Init ==
  /\ host = [clients |-> [s \in Slots |-> Reset],
             packets |-> [p \in PacketIds |-> NoPacket],
             instances |-> [z \in LzfIds |-> NoInstance], joined |-> {}]
  /\ event = None
  /\ held = [p \in PacketIds |-> 0]

Next == \/ NewPacket \/ NewReference \/ DestroyPacket \/ Send \/ Broadcast
        \/ Connect \/ Join \/ Leave \/ Close \/ Restart
        \/ SendReliable \/ SendUnreliable \/ TimedOut \/ Acknowledged
        \/ Receive \/ ReceiveFragment \/ Dispatch \/ DispatchFails \/ Notify
        \/ DestroyEvent

Spec == Init /\ [][Next]_vars

-----------------------------------------------------------------------------
(* Properties.                                                              *)

\* The host keeps its types.
TypeOK ==
  /\ host \in HostType
  /\ event \in PacketIds \cup {Notice, None}
  /\ held \in [PacketIds -> Nat]

\* The messages of all queues that hold packet p.
Messages(h, p) ==
  UNION {{s} \X {q} \X HoldersIn(h.clients[s][q], p) :
         s \in Slots, q \in {"outgoing", "sent", "incoming"}}

\* The count of a packet's references is the number of those who hold it - the
\* application, its event, the messages of all queues - so that none is freed
\* while someone holds it, and none is kept that nobody holds.
CountsAreHolders ==
  \A p \in PacketIds :
    host.packets[p].refCount =
      held[p] + Cardinality(Messages(host, p))
              + IF event = p THEN 1 ELSE 0

\* An LZF instance is counted by the clients that have it, compresses at the
\* level each of them agreed with its peer, and is the only one of that level.
InstancesAreShared ==
  \A z \in LzfIds :
    LET users == {s \in Slots : host.clients[s].lzf = z}
    IN /\ host.instances[z].refCount = Cardinality(users)
       /\ \A s \in users : host.clients[s].level = host.instances[z].level
       /\ \A y \in LzfIds \ {z} : users # {} =>
            host.instances[y].level # host.instances[z].level

\* The header of a message says that its data is deflated exactly if it is:
\* the receiver has nothing else to go by.
HeaderTells ==
  \A s \in Slots :
    \A m \in ToSet(host.clients[s].outgoing) \cup ToSet(host.clients[s].sent) :
      m.compressed = host.packets[m.packet].deflated

\* The socket is a member of exactly those groups of its port of which there
\* is a client, and of each there is one.
MembersAreClients ==
  \A g \in LocalGroups :
    Cardinality({s \in Slots : host.clients[s].group = g})
      = IF g \in host.joined THEN 1 ELSE 0
=============================================================================
