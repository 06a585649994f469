------------------------------ MODULE EndPoints ------------------------------
(***************************************************************************)
(* Who holds which endpoint, and which address.  Both count their          *)
(* references (gekkota_ipendpoint.c, gekkota_ipaddress.c); sockets,        *)
(* clients, messages that wait, events and the application share them, and *)
(* endpoints share addresses.                                              *)
(*                                                                         *)
(* Abstracted: ports and interfaces, which are part of whom an endpoint    *)
(* names; everything else that is in a datagram; the packets (module       *)
(* Packets), and the references to an event itself.  Memory is never short *)
(* (module Memory): what has no references left but lost ones, the model   *)
(* uses again.                                                             *)
(***************************************************************************)
EXTENDS Naturals, Sequences, FiniteSets, FiniteSetsExt

CONSTANTS
    MaxEndPoints, MaxAddresses,  \* bounds: how many are in use at a time
    Hosts, GroupNames,        \* whom an endpoint can name: hosts, multicast groups
    AddressOf,                \* the address of each: groups may differ in their ports
    SlotCount,                \* xudp->clientCount
    MaxEvents,                \* bound: events the application keeps
    MaxQueued,                \* bound: messages that wait in a slot
    MaxLost,                  \* bound: references lost of endpoints that are held
    Nobody

ASSUME EndPointAssumption ==
    /\ SlotCount \in Nat \ {0} /\ MaxEvents \in Nat /\ MaxQueued \in Nat /\ MaxLost \in Nat
    /\ MaxEndPoints \in Nat \ {0} /\ MaxAddresses \in Nat \ {0}
    /\ Hosts \cap GroupNames = {}
    /\ Nobody \notin 1..MaxEndPoints /\ Nobody \notin 1..MaxAddresses
    /\ Nobody \notin Hosts \cup GroupNames
    /\ Hosts \cup GroupNames \subseteq DOMAIN AddressOf

VARIABLES
    heap,    \* the endpoints and the addresses
    xudp,    \* the host: is it there, localEndPoint of its socket, remoteEndPoint
    slot,    \* its clients
    told,    \* the events the application holds
    own      \* the endpoint the application holds a reference to, or Nobody

endVars == <<heap, xudp, slot, told, own>>

EndPointIds == 1..MaxEndPoints
AddressIds == 1..MaxAddresses
Remotes == Hosts \cup GroupNames
SlotIds == 1..SlotCount
EventIds == 1..MaxEvents

\* "closing" is DISCONNECTING; "ackConnect" and "ackDisconnect" acknowledge.
SlotStates == {"free", "connecting", "ackConnect", "pending", "succeeded", "connected",
               "closing", "ackDisconnect", "zombie"}

\* from is history: whom the slot was made for.
FreeSlot == [state |-> "free", remote |-> Nobody, from |-> Nobody, member |-> FALSE, queue |-> <<>>]
NoEvent == [remote |-> Nobody, from |-> Nobody]
NoHost == [alive |-> FALSE, local |-> Nobody, remote |-> Nobody]

EndInit ==
    /\ heap = [count |-> [e \in EndPointIds |-> 0],      \* refCount
               names |-> [e \in EndPointIds |-> Nobody],   \* what the endpoint says
               address |-> [e \in EndPointIds |-> Nobody], \* its address
               lost |-> [e \in EndPointIds |-> 0],       \* history: references nobody has
               refs |-> [a \in AddressIds |-> 0],
               value |-> [a \in AddressIds |-> Nobody],
               wild |-> FALSE]                           \* history: freed memory was used
    /\ xudp = NoHost
    /\ slot = [s \in SlotIds |-> FreeSlot]
    /\ told = [v \in EventIds |-> NoEvent]
    /\ own = Nobody

-----------------------------------------------------------------------------
(* Addresses and endpoints.                                                *)

\* There is room for another endpoint, and for its address.
Room == (\E e \in EndPointIds : heap.count[e] = 0) /\ (\E a \in AddressIds : heap.refs[a] = 0)

\* Where they come to be.
NextEndPoint == Min({e \in EndPointIds : heap.count[e] = 0})
NextAddress == Min({a \in AddressIds : heap.refs[a] = 0})

\* gekkota_ipaddress_new_2.
AddressNew(h, v) == [h EXCEPT !.refs[NextAddress] = 1, !.value[NextAddress] = v]

AddressShare(h, a) == IF h.refs[a] = 0 THEN [h EXCEPT !.wild = TRUE] ELSE [h EXCEPT !.refs[a] = @ + 1]

AddressDestroy(h, a) ==
    CASE h.refs[a] = 0 -> [h EXCEPT !.wild = TRUE]
      [] h.refs[a] = 1 -> [h EXCEPT !.refs[a] = 0, !.value[a] = Nobody]
      [] OTHER -> [h EXCEPT !.refs[a] = @ - 1]

\* _gekkota_ipendpoint_new: the caller's reference to a becomes that of the endpoint.
EndPointNew(h, a, r) ==
    [h EXCEPT !.count[NextEndPoint] = 1, !.names[NextEndPoint] = r, !.address[NextEndPoint] = a]

\* gekkota_ipendpoint_new, on address a: the endpoint shares it.
EndPointAt(h, a, r) == EndPointNew(AddressShare(h, a), a, r)

\* gekkota_ipendpoint_new_2, and gekkota_ipendpoint_new of no address: both anew.
Made(r) == EndPointNew(AddressNew(heap, AddressOf[r]), NextAddress, r)

\* gekkota_ipendpoint_new_0.
ShareEndPoint(h, e) == IF h.count[e] = 0 THEN [h EXCEPT !.wild = TRUE] ELSE [h EXCEPT !.count[e] = @ + 1]

Freed(h, e) ==
    AddressDestroy([h EXCEPT !.count[e] = 0, !.lost[e] = 0, !.names[e] = Nobody, !.address[e] = Nobody],
                   h.address[e])

\* gekkota_ipendpoint_destroy; NULL is refused.
Destroy(h, e) ==
    CASE e = Nobody -> h
      [] e # Nobody /\ h.count[e] = h.lost[e] -> [h EXCEPT !.wild = TRUE]
      [] e # Nobody /\ h.count[e] = h.lost[e] + 1 -> Freed(h, e)
      [] OTHER -> [h EXCEPT !.count[e] = @ - 1]

\* A reference is lost, maybe the last one.
Lose(h, e) == IF h.count[e] = h.lost[e] + 1 THEN Freed(h, e) ELSE [h EXCEPT !.lost[e] = @ + 1]

\* gekkota_ipendpoint_set_address.
SetAddress(h, e, a) ==
    IF a = h.address[e] THEN h
    ELSE [AddressDestroy(AddressShare(h, a), h.address[e]) EXCEPT !.address[e] = a]

\* _gekkota_iphostentry_new: a name is looked up, and has one address here; the entry
\* holds it until gekkota_iphostentry_destroy.
HostEntryNew(h, r) == AddressNew(h, AddressOf[r])
HostEntryDestroyed(h, a) == AddressDestroy(h, a)

-----------------------------------------------------------------------------
(* Clients.                                                                *)

LoseAll(h, q) == LET lose[i \in 0..Len(q)] == IF i = 0 THEN h ELSE Lose(lose[i - 1], q[i].remote)
                 IN  lose[Len(q)]

\* _gekkota_xudpclient_clear_message_queues frees messages, not what they hold.
QueuesCleared(h, c) == LoseAll(h, c.queue)

\* gekkota_xudpclient_destroy: the endpoint of a multicast group is given back.
ClientDestroyed(h, c) ==
    QueuesCleared(IF c.remote = Nobody THEN h
            ELSE IF c.member THEN Destroy(h, c.remote) ELSE Lose(h, c.remote), c)

FirstFreeSlot == {s \in SlotIds : slot[s].state = "free" /\ \A t \in 1..(s - 1) : slot[t].state # "free"}

-----------------------------------------------------------------------------
(* The application, and its own reference.                                 *)

\* gekkota_ipaddress_new, gekkota_ipendpoint_new, gekkota_ipaddress_destroy.
NewEndPoint(r) ==
    /\ Room /\ own = Nobody
    /\ LET a == NextAddress
       IN  heap' = AddressDestroy(EndPointAt(AddressNew(heap, AddressOf[r]), a, r), a)
    /\ own' = NextEndPoint
    /\ UNCHANGED <<xudp, slot, told>>

DestroyEndPoint ==
    /\ own # Nobody
    /\ heap' = Destroy(heap, own)
    /\ own' = Nobody
    /\ UNCHANGED <<xudp, slot, told>>

-----------------------------------------------------------------------------
(* The host.                                                               *)

\* gekkota_socket_new_3: the socket shares the endpoint it is bound to.
SocketNew(h, e) == ShareEndPoint(h, e)

\* gekkota_xudp_new_5, with the endpoint of the application.
NewHost ==
    /\ ~xudp.alive /\ own # Nobody /\ heap.names[own] \in Hosts
    /\ heap' = SocketNew(heap, own)
    /\ xudp' = [NoHost EXCEPT !.alive = TRUE, !.local = own]
    /\ UNCHANGED <<slot, told, own>>

\* gekkota_xudp_new_4: with one that the library then gives up.
NewHostOfPort(r) ==
    /\ ~xudp.alive /\ Room
    /\ heap' = Destroy(SocketNew(Made(r), NextEndPoint), NextEndPoint)
    /\ xudp' = [NoHost EXCEPT !.alive = TRUE, !.local = NextEndPoint]
    /\ UNCHANGED <<slot, told, own>>

\* gekkota_xudp_new_6: with one that shares the address of an entry.
NewHostByName(r) ==
    /\ ~xudp.alive /\ Room
    /\ LET made == EndPointAt(HostEntryNew(heap, r), NextAddress, r)
           given == Destroy(SocketNew(made, NextEndPoint), NextEndPoint)
       IN  heap' = HostEntryDestroyed(given, NextAddress)
    /\ xudp' = [NoHost EXCEPT !.alive = TRUE, !.local = NextEndPoint]
    /\ UNCHANGED <<slot, told, own>>

\* gekkota_socket_destroy (a datagram socket has no remote endpoint).
SocketDestroyed(h) == Destroy(h, xudp.local)

\* gekkota_xudp_destroy.
DestroyHost ==
    LET gone[s \in 0..SlotCount] ==
          IF s = 0 THEN heap ELSE ClientDestroyed(gone[s - 1], slot[s])
    IN  /\ xudp.alive
        /\ heap' = Destroy(SocketDestroyed(gone[SlotCount]), xudp.remote)
        /\ xudp' = NoHost
        /\ slot' = [s \in SlotIds |-> FreeSlot]
        /\ UNCHANGED <<told, own>>

-----------------------------------------------------------------------------
(* Clients come and go.                                                    *)

Takes(s, e, state, member) ==
    slot' = [slot EXCEPT ![s] = [FreeSlot EXCEPT !.state = state, !.remote = e, !.member = member,
                                                 !.from = heap'.names[e]]]

\* gekkota_xudp_connect_3.
ConnectTo(s) ==
    /\ xudp.alive /\ s \in FirstFreeSlot
    /\ own # Nobody /\ heap.names[own] \in Hosts
    /\ heap' = ShareEndPoint(heap, own)
    /\ Takes(s, own, "connecting", FALSE)
    /\ UNCHANGED <<xudp, told, own>>

\* gekkota_xudp_connect_2: the name is looked up, the endpoint shares an address of
\* the entry, the client shares the endpoint, which is given up, and so is the entry.
ConnectByName(s, r) ==
    /\ xudp.alive /\ s \in FirstFreeSlot /\ Room
    /\ LET a == NextAddress
           e == NextEndPoint
           made == EndPointAt(HostEntryNew(heap, r), a, r)
       IN  heap' = HostEntryDestroyed(Destroy(ShareEndPoint(made, e), e), a)
    /\ Takes(s, NextEndPoint, "connecting", FALSE)
    /\ UNCHANGED <<xudp, told, own>>

\* Members before the slot s with the same address; the last one lends its own.
SameAddress(s) ==
    {t \in 1..(s - 1) : /\ slot[t].state = "connected" /\ slot[t].member
                        /\ heap.value[heap.address[slot[t].remote]] = heap.value[heap.address[own]]}

\* gekkota_xudp_join_multicast_group_1.
JoinGroup(s) ==
    LET same == SameAddress(s)
    IN  /\ xudp.alive /\ s \in FirstFreeSlot
        /\ own # Nobody /\ heap.names[own] \in GroupNames
        /\ \A t \in same : heap.names[slot[t].remote] # heap.names[own]
        /\ heap' = ShareEndPoint(IF same = {} THEN heap
                         ELSE SetAddress(heap, own, heap.address[slot[Max(same)].remote]), own)
        /\ Takes(s, own, "connected", TRUE)
        /\ UNCHANGED <<xudp, told, own>>

\* gekkota_xudpclient_destroy, and _gekkota_xudpclient_close_now.
DestroyClient(s) ==
    /\ slot[s].state # "free"
    /\ heap' = ClientDestroyed(heap, slot[s])
    /\ slot' = [slot EXCEPT ![s] = FreeSlot]
    /\ UNCHANGED <<xudp, told, own>>

\* _gekkota_xudpclient_close_gracefully.
CloseGracefully(s) ==
    /\ slot[s].state \notin {"free", "closing", "zombie"}
    /\ IF slot[s].state = "connected" /\ ~slot[s].member
       THEN /\ heap' = QueuesCleared(heap, slot[s])
            /\ slot' = [slot EXCEPT ![s].state = "closing", ![s].queue = <<>>]
       ELSE /\ heap' = ClientDestroyed(heap, slot[s])
            /\ slot' = [slot EXCEPT ![s] = FreeSlot]
    /\ UNCHANGED <<xudp, told, own>>

-----------------------------------------------------------------------------
(* poll(): events.                                                         *)

FreeEvent == {v \in EventIds : told[v] = NoEvent /\ \A w \in 1..(v - 1) : told[w] # NoEvent}

\* Mutant: an event does not count its reference.
NotCopied(h, e) == h

\* _gekkota_event_new with copy: the event counts a reference of its own.
EventCopied(h, e) == ShareEndPoint(h, e)

\* The event v is about from, and has the endpoint e.
EventIs(v, e, from) == told' = [told EXCEPT ![v] = [remote |-> e, from |-> from]]

\* _gekkota_xudp_notify_connect.
NotifyConnect(h, s, v, sink) ==
    IF sink
    THEN /\ v \in FreeEvent
         /\ heap' = EventCopied(h, slot[s].remote)
         /\ EventIs(v, slot[s].remote, slot[s].from)
         /\ slot' = [slot EXCEPT ![s].state = "connected"]
    ELSE /\ heap' = h /\ UNCHANGED told
         /\ slot' = [slot EXCEPT ![s].state = IF @ = "connecting" THEN "succeeded" ELSE "pending"]

\* _gekkota_xudp_notify_disconnect: the event is made, then the client destroyed.
NotifyDisconnect(h, s, v, sink) ==
    IF slot[s].state \in {"ackConnect", "pending"}
    THEN /\ heap' = ClientDestroyed(h, slot[s]) /\ UNCHANGED told
         /\ slot' = [slot EXCEPT ![s] = FreeSlot]
    ELSE IF sink
    THEN /\ v \in FreeEvent
         /\ heap' = ClientDestroyed(EventCopied(h, slot[s].remote), slot[s])
         /\ EventIs(v, slot[s].remote, slot[s].from)
         /\ slot' = [slot EXCEPT ![s] = FreeSlot]
    ELSE /\ heap' = h /\ UNCHANGED told
         /\ slot' = [slot EXCEPT ![s].state = "zombie"]

\* _gekkota_xudp_dispatch, of a connection that was not told yet.
TellConnect(s, v) ==
    /\ slot[s].state \in {"pending", "succeeded"} /\ v \in FreeEvent
    /\ heap' = EventCopied(heap, slot[s].remote)
    /\ EventIs(v, slot[s].remote, slot[s].from)
    /\ slot' = [slot EXCEPT ![s].state = "connected"]
    /\ UNCHANGED <<xudp, own>>

\* ... of an end that was not: the client is destroyed first, and the event gets
\* what is left of its endpoint, NULL.
TellDisconnect(s, v) ==
    /\ slot[s].state = "zombie" /\ v \in FreeEvent
    /\ heap' = ClientDestroyed(heap, slot[s])
    /\ slot' = [slot EXCEPT ![s] = FreeSlot]
    /\ EventIs(v, Nobody, slot[s].from)
    /\ UNCHANGED <<xudp, own>>

\* ... of a packet that came in (gekkota_xudpclient_receive): the reference of the
\* message becomes that of the event.
TellPacket(s, v) ==
    /\ slot[s].state = "connected" /\ slot[s].queue # <<>> /\ v \in FreeEvent
    /\ EventIs(v, slot[s].queue[1].remote, slot[s].queue[1].from)
    /\ slot' = [slot EXCEPT ![s].queue = Tail(@)]
    /\ UNCHANGED <<heap, xudp, own>>

\* gekkota_event_destroy.
EventDestroyed(v) ==
    /\ told[v] # NoEvent
    /\ told' = [told EXCEPT ![v] = NoEvent]
    /\ heap' = Destroy(heap, told[v].remote)
    /\ UNCHANGED <<xudp, slot, own>>

-----------------------------------------------------------------------------
(* poll(): datagrams.                                                      *)

\* gekkota_socket_receive makes an endpoint for every datagram; the last one goes.
DatagramOf(r) == Destroy(Made(r), xudp.remote)

DatagramArrives ==
    /\ xudp.alive /\ Room
    /\ xudp' = [xudp EXCEPT !.remote = NextEndPoint]
    /\ UNCHANGED own

\* Nothing in it is for anybody.
Ignored(r) ==
    /\ DatagramArrives
    /\ heap' = DatagramOf(r)
    /\ UNCHANGED <<slot, told>>

\* _gekkota_xudp_on_connect_message.
OnConnect(r, s) ==
    /\ DatagramArrives
    /\ s \in FirstFreeSlot
    /\ \A t \in SlotIds : slot[t].remote # Nobody => heap.names[slot[t].remote] # r
    /\ heap' = ShareEndPoint(DatagramOf(r), NextEndPoint)
    /\ Takes(s, NextEndPoint, "ackConnect", FALSE)
    /\ UNCHANGED told

\* A datagram for the client s: hosts are known by their addresses, groups by number.
IsFor(r, s) ==
    IF slot[s].member THEN TRUE
    ELSE slot[s].state \notin {"free", "zombie"} /\ AddressOf[r] = heap.value[heap.address[slot[s].remote]]

\* _gekkota_xudp_on_validate_connect_message, or the acknowledgement of one.
OnEstablished(r, s, v, sink) ==
    /\ DatagramArrives
    /\ slot[s].state \in {"connecting", "ackConnect"} /\ IsFor(r, s)
    /\ NotifyConnect(DatagramOf(r), s, v, sink)

\* The acknowledgement of a DISCONNECT.
OnDisconnected(r, s, v, sink) ==
    /\ DatagramArrives
    /\ slot[s].state = "closing" /\ IsFor(r, s)
    /\ NotifyDisconnect(DatagramOf(r), s, v, sink)

\* _gekkota_xudp_on_disconnect_message, which has no event to make.
OnDisconnect(r, s, ack) ==
    LET h == DatagramOf(r)
    IN  /\ DatagramArrives
        /\ ~slot[s].member /\ IsFor(r, s)
        /\ IF slot[s].state \in {"succeeded", "connected"}
           THEN /\ heap' = QueuesCleared(h, slot[s])
                /\ slot' = [slot EXCEPT ![s].queue = <<>>,
                        ![s].state = IF @ = "connected" /\ ack THEN "ackDisconnect" ELSE "zombie"]
           ELSE heap' = ClientDestroyed(h, slot[s]) /\ slot' = [slot EXCEPT ![s] = FreeSlot]
        /\ UNCHANGED told

\* Mutant: the message does not count its reference.
QueuedUncounted(h, e) == h

\* _gekkota_xudpclient_queue_incoming_message: it holds who sent the datagram.
Queued(h, e) == ShareEndPoint(h, e)

\* _gekkota_xudp_on_reliable_data_message and those like it.
OnData(r, s) ==
    /\ DatagramArrives
    /\ slot[s].state = "connected" /\ IsFor(r, s) /\ Len(slot[s].queue) < MaxQueued
    /\ heap' = Queued(DatagramOf(r), NextEndPoint)
    /\ slot' = [slot EXCEPT ![s].queue = Append(@, [remote |-> NextEndPoint, from |-> r])]
    /\ UNCHANGED told

\* _gekkota_xudp_on_join_multicast_group_message, and its twin for leaving; the event
\* of a second message takes the place of the first, which is lost.
OnMembership(r, s, v, twice) ==
    LET e == NextEndPoint
        h == EventCopied(DatagramOf(r), e)
    IN  /\ DatagramArrives
        /\ slot[s].member /\ v \in FreeEvent
        /\ heap' = IF twice THEN Lose(EventCopied(h, e), e) ELSE h
        /\ EventIs(v, e, r)
        /\ UNCHANGED slot

\* A message of the client was sent too often (_gekkota_xudp_check_for_timeouts).
TimesOut(s, v, sink) ==
    /\ slot[s].state \in SlotStates \ {"free", "zombie"} /\ ~slot[s].member
    /\ NotifyDisconnect(heap, s, v, sink)
    /\ UNCHANGED <<xudp, own>>

\* The acknowledgement of a DISCONNECT leaves (_gekkota_xudp_send_acknowledgements).
AcknowledgesDisconnect(s) ==
    /\ slot[s].state = "ackDisconnect"
    /\ slot' = [slot EXCEPT ![s].state = "zombie"]
    /\ UNCHANGED <<heap, xudp, told, own>>

-----------------------------------------------------------------------------
EndNext ==
    \/ \E r \in Remotes : NewEndPoint(r)
    \/ DestroyEndPoint \/ NewHost \/ DestroyHost
    \/ \E s \in SlotIds : ConnectTo(s) \/ JoinGroup(s)
    \/ \E r \in Hosts :
         \/ NewHostOfPort(r) \/ NewHostByName(r) \/ Ignored(r)
         \/ \E s \in SlotIds :
              \/ ConnectByName(s, r) \/ OnConnect(r, s) \/ OnData(r, s)
              \/ \E ack \in BOOLEAN : OnDisconnect(r, s, ack)
              \/ \E v \in EventIds, b \in BOOLEAN :
                   OnEstablished(r, s, v, b) \/ OnDisconnected(r, s, v, b) \/ OnMembership(r, s, v, b)
    \/ \E s \in SlotIds :
         \/ DestroyClient(s) \/ CloseGracefully(s) \/ AcknowledgesDisconnect(s)
         \/ \E v \in EventIds : TellConnect(s, v) \/ TellDisconnect(s, v) \/ TellPacket(s, v)
         \/ \E v \in EventIds, sink \in BOOLEAN : TimesOut(s, v, sink)
    \/ \E v \in EventIds : EventDestroyed(v)

FewAreLost == MapThenSumSet(LAMBDA e : heap'.lost[e], EndPointIds) <= MaxLost

EndSpec == EndInit /\ [][EndNext /\ FewAreLost]_endVars

-----------------------------------------------------------------------------
(* Properties.                                                             *)

\* Those who may hold an endpoint: clients, messages that wait, events, the socket, the
\* application.
Holders ==
    ({"client"} \X SlotIds \X {0}) \cup ({"message"} \X SlotIds \X (1..MaxQueued))
    \cup ({"event"} \X EventIds \X {0}) \cup ({"local", "remote", "own"} \X {0} \X {0})

HeldBy(w) ==
    CASE w[1] = "client" -> slot[w[2]].remote
      [] w[1] = "message" -> IF w[3] \in DOMAIN slot[w[2]].queue
                             THEN slot[w[2]].queue[w[3]].remote ELSE Nobody
      [] w[1] = "event" -> told[w[2]].remote
      [] w[1] = "own" -> own
      [] OTHER -> xudp[w[1]]

HoldersOf(e) == {w \in Holders : HeldBy(w) = e}

\* The count of an endpoint is the number of those who hold it, and that of an address
\* the number of endpoints that have it, across all that is shared, given up, given on
\* and overwritten, but for the references that the library is known to lose: so
\* nothing is used that was freed.
ReferencesAreCounted ==
    /\ ~heap.wild
    /\ \A e \in EndPointIds : heap.count[e] = Cardinality(HoldersOf(e)) + heap.lost[e]
    /\ \A a \in AddressIds :
         heap.refs[a] = Cardinality({e \in EndPointIds : heap.address[e] = a})

NamesIt(e, r) == heap.count[e] > 0 /\ heap.names[e] = r /\ heap.value[heap.address[e]] = AddressOf[r]

\* Whatever came in, ended or was given up since: a client's endpoint names the peer
\* the client was made for, and an event's the one who sent what the event is about,
\* if it names anybody.
SenderIsKnown ==
    /\ \A s \in SlotIds : slot[s].state # "free" => NamesIt(slot[s].remote, slot[s].from)
    /\ \A v \in EventIds : told[v].remote # Nobody => NamesIt(told[v].remote, told[v].from)
=============================================================================
