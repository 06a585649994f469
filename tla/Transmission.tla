---------------------------- MODULE Transmission ----------------------------
(***************************************************************************)
(* How the queued messages of one client leave: _gekkota_xudp_send with    *)
(* its packing of datagrams, the window of reliable data, time-outs and    *)
(* resends, giving up, acknowledgements, the packet throttle, the window   *)
(* that the peer sets anew, and the close that waits for empty queues.     *)
(*                                                                         *)
(* One step of a sending pass makes one datagram.  Sizes count in units;   *)
(* the header of a control or data message is one, that of a fragment two. *)
(* Times are ticks, from 1: 0 stands for "none" in earliestTimeout.        *)
(* gekkota_time_compare() returns 0 for times less than a day apart, so    *)
(* nextTimeout, which is only ever compared with, decides nothing.         *)
(*                                                                         *)
(* Abstracted: the round trip estimate, which yields some time-out of      *)
(* Rtos; the adjustment of packetThrottle, which is some value of          *)
(* Throttles in every datagram; what becomes of a client given up (module  *)
(* XudpConnection).                                                        *)
(***************************************************************************)
EXTENDS Naturals, Integers, Sequences, FiniteSets, SequencesExt, Sums

CONSTANTS
    Mtu,           \* room of a datagram: client->mtu less the datagram header
    MaxPerDatagram,\* GEKKOTA_XUDP_MAX_MESSAGES
    Windows,       \* values of client->windowSize
    Rtos,          \* values of roundTripTime + 4 * roundTripTimeVariance
    TimeoutLimit,  \* GEKKOTA_XUDP_CLIENT_TIMEOUT_LIMIT
    MinTimeout,    \* GEKKOTA_XUDP_CLIENT_MIN_TIMEOUT
    MaxTimeout,    \* GEKKOTA_XUDP_CLIENT_MAX_TIMEOUT
    ThrottleScale, \* GEKKOTA_XUDP_CLIENT_PACKET_THROTTLE_SCALE
    ThrottleStep,  \* GEKKOTA_XUDP_CLIENT_PACKET_THROTTLE_COUNTER
    Throttles,     \* values of packetThrottle
    Lengths,       \* lengths of reliable packets
    Datagrams,     \* lengths of unreliable packets
    MaxIds,        \* bound: reliable messages queued
    MaxUnrel,      \* bound: unreliable messages queued
    MaxAcks,       \* bound: acknowledgements owed
    MaxTime        \* bound: the last tick

ASSUME SizesAssumption ==
    /\ Mtu \in Nat /\ Mtu > 2 /\ MaxPerDatagram \in Nat \ {0}
    /\ Windows \subseteq Nat /\ \A w \in Windows : w >= Mtu
    /\ Lengths \subseteq Nat \ {0} /\ Datagrams \subseteq 1..(Mtu - 2)
ASSUME TimesAssumption ==
    /\ Rtos \subseteq Nat \ {0} /\ TimeoutLimit \in Nat \ {0}
    /\ MinTimeout \in Nat /\ MaxTimeout \in Nat /\ MinTimeout <= MaxTimeout
ASSUME ThrottleAssumption ==
    /\ ThrottleScale \in Nat \ {0} /\ ThrottleStep \in Nat
    /\ Throttles \subseteq 0..ThrottleScale
ASSUME CountsAssumption ==
    MaxIds \in Nat \ {0} /\ MaxUnrel \in Nat /\ MaxAcks \in Nat /\ MaxTime \in Nat

VARIABLES
    state,     \* client->state; "GONE" once the client is given up, "CLOSED" once
               \* its DISCONNECT is acknowledged
    now,       \* xudp->currentTime
    outR,      \* outgoingReliableMessages
    sentR,     \* sentReliableMessages
    outU,      \* outgoingUnreliableMessages: their lengths
    inTransit, \* reliableDataInTransit
    window,    \* windowSize
    earliest,  \* earliestTimeout
    counter,   \* packetThrottleCounter
    acks,      \* acknowledgements owed to the peer
    at,        \* "send": inside _gekkota_xudp_send, called by poll; "flush": by flush
    polled,    \* poll made a pass in this tick
    seq,       \* outgoing sequence numbers used
    first,     \* history: first[i], when message i first left; 0 before
    answer,    \* history: when the peer last acknowledged something
    stale      \* history: CONNECT expired, and no acknowledgement came since

vars == <<state, now, outR, sentR, outU, inTransit, window, earliest, counter, acks, at,
          polled, seq, first, answer, stale>>

Ids == 1..MaxIds

\* CONTROL stands for PING, CONFIGURE_BANDWIDTH and CONFIGURE_THROTTLE.
\* data is fragmentLength, 0 without a packet; rto is roundTripTimeout and limit
\* roundTripTimeoutLimit, 0 until the message leaves for the first time.
Outgoing == [id : Ids,
             type : {"CONNECT", "DISCONNECT", "CONTROL", "RELIABLE_DATA", "DATA_FRAGMENT"},
             data : Nat, rto : Nat, limit : Nat, sentTime : Nat]

SizeOf(m) == (IF m.type = "DATA_FRAGMENT" THEN 2 ELSE 1) + m.data

Data(s, k) == Sum([i \in DOMAIN s |-> s[i].data], k)
DataOf(s) == Data(s, Len(s))

Active == state \notin {"GONE", "CLOSED"}

\* The elements of s at the places P, in the order they have in s.
Those(s, P) ==
    LET those[i \in 0..Len(s)] ==
          IF i = 0 THEN <<>>
          ELSE IF i \in P THEN Append(those[i - 1], s[i]) ELSE those[i - 1]
    IN  those[Len(s)]

-----------------------------------------------------------------------------
(* Queueing.                                                               *)

New(i, type, data) ==
    [id |-> i, type |-> type, data |-> data, rto |-> 0, limit |-> 0, sentTime |-> 0]

\* A packet longer than this is cut into fragments of this length.
FragmentLength == Mtu - 2

\* Mutant: the header of the fragment is forgotten.
PiecesTooLong(len) ==
    IF len <= Mtu THEN <<New(seq + 1, "RELIABLE_DATA", len)>>
    ELSE [k \in 1..((len + Mtu - 1) \div Mtu) |->
            New(seq + k, "DATA_FRAGMENT", IF k * Mtu <= len THEN Mtu ELSE len % Mtu)]

\* The messages that carry a packet of len units.
Pieces(len) ==
    IF len <= FragmentLength THEN <<New(seq + 1, "RELIABLE_DATA", len)>>
    ELSE [k \in 1..((len + FragmentLength - 1) \div FragmentLength) |->
            New(seq + k, "DATA_FRAGMENT",
                IF k * FragmentLength <= len THEN FragmentLength ELSE len % FragmentLength)]

\* Mutant: messages are put at the head, like those that expired.
QueueFirst(s) ==
    /\ seq + Len(s) <= MaxIds
    /\ outR' = s \o outR
    /\ seq' = seq + Len(s)

\* _gekkota_xudpclient_queue_outgoing_message, for reliable messages.
Queue(s) ==
    /\ seq + Len(s) <= MaxIds
    /\ outR' = outR \o s
    /\ seq' = seq + Len(s)

\* gekkota_xudpclient_send of a reliable packet.
SendReliable ==
    /\ at = "app" /\ state = "CONNECTED"
    /\ \E len \in Lengths : Queue(Pieces(len))
    /\ UNCHANGED <<state, now, sentR, outU, inTransit, window, earliest, counter, acks, at,
                   polled, first, answer, stale>>

\* gekkota_xudpclient_send of an unreliable or unsequenced packet.
SendUnreliable ==
    /\ at = "app" /\ state = "CONNECTED"
    /\ Len(outU) < MaxUnrel
    /\ \E len \in Datagrams : outU' = Append(outU, len)
    /\ UNCHANGED <<state, now, outR, sentR, inTransit, window, earliest, counter, acks, at,
                   polled, seq, first, answer, stale>>

\* gekkota_xudpclient_set_throttle_configuration, of a client in any state.  What
\* gekkota_xudpclient_ping and _gekkota_xudp_throttle_bandwidth queue for one that
\* is CONNECTED looks the same.
Control ==
    /\ at = "app" /\ Active
    /\ Queue(<<New(seq + 1, "CONTROL", 0)>>)
    /\ UNCHANGED <<state, now, sentR, outU, inTransit, window, earliest, counter, acks, at,
                   polled, first, answer, stale>>

\* The DISCONNECT of _gekkota_xudpclient_close_gracefully takes the place of
\* everything queued.  reliableDataInTransit keeps its value.
Closing(i) == <<New(i, "DISCONNECT", 0)>>

Drained(r, s, u) == r = <<>> /\ s = <<>> /\ u = <<>>

\* Mutant: a delayed close is forgotten.
ClosesNever(r, s, u) == FALSE

\* A delayed close is due: the queues are r, s and u now.
Closes(r, s, u) == state = "DELAYING_DISCONNECT" /\ Drained(r, s, u)

\* _gekkota_xudpclient_close_later.
CloseLater ==
    /\ at = "app" /\ state = "CONNECTED"
    /\ IF Drained(outR, sentR, outU)
       THEN /\ seq < MaxIds
            /\ state' = "DISCONNECTING" /\ outR' = Closing(seq + 1) /\ seq' = seq + 1
            /\ acks' = 0
       ELSE state' = "DELAYING_DISCONNECT" /\ UNCHANGED <<outR, seq, acks>>
    /\ UNCHANGED <<now, sentR, outU, inTransit, window, earliest, counter, at, polled,
                   first, answer, stale>>

-----------------------------------------------------------------------------
(* _gekkota_xudp_check_for_timeouts.                                       *)

\* Mutant: time-outs are looked for only once the connection is made.
ExpiredConnected(m) == state = "CONNECTED" /\ now - m.sentTime >= m.rto

Expired(m) == now - m.sentTime >= m.rto
\* gekkota_xudp_flush sends without a look at the time.
ExpiredAt == {i \in DOMAIN sentR : at # "flush" /\ Expired(sentR[i])}
ExpiredNow == Those(sentR, ExpiredAt)

EarliestNow ==
    IF earliest = 0 /\ ExpiredNow # <<>> THEN Head(ExpiredNow).sentTime ELSE earliest

\* Mutant: a message that was resent to the limit is given up at once.
GivesUpAtLimit ==
    \E i \in DOMAIN ExpiredNow :
        \/ now - EarliestNow >= MaxTimeout
        \/ ExpiredNow[i].rto >= ExpiredNow[i].limit

GivesUp ==
    \E i \in DOMAIN ExpiredNow :
        \/ now - EarliestNow >= MaxTimeout
        \/ ExpiredNow[i].rto >= ExpiredNow[i].limit /\ now - EarliestNow >= MinTimeout

\* Mutant: the resent message is not taken off the window.
ExpiredAreSentStill(q) == q

\* reliableDataInTransit without the messages that expired.
ExpiredAreReturned(q) == q - DataOf(ExpiredNow)

\* Messages that expired go to the head of the outgoing queue, one before the
\* other, with twice the time-out.
Resent ==
    Reverse([i \in DOMAIN ExpiredNow |-> [ExpiredNow[i] EXCEPT !.rto = 2 * @]])

-----------------------------------------------------------------------------
(* One datagram.  q is the queue, used and n what the datagram holds.       *)

Used(q, k) == Sum([i \in DOMAIN q |-> SizeOf(q[i])], k)

\* The message k of q finds room for its header (and an entry), is inside the
\* window, finds room for its data.
RoomForHeader(q, k, used, n) ==
    n + k <= MaxPerDatagram /\ used + Used(q, k - 1) + SizeOf(q[k]) - q[k].data <= Mtu

\* Mutant: what was resent before is not held back.
InWindowAtFirst(q, k, transit) ==
    q[k].data # 0 /\ q[k].rto = 0 => transit + Data(q, k) <= window

InWindow(q, k, transit) ==
    q[k].data # 0 => transit + Data(q, k) <= window

RoomForData(q, k, used) == used + Used(q, k) <= Mtu

Leaves(q, k, used, n, transit) ==
    RoomForHeader(q, k, used, n) /\ InWindow(q, k, transit) /\ RoomForData(q, k, used)

\* How many messages of q leave with the datagram.
Leaving(q, used, n, transit) ==
    LET all == {k \in 0..Len(q) : \A j \in 1..k : Leaves(q, j, used, n, transit)}
    IN  CHOOSE k \in all : \A j \in all : j <= k

\* The result of _gekkota_xudp_send_reliable: 1 if it is for want of room that
\* a message stays, 0 if it is the window, or if none stays.
ReliableRemain(q, used, n, transit) ==
    LET k == Leaving(q, used, n, transit) + 1
    IN  /\ k <= Len(q)
        /\ ~RoomForHeader(q, k, used, n) \/ InWindow(q, k, transit)

Stamped(m, rto) ==
    [m EXCEPT !.rto = IF @ = 0 THEN rto ELSE @,
              !.limit = IF m.rto = 0 THEN TimeoutLimit * rto ELSE @,
              !.sentTime = now]

\* _gekkota_xudp_send_unreliable: the queue is gone through until a message
\* finds no room; some are dropped on the way.
OneUnreliable(a, len, throttle) ==
    LET c == (a.counter + ThrottleStep) % ThrottleScale
    IN  IF a.rest # <<>> \/ a.n >= MaxPerDatagram \/ a.used + 1 + len > Mtu
        THEN [a EXCEPT !.rest = Append(@, len)]
        ELSE IF c > throttle THEN [a EXCEPT !.counter = c]
        ELSE [a EXCEPT !.counter = c, !.used = @ + 1 + len, !.n = @ + 1]

Unreliable(used, n, throttle) ==
    LET after[i \in 0..Len(outU)] ==
          IF i = 0 THEN [rest |-> <<>>, counter |-> counter, used |-> used, n |-> n]
          ELSE OneUnreliable(after[i - 1], outU[i], throttle)
    IN  after[Len(outU)]

Smaller(a, b) == IF a < b THEN a ELSE b

\* The datagram a pass fills, and what it leaves.  send, which decides on another one, keeps
\* what the last of the three functions that had a queue returned.  (The keep-alive
\* PING of gekkota_xudp.c:2270 hangs on the wrong if: it is reached only when a queued
\* message did not leave, and none is in flight.)
Filled(throttle, rto, quiet) ==
    LET owed == Smaller(acks, Smaller(MaxPerDatagram, Mtu))
        queue == Resent \o outR
        transit == ExpiredAreReturned(inTransit)
        held == Those(sentR, DOMAIN sentR \ ExpiredAt)
        k == Leaving(queue, owed, owed, transit)
        gone == [i \in 1..k |-> Stamped(queue[i], rto)]
        used == owed + Used(queue, k)
        starved == /\ quiet /\ queue # <<>> /\ k = 0 /\ held = <<>>
                   /\ used + 1 <= Mtu /\ state = "CONNECTED" /\ seq < MaxIds
        left == SubSeq(queue, k + 1, Len(queue)) \o
                IF starved THEN <<New(seq + 1, "CONTROL", 0)>> ELSE <<>>
        u == Unreliable(used, owed + k, throttle)
        closes == outU # <<>> /\ Closes(left, held \o gone, u.rest)
    IN  [gone |-> gone, sent |-> held \o gone,
         left |-> IF closes THEN Closing(seq + 1) ELSE left,
         rest |-> u.rest, counter |-> u.counter, closes |-> closes,
         seq |-> IF closes \/ starved THEN seq + 1 ELSE seq,
         acks |-> IF closes THEN 0 ELSE acks - owed,
         transit |-> transit + DataOf(gone),
         more |-> CASE outU # <<>>  -> u.rest # <<>>
                    [] outU = <<>> /\ queue # <<>> -> ReliableRemain(queue, owed, owed, transit)
                    [] outU = <<>> /\ queue = <<>> -> owed < acks]

\* A pass makes the datagram d.
Datagram(d) ==
    /\ d.seq <= MaxIds
    /\ state' = IF d.closes THEN "DISCONNECTING" ELSE state
    /\ outR' = d.left /\ sentR' = d.sent /\ outU' = d.rest
    /\ seq' = d.seq /\ acks' = d.acks /\ inTransit' = d.transit
    /\ earliest' = EarliestNow
    /\ counter' = d.counter
    /\ at' = CASE ~d.more -> "app" [] d.more /\ at = "flush" -> "flush" [] OTHER -> "send"
    /\ polled' = (polled \/ (~d.more /\ at # "flush"))
    /\ first' = [i \in Ids |->
                   IF first[i] = 0 /\ \E m \in Range(d.gone) : m.id = i THEN now ELSE first[i]]
    /\ stale' = (stale \/ \E m \in Range(ExpiredNow) : m.type = "CONNECT")
    /\ UNCHANGED <<now, window, answer>>

\* _gekkota_xudp_send, one datagram of it.
Send ==
    /\ Active
    /\ ~GivesUp
    /\ \E throttle \in Throttles, rto \in Rtos, quiet \in BOOLEAN :
         Datagram(Filled(throttle, rto, quiet))

\* ... or a message has been resent too often, and nothing of the rest happens.
GiveUp ==
    /\ Active
    /\ GivesUp
    /\ state' = "GONE"
    /\ earliest' = EarliestNow
    /\ at' = "app" /\ polled' = TRUE
    /\ UNCHANGED <<now, outR, sentR, outU, inTransit, window, counter, acks, seq, first,
                   answer, stale>>

\* gekkota_xudp_flush: the pass that follows looks for no time-outs.
Flush ==
    /\ at = "app" /\ Active
    /\ at' = "flush"
    /\ UNCHANGED <<state, now, outR, sentR, outU, inTransit, window, earliest, counter, acks,
                   polled, seq, first, answer, stale>>

-----------------------------------------------------------------------------
(* The peer.                                                               *)

\* A reliable message comes in and is to be acknowledged.
OweAck ==
    /\ at = "app" /\ state \in {"CONNECTED", "DELAYING_DISCONNECT"}
    /\ acks < MaxAcks
    /\ acks' = acks + 1
    /\ UNCHANGED <<state, now, outR, sentR, outU, inTransit, window, earliest, counter, at,
                   polled, seq, first, answer, stale>>

\* _gekkota_xudp_dispose_acknowledged_message.
Disposed(i) ==
    LET there == {j \in DOMAIN sentR : sentR[j].id = i}
    IN  [sent |-> Those(sentR, DOMAIN sentR \ there),
         transit |-> inTransit - DataOf(Those(sentR, there))]

\* The acknowledgement of the message i, which left at least once, arrives,
\* perhaps not for the first time (_gekkota_xudp_on_acknowledge_message).
Acknowledge(i) ==
    LET d == Disposed(i)
        closes == Closes(outR, d.sent, outU)
        closed == /\ state = "DISCONNECTING"
                  /\ \E j \in DOMAIN sentR : sentR[j].id = i /\ sentR[j].type = "DISCONNECT"
    IN  /\ at = "app"
        /\ state \in {"CONNECTED", "DELAYING_DISCONNECT", "DISCONNECTING"}
        /\ first[i] # 0 /\ i # 1
        /\ closes => seq < MaxIds
        /\ sentR' = d.sent
        /\ inTransit' = d.transit
        /\ earliest' = 0
        /\ state' = IF closes THEN "DISCONNECTING" ELSE IF closed THEN "CLOSED" ELSE state
        /\ outR' = IF closes THEN Closing(seq + 1) ELSE outR
        /\ seq' = IF closes THEN seq + 1 ELSE seq
        /\ acks' = IF closes THEN 0 ELSE acks
        /\ answer' = now
        /\ stale' = FALSE
        /\ UNCHANGED <<now, outU, window, counter, at, polled, first>>

\* VALIDATE_CONNECT arrives: it takes CONNECT out as an acknowledgement would,
\* but leaves earliestTimeout as it is.  The window it brings may be smaller.
Validate ==
    /\ at = "app" /\ state = "CONNECTING"
    /\ first[1] # 0
    /\ state' = "CONNECTED"
    /\ sentR' = Disposed(1).sent
    /\ inTransit' = Disposed(1).transit
    /\ \E w \in Windows : window' = Smaller(w, window)
    /\ answer' = now
    /\ UNCHANGED <<now, outR, outU, earliest, counter, acks, at, polled, seq, first, stale>>

\* CONFIGURE_BANDWIDTH arrives: the window is what the bandwidth of the peer, or
\* that of the host, allows from now on, however much is in transit.  The message is
\* acknowledged but while DISCONNECTING.
ConfigureBandwidth ==
    /\ at = "app" /\ Active /\ state # "CONNECTING"
    /\ window' \in Windows
    /\ IF state = "DISCONNECTING" THEN acks' = acks ELSE acks < MaxAcks /\ acks' = acks + 1
    /\ UNCHANGED <<state, now, outR, sentR, outU, inTransit, earliest, counter, at, polled,
                   seq, first, answer, stale>>

\* Time passes; the application polls at least once in a tick.
Tick ==
    /\ Active /\ at = "app" /\ polled
    /\ now < MaxTime
    /\ now' = now + 1
    /\ polled' = FALSE
    /\ UNCHANGED <<state, outR, sentR, outU, inTransit, window, earliest, counter, acks, at,
                   seq, first, answer, stale>>

-----------------------------------------------------------------------------

\* gekkota_xudp_connect_3 has queued CONNECT, message 1.
Init ==
    /\ state = "CONNECTING" /\ now = 1
    /\ outR = <<New(1, "CONNECT", 0)>> /\ seq = 1
    /\ sentR = <<>> /\ outU = <<>>
    /\ inTransit = 0 /\ earliest = 0 /\ counter = 0 /\ acks = 0 /\ window \in Windows
    /\ at = "app" /\ polled = FALSE
    /\ first = [i \in Ids |-> 0] /\ answer = 0 /\ stale = FALSE

Next ==
    \/ SendReliable \/ SendUnreliable \/ Control \/ CloseLater
    \/ Send \/ GiveUp \/ Flush \/ OweAck \/ Validate \/ ConfigureBandwidth \/ Tick
    \/ \E i \in Ids : Acknowledge(i)

Spec == Init /\ [][Next]_vars

-----------------------------------------------------------------------------
(* Properties.                                                             *)

Pending == sentR \o outR

\* Every variable has its type; no counter of data goes below zero.
TypeOK ==
    /\ state \in {"CONNECTING", "CONNECTED", "DELAYING_DISCONNECT", "DISCONNECTING", "GONE", "CLOSED"}
    /\ now \in Nat /\ earliest \in Nat /\ inTransit \in Nat /\ acks \in Nat
    /\ outR \in Seq(Outgoing) /\ sentR \in Seq(Outgoing)
    /\ outU \in Seq(Datagrams)
    /\ counter \in 0..(ThrottleScale - 1)
    /\ window \in Windows
    /\ at \in {"app", "send", "flush"} /\ polled \in BOOLEAN /\ stale \in BOOLEAN
    /\ seq \in 0..MaxIds
    /\ first \in [Ids -> Nat] /\ answer \in Nat

\* reliableDataInTransit is the data of the messages that were sent and neither
\* acknowledged nor taken back for a resend, after any mixture of the three,
\* by poll or by flush.
InTransitIsSent == inTransit = DataOf(sentR)

\* No datagram that takes reliable data, for the first time or again, leaves more
\* of it in transit than the window that holds then.  (The window can be set to
\* less than what is in transit: none goes until that much has been
\* acknowledged, or taken back as expired.)
WindowIsKept ==
    [][(\E m \in Range(sentR') \ Range(sentR) : m.data # 0) => inTransit' <= window]_vars

\* Every message is queued once, in the one list or the other; messages leave
\* for the first time in the order of their sequence numbers, however many
\* resends and full windows come between.
LeavesInOrder ==
    /\ IsInjective([i \in DOMAIN Pending |-> Pending[i].id])
    /\ \A i, j \in Ids : i < j /\ first[j] # 0 => first[i] # 0 /\ first[i] <= first[j]

\* A peer is given up only if it left some message, still unacknowledged,
\* without an answer for MinTimeout, whatever else expired meanwhile.  (Not so
\* after a handshake whose CONNECT expired: earliestTimeout dates from then until
\* the first acknowledgement, and one lost message ends the connection.)
GivenUpForSilence ==
    [][state # "GONE" /\ state' = "GONE" =>
         \/ stale
         \/ \E i \in DOMAIN Pending :
              first[Pending[i].id] # 0 /\ now - first[Pending[i].id] >= MinTimeout]_vars

\* A peer that answers nothing is given up: no message is unanswered for longer
\* than the time-outs add up to.
SilenceIsNoticed ==
    Active /\ polled /\ at = "app" =>
        \A i \in DOMAIN Pending :
            LET m == Pending[i]
            IN  first[m.id] # 0 /\ answer < first[m.id] =>
                    now - first[m.id] < MaxTimeout + m.rto

\* A delayed close always has something to wait for: whichever queue runs empty
\* last, its end starts the close.
DelayedCloseIsDue ==
    state = "DELAYING_DISCONNECT" => ~Drained(outR, sentR, outU)

\* What a pass has still to do.  (An acknowledgement counts twice: the PING that
\* takes the place of a message it kept out is no way back.)
Backlog == Len(outR) + Len(outU) + 2 * acks

\* Sending ends: a datagram asks for another one only if it took something.  No
\* message is too long for a datagram of its own, as the pieces of a packet are
\* cut, and none that the window holds back asks for one.
PassEnds == [][at # "app" /\ at' = at => Backlog' < Backlog]_vars
=============================================================================
