------------------------------- MODULE Channel -------------------------------
(***************************************************************************)
(* One channel of a connected client, from gekkota_xudpclient_send() of    *)
(* one host to gekkota_xudpclient_receive() of the other: sequence numbers *)
(* that wrap, fragmentation and reassembly, the two incoming queues, and   *)
(* the window of unsequenced groups.                                       *)
(*                                                                         *)
(* The network delivers a message any number of times, in any order, or    *)
(* not at all, while fewer than Window newer packets have been sent.       *)
(* ("It is almost impossible to have anywhere near to 2e16 packets in      *)
(* flight", gekkota_xudpclient.c:804.)  Payloads are parts of packets: the *)
(* part k of packet i is <<i, k>>.                                         *)
(***************************************************************************)
EXTENDS Naturals, Integers, Sequences, FiniteSets, SequencesExt

CONSTANTS
    Modulus,     \* sequence numbers are uint16_t: 2^16
    High, Low,   \* 0xF000 and 0x1000: the high and the low end of that range
    WindowWords, \* words of unsequencedWindow: 4
    Bits,        \* bits of a word: 32
    Starts,      \* last sequence numbers the channel may have used before
    Fragments,   \* number of fragments of a packet that does not fit the mtu
    Kinds,       \* kinds of packets the application sends
    MaxSent,     \* bound: packets sent
    Window,      \* bound: packets in flight
    MaxQueue     \* bound: messages in one incoming queue (no message comes when
                 \* a queue is that long)

ASSUME NumbersAssumption ==
    /\ Modulus \in Nat /\ High \in Nat /\ Low \in Nat
    /\ 0 < Low /\ Low < High /\ High < Modulus /\ Starts \subseteq 0..(Modulus - 1)
ASSUME WindowAssumption == WindowWords \in Nat \ {0} /\ Bits \in Nat \ {0}
ASSUME SendingAssumption ==
    /\ Fragments \in Nat /\ Fragments > 1
    /\ MaxSent \in Nat /\ Window \in Nat /\ MaxQueue \in Nat
    /\ Kinds \subseteq {"reliable", "fragmented", "unreliable", "unsequenced"}
\* Far fewer packets are in flight than there are numbers (gekkota_xudpclient.c:805: "almost
\* impossible to have anywhere near to 2e16"; the window is 32768 bytes at most).
ASSUME FlightAssumption == Window * Fragments <= High - Low

VARIABLES
    outRel, outUnrel,  \* outgoing(Un)reliableSequenceNumber of the channel
    outGroup,          \* outgoingUnsequencedGroup of the client
    inRel, inUnrel,    \* incoming(Un)reliableSequenceNumber
    inGroup, window,   \* incomingUnsequencedGroup; bits set in unsequencedWindow
    relQ, unrelQ,      \* incoming(Un)reliableMessages
    net,               \* messages sent
    result,            \* what the last message handler returned
    sent,              \* history: the kinds of the packets sent
    got                \* history: the packets received, <<id, parts>>

channelVars == <<outRel, outUnrel, outGroup, inRel, inUnrel, inGroup, window, relQ, unrelQ,
                   net, result, sent, got>>

sender == <<outRel, outUnrel, outGroup, net, sent>>

Numbers == 0..(Modulus - 1)
Ids == 1..MaxSent
Parts == Ids \X (0..(Fragments - 1))

Message == [type : {"RELIABLE_DATA", "DATA_FRAGMENT", "UNRELIABLE_DATA", "UNSEQUENCED_DATA"},
            id : Ids,
            seq : Numbers,      \* header.sequenceNumber
            useq : Numbers,     \* unreliableData.sequenceNumber
            group : Numbers,    \* unsequencedData.group
            start : Numbers,    \* dataFragment.startSequenceNumber
            number : 0..(Fragments - 1)]

Incoming == [type : {"RELIABLE_DATA", "DATA_FRAGMENT", "UNRELIABLE_DATA", "UNSEQUENCED_DATA"},
             id : Ids,
             rel : Numbers,         \* reliableSequenceNumber
             unrel : Numbers,       \* unreliableSequenceNumber
             remaining : Int,       \* fragmentsRemaining
             bits : SUBSET (0..(Fragments - 1)),  \* fragments
             parts : SUBSET Parts]  \* packet->data

-----------------------------------------------------------------------------
(* gekkota_xudpclient_send and _gekkota_xudpclient_queue_outgoing_message.  *)

NextNumber(n) == (n + 1) % Modulus

Blank == [type |-> "UNSEQUENCED_DATA", id |-> Len(sent) + 1,
          seq |-> 0, useq |-> 0, group |-> 0, start |-> 0, number |-> 0]

Sends(kind) ==
    /\ kind \in Kinds
    /\ Len(sent) < MaxSent
    /\ sent' = Append(sent, kind)
    /\ UNCHANGED <<inRel, inUnrel, inGroup, window, relQ, unrelQ, result, got>>

SendReliable ==
    /\ Sends("reliable")
    /\ outRel' = NextNumber(outRel)
    /\ net' = net \union {[Blank EXCEPT !.type = "RELIABLE_DATA", !.seq = outRel']}
    /\ UNCHANGED <<outUnrel, outGroup>>

\* All fragments of a packet are queued, each with a sequence number.
SendFragmented ==
    /\ Sends("fragmented")
    /\ outRel' = (outRel + Fragments) % Modulus
    /\ net' = net \union
         {[Blank EXCEPT !.type = "DATA_FRAGMENT", !.start = NextNumber(outRel),
                        !.seq = (outRel + 1 + k) % Modulus, !.number = k]
             : k \in 0..(Fragments - 1)}
    /\ UNCHANGED <<outUnrel, outGroup>>

SendUnreliable ==
    /\ Sends("unreliable")
    /\ outUnrel' = NextNumber(outUnrel)
    /\ net' = net \union {[Blank EXCEPT !.type = "UNRELIABLE_DATA", !.seq = outRel,
                                        !.useq = outUnrel']}
    /\ UNCHANGED <<outRel, outGroup>>

SendUnsequenced ==
    /\ Sends("unsequenced")
    /\ outGroup' = NextNumber(outGroup)
    /\ net' = net \union {[Blank EXCEPT !.group = outGroup']}
    /\ UNCHANGED <<outRel, outUnrel>>

-----------------------------------------------------------------------------
(* _gekkota_xudpclient_queue_incoming_message.                             *)

\* A number at the low end follows those at the high end.
Widen(n, in) == IF in >= High /\ n < Low THEN n + Modulus ELSE n

\* n, widened, is older than what was received so far.
Old(n, in) == n < in \/ (in < Low /\ n % Modulus >= High)

\* The search from the tail of a queue for the place of n.  numbers are the
\* sequence numbers in the queue, and of the positions among that count.  n
\* shrinks for good at the first message at the low end of the range.
Shrunk(n, numbers, among, i) ==
    IF n >= Modulus /\ \E j \in among : j >= i /\ numbers[j] < High THEN n - Modulus ELSE n

\* Mutant: the search stops one message early.
PlaceOneOff(n, numbers, among) ==
    LET stops == {i \in among : numbers[i] < Shrunk(n, numbers, among, i)}
    IN  IF stops = {} THEN 0 ELSE CHOOSE i \in stops : \A j \in stops : j <= i

\* Mutant: no search, every message goes to the tail.
PlaceLast(n, numbers, among) == Len(numbers)

\* The position the search stops at, 0 at the head.
Place(n, numbers, among) ==
    LET stops == {i \in among : numbers[i] <= Shrunk(n, numbers, among, i)}
    IN  IF stops = {} THEN 0 ELSE CHOOSE i \in stops : \A j \in stops : j <= i

\* The message at that position has the number n.
Duplicate(n, numbers, among) ==
    LET p == Place(n, numbers, among)
    IN  p # 0 /\ numbers[p] = Shrunk(n, numbers, among, p)

Rels == [i \in DOMAIN relQ |-> relQ[i].rel]
Unrels == [i \in DOMAIN unrelQ |-> unrelQ[i].unrel]
Unreliables == {i \in DOMAIN unrelQ : unrelQ[i].type = "UNRELIABLE_DATA"}

\* A reliable message, or the first fragment of a packet, is refused (-1).
RefusedReliable(n) ==
    LET w == Widen(n, inRel)
    IN  Old(w, inRel) \/ w = inRel \/ Duplicate(w, Rels, DOMAIN relQ)

\* So is an unreliable message: when it precedes the last reliable one, or the
\* last unreliable one, or is queued already.
RefusedUnreliable(m) ==
    LET w == Widen(m.useq, inUnrel)
    IN  \/ Old(Widen(m.seq, inRel), inRel)
        \/ Old(w, inUnrel) \/ w = inUnrel
        \/ Duplicate(w, Unrels, Unreliables)

QueueReliable(e) ==
    relQ' = InsertAt(relQ, Place(Widen(e.rel, inRel), Rels, DOMAIN relQ) + 1, e)

QueueUnreliable(e) ==
    unrelQ' = InsertAt(unrelQ, Place(Widen(e.unrel, inUnrel), Unrels, Unreliables) + 1, e)

Incame(m, n) ==
    [type |-> m.type, id |-> m.id, rel |-> n, unrel |-> m.useq,
     remaining |-> 0, bits |-> {}, parts |-> {<<m.id, m.number>>}]

-----------------------------------------------------------------------------
(* The message handlers.                                                   *)

\* m arrives, perhaps not for the first time.
Arrives(m, type) ==
    /\ m \in net
    /\ m.type = type
    /\ Len(sent) - m.id < Window
    /\ Len(relQ) < MaxQueue /\ Len(unrelQ) < MaxQueue
    /\ UNCHANGED sender /\ UNCHANGED <<inRel, inUnrel, got>>

\* _gekkota_xudp_on_reliable_data_message.
OnReliable(m) ==
    /\ Arrives(m, "RELIABLE_DATA")
    /\ IF RefusedReliable(m.seq)
       THEN result' = -1 /\ UNCHANGED relQ
       ELSE result' = 0 /\ QueueReliable(Incame(m, m.seq))
    /\ UNCHANGED <<inGroup, window, unrelQ>>

\* _gekkota_xudp_on_unreliable_data_message.
OnUnreliable(m) ==
    /\ Arrives(m, "UNRELIABLE_DATA")
    /\ IF RefusedUnreliable(m)
       THEN result' = -1 /\ UNCHANGED unrelQ
       ELSE result' = 0 /\ QueueUnreliable(Incame(m, m.seq))
    /\ UNCHANGED <<inGroup, window, relQ>>

\* group % GEKKOTA_XUDP_CLIENT_UNSEQUENCED_WINDOW_SIZE, a macro without
\* parentheses: group % 4 * 32.
Index(group) == (group % WindowWords) * Bits

\* _gekkota_xudp_on_unsequenced_data_message.  An unsequenced message goes
\* before all others.
OnUnsequenced(m) ==
    LET i == Index(m.group)
        far == m.group >= inGroup + WindowWords * Bits \/ (inGroup >= High /\ m.group < Low)
    IN  /\ Arrives(m, "UNSEQUENCED_DATA")
        /\ IF ~far /\ (m.group < inGroup \/ i \in window)
           THEN result' = 1 /\ UNCHANGED <<inGroup, window, unrelQ>>
           ELSE /\ inGroup' = IF far THEN (m.group - i) % Modulus ELSE inGroup
                /\ window' = IF far THEN {i} ELSE window \union {i}
                /\ unrelQ' = <<Incame(m, m.seq)>> \o unrelQ
                /\ result' = 0
        /\ UNCHANGED relQ

\* The fragment m is copied to the packet of e, unless it was before.
Copied(e, m) ==
    IF m.number \in e.bits THEN e
    ELSE [e EXCEPT !.remaining = @ - 1, !.bits = @ \union {m.number},
                   !.parts = @ \union {<<m.id, m.number>>}]

\* _gekkota_xudp_on_data_fragment_message.  The packet a fragment belongs to is
\* searched from the tail of the queue; its first fragment makes it.
OnFragment(m) ==
    LET mates == {i \in DOMAIN relQ : relQ[i].type = "DATA_FRAGMENT" /\ relQ[i].rel = m.start}
        mate == CHOOSE i \in mates : \A j \in mates : j <= i
        first == [Incame(m, m.start) EXCEPT !.remaining = Fragments, !.parts = {}]
    IN  /\ Arrives(m, "DATA_FRAGMENT")
        /\ \/ /\ Old(Widen(m.start, inRel), inRel)
              /\ result' = 1 /\ UNCHANGED relQ
           \/ /\ ~Old(Widen(m.start, inRel), inRel)
              /\ mates # {}
              /\ result' = 1
              /\ relQ' = [relQ EXCEPT ![mate] = Copied(@, m)]
           \/ /\ ~Old(Widen(m.start, inRel), inRel)
              /\ mates = {}
              /\ IF RefusedReliable(m.start)
                 THEN result' = -1 /\ UNCHANGED relQ
                 ELSE result' = 1 /\ QueueReliable(Copied(first, m))
        /\ UNCHANGED <<inGroup, window, unrelQ>>

-----------------------------------------------------------------------------
(* gekkota_xudpclient_receive, called for a channel with messages.         *)

\* Mutant: an unreliable message does not wait for the reliable ones before it.
UnreliableReadyAlways == unrelQ # <<>>

\* The head of the unreliable queue can go: it is unsequenced, or belongs after
\* the reliable message received last.
UnreliableReady ==
    /\ unrelQ # <<>>
    /\ Head(unrelQ).type = "UNRELIABLE_DATA" => Head(unrelQ).rel = inRel

\* Mutant: the sequence number of the head is not looked at.
ReliableReadyAnyHead == relQ # <<>> /\ Head(relQ).remaining = 0

\* Mutant: missing fragments are not waited for.
ReliableReadyInParts == relQ # <<>> /\ Head(relQ).rel = NextNumber(inRel)

ReliableReady ==
    /\ relQ # <<>>
    /\ Head(relQ).remaining = 0
    /\ Head(relQ).rel = NextNumber(inRel)

ReceiveUnreliable ==
    LET e == Head(unrelQ)
    IN  /\ UnreliableReady
        /\ unrelQ' = Tail(unrelQ)
        /\ inUnrel' = IF e.type = "UNRELIABLE_DATA" THEN e.unrel ELSE inUnrel
        /\ got' = Append(got, [id |-> e.id, parts |-> e.parts])
        /\ UNCHANGED sender /\ UNCHANGED <<inRel, inGroup, window, relQ, result>>

ReceiveReliable ==
    LET e == Head(relQ)
    IN  /\ ~UnreliableReady
        /\ ReliableReady
        /\ relQ' = Tail(relQ)
        /\ inRel' = IF e.type = "DATA_FRAGMENT" THEN (e.rel + Fragments - 1) % Modulus ELSE e.rel
        /\ got' = Append(got, [id |-> e.id, parts |-> e.parts])
        /\ UNCHANGED sender /\ UNCHANGED <<inUnrel, inGroup, window, unrelQ, result>>

-----------------------------------------------------------------------------

ChannelInit ==
    /\ \E n \in Starts : outRel = n /\ outUnrel = n /\ inRel = n /\ inUnrel = n
    /\ outGroup = 0 /\ inGroup = 0
    /\ window = {} /\ relQ = <<>> /\ unrelQ = <<>>
    /\ net = {} /\ result = 0
    /\ sent = <<>> /\ got = <<>>

Send == SendReliable \/ SendFragmented \/ SendUnreliable \/ SendUnsequenced

Handle(m) == OnReliable(m) \/ OnUnreliable(m) \/ OnUnsequenced(m) \/ OnFragment(m)

Receive == ReceiveUnreliable \/ ReceiveReliable

ChannelNext == Send \/ (\E m \in net : Handle(m)) \/ Receive

ChannelSpec == ChannelInit /\ [][ChannelNext]_channelVars

-----------------------------------------------------------------------------
(* Properties.                                                             *)

\* Every variable has its type; fragmentsRemaining, an unsigned counter, never
\* goes below zero and counts the fragments that are missing.
ChannelTypeOK ==
    /\ {outRel, outUnrel, outGroup, inRel, inUnrel, inGroup} \subseteq Numbers
    /\ window \subseteq 0..(WindowWords * Bits - 1)
    /\ relQ \in Seq(Incoming) /\ unrelQ \in Seq(Incoming)
    /\ net \subseteq Message
    /\ result \in {-1, 0, 1}
    /\ sent \in Seq(Kinds)
    /\ got \in Seq([id : Ids, parts : SUBSET Parts])
    /\ \A i \in DOMAIN relQ :
         relQ[i].type = "DATA_FRAGMENT" => relQ[i].remaining = Fragments - Cardinality(relQ[i].bits)

Ordered == {"reliable", "fragmented"}
Received(i) == \E k \in DOMAIN got : got[k].id = i

\* Reliable packets, whole or fragmented, are received in the order they were
\* sent, without a gap and none twice, however messages were lost, repeated and
\* overtaken, and across the wrap of the sequence numbers.  (For one lap of them: what is
\* queued wrongly at the wrap may be taken, a lap later, for the packet that is next.)
ReliableInOrder ==
    \A j \in DOMAIN got : sent[got[j].id] \in Ordered =>
        /\ \A i \in 1..(j - 1) : sent[got[i].id] \in Ordered => got[i].id < got[j].id
        /\ \A i \in 1..(got[j].id - 1) : sent[i] \in Ordered => Received(i)

\* Every packet is received complete, and made of its own fragments only.
PacketsAreWhole ==
    \A i \in DOMAIN got :
        got[i].parts = {got[i].id} \X
            (IF sent[got[i].id] = "fragmented" THEN 0..(Fragments - 1) ELSE {0})

\* The numbers of the packets sent wrapped on the way.
Count(kind) == Cardinality({i \in DOMAIN sent : sent[i] = kind})
NumbersUsed == Count("reliable") + Fragments * Count("fragmented")
Wrapped == outRel < NumbersUsed \/ outUnrel < Count("unreliable")

\* An unreliable packet is received after all reliable packets sent before it
\* and before those sent after it, and never after a later unreliable one.  (Not so
\* across the wrap of the sequence numbers.)
UnreliableInPlace ==
    ~Wrapped =>
        /\ \A i, j \in DOMAIN got :
             /\ sent[got[i].id] = "unreliable" /\ sent[got[j].id] = "unreliable"
             /\ i < j
             => got[i].id < got[j].id
        /\ \A i, j \in DOMAIN got :
             /\ sent[got[i].id] = "unreliable" /\ sent[got[j].id] \in Ordered
             => (i < j <=> got[i].id < got[j].id)

\* The distance of a queued message from the last one received.
Ahead(e) == (e.rel - inRel) % Modulus

\* The queue of reliable messages is in the order of sending.  (Not so across the
\* wrap, where gekkota_xudpclient.c:833 compares a number that was widened, as
\* gekkota_xudpclient.c:790 says it should be, with numbers that were not.)
QueueInOrder ==
    ~Wrapped => \A i, j \in DOMAIN relQ : i < j => Ahead(relQ[i]) < Ahead(relQ[j])

\* gekkota_xudpclient.c:790: a number that wrapped around is to be treated as "a
\* number greater than 2e16", so that it is queued behind those before the wrap: the
\* packet that is next, if it is queued, is the head, where alone it is looked for.
WrappedIsGreater ==
    \A i \in DOMAIN relQ : relQ[i].rel = NextNumber(inRel) => Head(relQ).rel = NextNumber(inRel)

\* A reliable packet is sent again until it is acknowledged: its messages keep
\* arriving.  The application receives what it can.
FairChannel ==
    /\ WF_channelVars(Receive)
    /\ \A i \in Ids, k \in 0..(Fragments - 1) :
         WF_channelVars(\E m \in net : m.id = i /\ m.number = k /\ (OnReliable(m) \/ OnFragment(m)))

FairSpec == ChannelSpec /\ FairChannel

\* Every reliable packet is received in the end: nothing blocks the head of the
\* queue, neither a missing fragment nor a queued unreliable message.  (Across the wrap
\* a number that is not the next may block it for ever, see WrappedIsGreater.)
ReliableArrives ==
    \A i \in Ids : (i \in DOMAIN sent /\ sent[i] \in Ordered) ~> (Received(i) \/ Wrapped)
=============================================================================
