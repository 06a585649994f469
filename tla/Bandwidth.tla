------------------------------- MODULE Bandwidth -------------------------------
(***************************************************************************)
(* How a host shares its bandwidth among its clients                       *)
(* (_gekkota_xudp_throttle_bandwidth): once in an interval it sets the     *)
(* limit of each client's packet throttle by what the client sent, and,    *)
(* after a change, tells each peer how much it may send.                   *)
(*                                                                         *)
(* Rates and totals are uint32_t, and wrap; the clock is one too, but      *)
(* poll() compares its readings in the wider, signed time_t.               *)
(*                                                                         *)
(* Abstracted: the packet throttle itself, which follows its limit (module *)
(* RoundTrip); multicast groups; the delivery of the shares told           *)
(* (CONFIGURE_BANDWIDTH is a reliable message); the throttle epochs of the *)
(* clients, which only mark those served in the pass that is under way (no *)
(* two passes see the same time).                                          *)
(***************************************************************************)
EXTENDS Integers, FiniteSets, Sums

CONSTANTS
    ClientCount, \* xudp->clientCount
    BandWord,    \* 2^32
    BandDay,     \* GEKKOTA_TIME_OVERFLOW
    Second,      \* GEKKOTA_XUDP_BANDWIDTH_THROTTLE_INTERVAL: ticks of a second
    BandScale,   \* GEKKOTA_XUDP_CLIENT_PACKET_THROTTLE_SCALE
    Sinks,       \* whether poll() is called for an event: TRUE, FALSE
    HostRates,   \* bandwidths an application sets for its host; 0: unlimited
    PeerRates,   \* pairs of bandwidths peers report, incoming and outgoing
    Amounts,     \* amounts of data a client sends
    Clock,       \* what the clock shows first
    BandSteps,   \* by how much it advances
    MaxSteps     \* bound: steps other than the passes

ASSUME CountAssumption == ClientCount \in Nat \ {0}
ASSUME ClockAssumption ==
    /\ BandWord \in Nat /\ BandDay \in 1..(BandWord - 1) /\ Second \in 1..(BandDay - 1)
    /\ Clock \in 0..(BandWord - 1) /\ BandSteps \subseteq Nat /\ MaxSteps \in Nat
ASSUME RateAssumption ==
    /\ BandScale \in 1..(BandWord - 1) /\ Sinks \subseteq BOOLEAN
    /\ HostRates \union Amounts \subseteq 0..(BandWord - 1)
    /\ PeerRates \subseteq (0..(BandWord - 1)) \X (0..(BandWord - 1))

VARIABLES
    instant,       \* what gekkota_time_now() returns
    throttleEpoch, \* bandwidthThrottleEpoch of the host
    inBw, outBw,   \* incomingBandwidth, outgoingBandwidth of the host
    reconf,        \* reconfigureBandwidth
    client,        \* the slots of the host
    overflow,      \* a division by zero ended the program
    steps          \* steps so far

bandVars == <<instant, throttleEpoch, inBw, outBw, reconf, client, overflow, steps>>

BandWords == 0..(BandWord - 1)
Slots == 1..ClientCount
NotTold == -1

\* "free", announced by no event yet ("pending"), CONNECTED or DELAYING_DISCONNECT
\* ("up"), or DISCONNECTING or further on ("closing").  told, able and late are
\* history: the share the peer was told last, its outgoingBandwidth at that time, and
\* whether its connection was announced later than it was made.
Client == [state : {"free", "pending", "up", "closing"},
           inBw : BandWords, outBw : BandWords,  \* of the peer
           data : BandWords,                     \* outgoingDataTotal
           limit : 0..BandScale,                 \* packetThrottleLimit
           told : BandWords \union {NotTold}, able : BandWords, late : BOOLEAN]

FreeClient == [state |-> "free", inBw |-> 0, outBw |-> 0, data |-> 0,
               limit |-> BandScale, told |-> NotTold, able |-> 0, late |-> FALSE]

Up == {c \in Slots : client[c].state = "up"}

Plus(a, b) == (a + b) % BandWord
Minus(a, b) == (a - b) % BandWord
Times(a, b) == (a * b) % BandWord

-----------------------------------------------------------------------------
(* The limits of the packet throttles.                                     *)

Elapsed == Minus(instant, throttleEpoch)
DataSum == Sum([c \in Slots |-> IF c \in Up THEN client[c].data ELSE 0], ClientCount)
DataTotal == DataSum % BandWord
Budget == IF outBw = 0 THEN BandWord - 1 ELSE Times(outBw, Elapsed) \div Second

\* The part of a client: of the incoming bandwidth of the host, for every client.
ClientBandwidth == Times(inBw, Elapsed) \div Second

\* The throttle that fits what is left of the data to what is left of the bandwidth.
ThrottleFor(s) ==
    IF s.data < s.bw THEN BandScale ELSE Times(s.bw, BandScale) \div s.data

\* Mutant: what a client takes is left in the bandwidth.
TakenKept(s, c) ==
    [s EXCEPT !.adjust = TRUE, !.limited = @ \union {c}, !.data = Minus(@, ClientBandwidth)]

\* Mutant: the data of the client, and all the bandwidth it asked for, are taken.
TakenAll(s, c) ==
    [s EXCEPT !.adjust = TRUE, !.limited = @ \union {c},
              !.bw = Minus(@, Times(s.throttle, client[c].data) \div BandScale),
              !.data = Minus(@, client[c].data)]

\* c has a limit of its own.
BandTaken(s, c) ==
    [s EXCEPT !.adjust = TRUE, !.limited = @ \union {c},
              !.bw = Minus(@, ClientBandwidth), !.data = Minus(@, ClientBandwidth)]

\* A client that can receive only so much, and would be sent more than its part.
Exceeds(s, c) ==
    /\ c \in Up \ s.limited
    /\ client[c].inBw # 0
    /\ Times(s.throttle, client[c].data) \div BandScale > ClientBandwidth

\* What the inner loop does at c.
Considered(s, c) == IF Exceeds(s, c) THEN BandTaken(s, c) ELSE s

\* One pass of the outer loop; it is the last if no client exceeds.
Round(s) ==
    IF ~s.adjust \/ s.fault \/ s.limited = Up THEN s
    ELSE IF s.data >= s.bw /\ s.data = 0 THEN [s EXCEPT !.fault = TRUE]
    ELSE LET turn[c \in 0..ClientCount] ==
               IF c = 0 THEN [s EXCEPT !.adjust = FALSE, !.throttle = ThrottleFor(s)]
               ELSE Considered(turn[c - 1], c)
         IN  turn[ClientCount]

Rounds ==
    LET round[k \in 0..(ClientCount + 1)] ==
          IF k = 0
          THEN [bw |-> Budget, data |-> DataTotal, throttle |-> 0, adjust |-> TRUE,
                limited |-> {}, fault |-> FALSE]
          ELSE Round(round[k - 1])
    IN  round[ClientCount + 1]

\* Its part of the bandwidth in parts of the scale, but not nothing.
OwnLimit(c) ==
    LET n == Times(ClientBandwidth, BandScale) \div client[c].data IN IF n = 0 THEN 1 ELSE n

-----------------------------------------------------------------------------
(* The shares of the peers.                                                *)

\* Mutant: what it uses is left in the bandwidth.
ServedKept(s, c) == [s EXCEPT !.adjust = TRUE, !.served = @ \union {c}]

\* A peer that uses less than the share leaves the rest to the others.
Served(s, c) ==
    [s EXCEPT !.adjust = TRUE, !.served = @ \union {c}, !.bw = Minus(@, client[c].outBw)]

\* It does; or nothing is known of its bandwidth.
UsesLess(s, c) ==
    /\ c \in Up \ s.served
    /\ client[c].outBw = 0 \/ client[c].outBw < s.limit

Asked(s, c) == IF UsesLess(s, c) THEN Served(s, c) ELSE s

\* One pass of the outer loop.
Division(s) ==
    IF ~s.adjust \/ s.served = Up THEN s
    ELSE LET turn[c \in 0..ClientCount] ==
               IF c = 0
               THEN [s EXCEPT !.adjust = FALSE, !.limit = s.bw \div Cardinality(Up \ s.served)]
               ELSE Asked(turn[c - 1], c)
         IN  turn[ClientCount]

\* The share; 0 stands for unlimited.
Share ==
    LET division[k \in 0..(ClientCount + 1)] ==
          IF k = 0 THEN [bw |-> inBw, limit |-> 0, adjust |-> inBw # 0, served |-> {}]
          ELSE Division(division[k - 1])
    IN  division[ClientCount + 1].limit

-----------------------------------------------------------------------------
(* _gekkota_xudp_throttle_bandwidth.                                       *)

BandLag(t1, t2) == IF t1 - t2 >= BandDay THEN t2 - t1 ELSE t1 - t2

\* The guard in poll(), and, without the sign, that of the function.
Due == BandLag(instant, throttleEpoch) >= Second /\ Elapsed >= Second

\* The slot c after a pass whose rounds ended in r.
Throttled(c, r) ==
    [client[c] EXCEPT
        !.limit = IF c \notin Up THEN @ ELSE IF c \in r.limited THEN OwnLimit(c) ELSE r.throttle,
        !.told = IF c \in Up /\ reconf THEN Share ELSE @,
        !.able = IF c \in Up /\ reconf THEN client[c].outBw ELSE @,
        !.data = 0]

Throttle ==
    LET r == Rounds
    IN  /\ ~overflow /\ Due
        /\ Up # {}
        /\ overflow' = r.fault
        /\ IF r.fault
           THEN UNCHANGED <<throttleEpoch, reconf, client>>
           ELSE /\ throttleEpoch' = instant
                /\ reconf' = FALSE
                /\ client' = [c \in Slots |-> Throttled(c, r)]
        /\ UNCHANGED <<instant, inBw, outBw, steps>>

-----------------------------------------------------------------------------
(* What goes on between the passes.                                        *)

Step ==
    /\ ~overflow /\ steps < MaxSteps
    /\ steps' = steps + 1
    /\ UNCHANGED overflow

BandTick(d) ==
    /\ Step
    /\ instant' = Plus(instant, d)
    /\ UNCHANGED <<throttleEpoch, inBw, outBw, reconf, client>>

\* gekkota_xudp_set_incoming_bandwidth.
SetIncoming(n) ==
    /\ Step
    /\ inBw' = n /\ reconf' = TRUE
    /\ UNCHANGED <<instant, throttleEpoch, outBw, client>>

\* gekkota_xudp_set_outgoing_bandwidth.
SetOutgoing(n) ==
    /\ Step
    /\ outBw' = n /\ reconf' = TRUE
    /\ UNCHANGED <<instant, throttleEpoch, inBw, client>>

\* A handshake ends in the slot c; the peer reported its bandwidths.
Connects(c, rates, sink) ==
    /\ Step
    /\ client[c].state = "free"
    /\ client' = [client EXCEPT ![c] = [FreeClient EXCEPT !.state = IF sink THEN "up" ELSE "pending",
                                                    !.inBw = rates[1], !.outBw = rates[2]]]
    /\ reconf' = TRUE
    /\ UNCHANGED <<instant, throttleEpoch, inBw, outBw>>

\* _gekkota_xudp_dispatch announces it; the flag stays as it is.
Announced(c) ==
    /\ Step
    /\ client[c].state = "pending"
    /\ client' = [client EXCEPT ![c].state = "up", ![c].late = TRUE]
    /\ UNCHANGED <<instant, throttleEpoch, inBw, outBw, reconf>>

\* A message is queued for c: _gekkota_xudpclient_queue_outgoing_message.
DataSent(c, n) ==
    /\ Step
    /\ client[c].state # "free"
    /\ client' = [client EXCEPT ![c].data = Plus(@, n)]
    /\ UNCHANGED <<instant, throttleEpoch, inBw, outBw, reconf>>

\* _gekkota_xudp_on_configure_bandwidth_message.
Reports(c, rates) ==
    /\ Step
    /\ client[c].state \in {"up", "closing"}
    /\ client' = [client EXCEPT ![c].inBw = rates[1], ![c].outBw = rates[2]]
    /\ UNCHANGED <<instant, throttleEpoch, inBw, outBw, reconf>>

\* _gekkota_xudpclient_close_gracefully, or DISCONNECT comes in.
CloseBegins(c) ==
    /\ Step
    /\ client[c].state = "up"
    /\ client' = [client EXCEPT ![c].state = "closing"]
    /\ UNCHANGED <<instant, throttleEpoch, inBw, outBw, reconf>>

\* The peer's answer, or its silence, ends the connection
\* (_gekkota_xudp_notify_disconnect).
Ends(c) ==
    /\ Step
    /\ client[c].state # "free"
    /\ client' = [client EXCEPT ![c] = FreeClient]
    /\ reconf' = TRUE
    /\ UNCHANGED <<instant, throttleEpoch, inBw, outBw>>

\* The application destroys a client: the flag stays as it is.
Destroys(c) ==
    /\ Step
    /\ client[c].state # "free"
    /\ client' = [client EXCEPT ![c] = FreeClient]
    /\ UNCHANGED <<instant, throttleEpoch, inBw, outBw, reconf>>

BandInit ==
    /\ instant = Clock /\ throttleEpoch = 0
    /\ inBw = 0 /\ outBw = 0
    /\ reconf = FALSE
    /\ client = [c \in Slots |-> FreeClient]
    /\ overflow = FALSE /\ steps = 0

BandNext ==
    \/ Throttle
    \/ \E d \in BandSteps : BandTick(d)
    \/ \E n \in HostRates : SetIncoming(n) \/ SetOutgoing(n)
    \/ \E c \in Slots :
         \/ \E r \in PeerRates : Reports(c, r) \/ \E sink \in Sinks : Connects(c, r, sink)
         \/ \E n \in Amounts : DataSent(c, n)
         \/ Announced(c) \/ CloseBegins(c) \/ Ends(c) \/ Destroys(c)

BandSpec == BandInit /\ [][BandNext]_bandVars

-----------------------------------------------------------------------------
(* Properties.                                                             *)

\* Every variable has its type: no limit goes beyond the scale.
BandTypeOK ==
    /\ instant \in BandWords /\ throttleEpoch \in BandWords
    /\ inBw \in BandWords /\ outBw \in BandWords
    /\ reconf \in BOOLEAN /\ overflow \in BOOLEAN
    /\ client \in [Slots -> Client]
    /\ steps \in 0..MaxSteps

\* A product of the pass does not fit a word, as after a long time without clients,
\* when no pass took place and the epoch stayed.
Overflows ==
    \/ outBw * Elapsed >= BandWord \/ inBw * Elapsed >= BandWord
    \/ outBw # 0 /\ Budget * BandScale >= BandWord
    \/ ClientBandwidth * BandScale >= BandWord
    \/ DataSum * BandScale >= BandWord

\* The data totals and the bandwidth that are left never meet at zero: only an
\* overflow makes a pass divide by zero.
FaultIsOverflow == overflow => Overflows

\* What the limits let through of the data of the last interval fits the outgoing
\* bandwidth, whoever was given a limit of its own in whatever round.  (Except for
\* a limit of 1, which is given for want of a smaller one.)
RateFits ==
    [][Throttle /\ ~Overflows /\ ~overflow' /\ outBw # 0 =>
         Sum([c \in Slots |-> IF c \in Up /\ client'[c].limit > 1
                              THEN (client'[c].limit * client[c].data) \div BandScale ELSE 0],
             ClientCount) <= Budget]_bandVars

\* Unless the shares are to be divided again, every connected peer was told one,
\* and what the peers then use together fits the incoming bandwidth: after any
\* number of peers that came, went, and reported other bandwidths.  (Peers must
\* have reported one, and a share of 0 would say unlimited.  A connection announced
\* by a later poll does not ask for a division, and may be left without a share.)
SharesFit ==
    ~reconf =>
        /\ \A c \in Up : client[c].told # NotTold \/ client[c].late
        /\ inBw >= Cardinality(Up) /\ (\A c \in Up : client[c].able # 0) =>
             Sum([c \in Slots |-> IF c \notin Up \/ client[c].told = NotTold THEN 0
                                  ELSE IF client[c].able < client[c].told THEN client[c].able
                                  ELSE client[c].told], ClientCount) <= inBw
=============================================================================
