------------------------------- MODULE Polling -------------------------------
(***************************************************************************)
(* One call of gekkota_xudp_poll after another, on a host with several     *)
(* clients: what a round does and when it ends, which client's event is    *)
(* returned, and how long a call lasts.  (What two hosts say to each other *)
(* is module XudpConnection, where a host has one client.)                 *)
(*                                                                         *)
(* A packet that waits in a channel is one that may be delivered; a        *)
(* datagram holds one message, whose kind and client are chosen when it is *)
(* read.  Time goes by only while the host waits for its socket or works   *)
(* through a round, and in milliseconds of which a day has PollDay.        *)
(***************************************************************************)
EXTENDS Naturals, Integers

CONSTANTS
    PeerCount,     \* xudp->clientCount
    ChannelCount,  \* channels of a client
    MaxWaiting,    \* bound: packets that wait in one channel
    MaxInbox,      \* bound: datagrams that wait in the socket
    PollDay,       \* GEKKOTA_TIME_OVERFLOW
    Timeouts,      \* time-outs poll() is called with; -1: until an event
    MaxElapsed     \* bound: how long one call is followed

ASSUME PollAssumption ==
    /\ PeerCount \in Nat \ {0} /\ ChannelCount \in Nat \ {0}
    /\ MaxWaiting \in Nat /\ MaxInbox \in Nat /\ MaxElapsed \in Nat
    /\ PollDay \in Nat \ {0} /\ Timeouts \subseteq Nat \cup {-1}

VARIABLES
    peer,        \* the slots of the host
    serviced,    \* lastServicedClient
    inbox,       \* datagrams in the socket
    stage,       \* where the call is
    asked,       \* the call: is it given a place for an event, and its time-out
    elapsed,     \* currentTime - the time the call began
    passed,      \* history: times each peer was served while each other waited
    returned       \* what the last call returned: 0, "nothing", or 1, with an event or not

pollVars == <<peer, serviced, inbox, stage, asked, elapsed, passed, returned>>

Peers == 1..PeerCount
PeerChannels == 1..ChannelCount
Stages == {"app", "send", "receive", "again", "dispatch", "wait"}

\* "acknowledging" and "connecting" are handshakes under way, begun by the peer and
\* by the host; "closing" are DISCONNECTING and ACKNOWLEDGING_DISCONNECT; "pending"
\* and "succeeded" wait for their CONNECT to be told, "zombie" for its DISCONNECT.
PeerStates == {"free", "acknowledging", "connecting", "pending", "succeeded", "connected",
               "closing", "zombie"}
Unfree == PeerStates \ {"free", "zombie"}

PollTypeOK ==
    /\ peer \in [Peers -> [state : PeerStates, waiting : [PeerChannels -> 0..MaxWaiting]]]
    /\ serviced \in Peers /\ inbox \in 0..MaxInbox /\ stage \in Stages
    /\ asked \in [sink : BOOLEAN, timeout : Timeouts \cup {-1}]
    /\ elapsed \in 0..MaxElapsed
    /\ passed \in [Peers \X Peers -> 0..2]
    /\ returned \in {"event", "silent", "nothing"}

NoPackets == [i \in PeerChannels |-> 0]
FreePeer == [state |-> "free", waiting |-> NoPackets]

PollInit ==
    /\ peer = [p \in Peers |-> FreePeer]
    /\ serviced = 1 /\ inbox = 0 /\ stage = "app"
    /\ asked = [sink |-> TRUE, timeout |-> -1]
    /\ elapsed = 0
    /\ passed = [d \in Peers \X Peers |-> 0]
    /\ returned = "event"

-----------------------------------------------------------------------------
(* The turn of the clients.                                                *)

Waits(p) == peer[p].state = "connected" /\ peer[p].waiting # NoPackets
HasEvent(p) == peer[p].state \in {"pending", "succeeded", "zombie"} \/ Waits(p)

\* Mutant: the turn begins at the first slot.
DistanceFromFirst(p) == p

\* How many slots after the one serviced last a slot comes: that one is the last.
Distance(p) == (p - serviced - 1) % PeerCount

\* Mutant: the turn ends before the slot it began at.
NextInTurnButLast ==
    {p \in Peers \ {serviced} : HasEvent(p) /\
        \A q \in Peers \ {serviced} : HasEvent(q) => Distance(p) <= Distance(q)}

\* The slot whose event is next, if there is any.
NextInTurn == {p \in Peers : HasEvent(p) /\
                 \A q \in Peers : HasEvent(q) => Distance(p) <= Distance(q)}

\* The first channel with a packet loses it.
PollReceived(w) ==
    LET i == CHOOSE i \in PeerChannels : w[i] > 0 /\ \A j \in PeerChannels : w[j] > 0 => i <= j
    IN  [w EXCEPT ![i] = @ - 1]

\* p was served: so often now while each peer waits that waited before.
Counted(p) ==
    [d \in Peers \X Peers |->
       IF d[1] = p \/ ~Waits(d[1]) THEN 0
       ELSE IF d[2] = p /\ passed[d] < 2 THEN passed[d] + 1 ELSE passed[d]]

\* ... and what peers that are gone waited for is forgotten.
Forgotten(p) == [d \in Peers \X Peers |-> IF d[1] = p THEN 0 ELSE passed[d]]

Returns(is) == stage' = "app" /\ returned' = is

\* _gekkota_xudp_dispatch finds an event: that a peer is connected is told
\* without a turn being taken.
DispatchTo(p) ==
    /\ Returns("event")
    /\ CASE peer[p].state \in {"pending", "succeeded"} ->
              /\ peer' = [peer EXCEPT ![p].state = "connected"]
              /\ UNCHANGED <<serviced, passed>>
         [] peer[p].state = "zombie" ->
              /\ peer' = [peer EXCEPT ![p] = FreePeer]
              /\ serviced' = p /\ passed' = Counted(p)
         [] OTHER ->
              /\ peer' = [peer EXCEPT ![p].waiting = PollReceived(@)]
              /\ serviced' = p /\ passed' = Counted(p)

-----------------------------------------------------------------------------
(* A call.                                                                 *)

\* gekkota_time_compare.
TimeCompare(t, u) == IF t - u >= PollDay THEN -1 ELSE IF u - t >= PollDay THEN 1 ELSE 0

\* gekkota_xudp_poll is called: what is left of former rounds is returned first.
Poll(sink, timeout) ==
    /\ stage = "app"
    /\ asked' = [sink |-> sink, timeout |-> timeout]
    /\ elapsed' = 0
    /\ \/ /\ sink
          /\ \E p \in NextInTurn : DispatchTo(p)
       \/ /\ ~sink \/ NextInTurn = {}
          /\ stage' = "send" /\ returned' = "event"
          /\ UNCHANGED <<peer, serviced, passed>>
    /\ UNCHANGED inbox

\* _gekkota_xudp_notify_disconnect: the application is told now, or later, or, if it
\* was not told that there is a peer, never.
IsTold(p) == peer[p].state \notin {"acknowledging", "pending"}
Ended(p) == IF asked.sink \/ ~IsTold(p) THEN "free" ELSE "zombie"

\* What a message may make of a peer, but for the answer to a close:
\* _gekkota_xudp_notify_connect, a refusal, and the handler of DISCONNECT.
Becomes(p) ==
    CASE peer[p].state = "free" -> {"acknowledging"}
      [] peer[p].state = "acknowledging" -> {IF asked.sink THEN "connected" ELSE "pending", "free"}
      [] peer[p].state = "connecting" ->
           {IF asked.sink THEN "connected" ELSE "succeeded", "free", "zombie"}
      [] peer[p].state = "pending" -> {"free"}
      [] peer[p].state = "succeeded" -> {"zombie"}
      [] peer[p].state = "connected" -> {"closing", "zombie"}
      [] peer[p].state = "closing" -> {"free"}
      [] OTHER -> {}

\* gekkota_xudp_connect and gekkota_xudpclient_close, between two calls.
Application(p) ==
    /\ stage = "app"
    /\ \/ peer[p].state = "free" /\ peer' = [peer EXCEPT ![p].state = "connecting"]
       \/ peer[p].state = "connected" /\ peer' = [peer EXCEPT ![p] = [FreePeer EXCEPT !.state = "closing"]]
    /\ passed' = Forgotten(p)
    /\ returned' = "event"
    /\ UNCHANGED <<serviced, inbox, stage, asked, elapsed>>

\* _gekkota_xudp_send, before and after the socket is read: messages leave, and a
\* peer that did not answer for too long is given up, which ends the call.
PollSend ==
    /\ stage \in {"send", "again"}
    /\ \/ /\ stage' = IF stage = "send" THEN "receive" ELSE "dispatch"
          /\ UNCHANGED <<peer, passed, returned>>
       \/ \E p \in Peers :
            /\ peer[p].state \in Unfree
            /\ peer' = [peer EXCEPT ![p] = [FreePeer EXCEPT !.state = Ended(p)]]
            /\ passed' = Forgotten(p)
            /\ Returns(IF IsTold(p) /\ asked.sink THEN "event" ELSE "silent")
       \/ \E p \in Peers :
            /\ peer[p].state = "closing"
            /\ peer' = [peer EXCEPT ![p].state = "zombie"]
            /\ UNCHANGED <<stage, passed, returned>>
    /\ UNCHANGED <<serviced, inbox, asked, elapsed>>

\* A message from p is read.  It ends the call if it makes an event and was given a
\* place for it.
Heard(p, to, event) ==
    /\ peer' = [peer EXCEPT ![p] = [FreePeer EXCEPT !.state = to]]
    /\ passed' = Forgotten(p)
    /\ IF asked.sink /\ event
       THEN Returns("event") ELSE UNCHANGED <<stage, returned>>

\* _gekkota_xudp_receive, a datagram at a time.
PollReceive ==
    /\ stage = "receive"
    /\ \/ /\ inbox > 0
          /\ inbox' = inbox - 1
          /\ \/ \E p \in Peers, i \in PeerChannels :
                  /\ peer[p].state = "connected" /\ peer[p].waiting[i] < MaxWaiting
                  /\ peer' = [peer EXCEPT ![p].waiting[i] = @ + 1]
                  /\ UNCHANGED <<stage, passed, returned>>
             \/ \E p \in Peers : \E to \in Becomes(p) : Heard(p, to, to = "connected")
             \/ \E p \in Peers : peer[p].state = "closing" /\ Heard(p, Ended(p), TRUE)
             \/ UNCHANGED <<peer, stage, passed, returned>>
       \/ /\ inbox = 0 /\ stage' = "again"
          /\ UNCHANGED <<peer, inbox, passed, returned>>
    /\ UNCHANGED <<serviced, asked, elapsed>>

\* The end of a round: what it received is returned, or it was the last, or the
\* host waits for its socket.
EndOfRound ==
    /\ stage = "dispatch"
    /\ IF asked.sink /\ NextInTurn # {}
       THEN \E p \in NextInTurn : DispatchTo(p)
       ELSE /\ IF asked.timeout > -1 /\ TimeCompare(elapsed, asked.timeout) >= 0
               THEN Returns("nothing")
               ELSE stage' = "wait" /\ UNCHANGED returned
            /\ UNCHANGED <<peer, serviced, passed>>
    /\ UNCHANGED <<inbox, asked, elapsed>>

\* gekkota_socket_poll: until there is something to read, or for a second.  (With
\* a time-out of 0 or more the host comes here a day too late, waits for a negative
\* time, which is for ever, and so never returns from behind the loop.)
Wait ==
    /\ stage = "wait"
    /\ inbox > 0 \/ asked.timeout = -1
    /\ stage' = "send"
    /\ UNCHANGED <<peer, serviced, inbox, asked, elapsed, passed, returned>>

Arrive ==
    /\ inbox < MaxInbox /\ inbox' = inbox + 1
    /\ UNCHANGED <<peer, serviced, stage, asked, elapsed, passed, returned>>

\* Time matters in a call that is to end.
TimeGoesBy ==
    /\ stage \in {"receive", "wait"} /\ asked.timeout > -1
    /\ elapsed < MaxElapsed /\ elapsed' = elapsed + 1
    /\ UNCHANGED <<peer, serviced, inbox, stage, asked, passed, returned>>

PollNext ==
    \/ \E sink \in BOOLEAN, timeout \in Timeouts : Poll(sink, timeout)
    \/ \E p \in Peers : Application(p)
    \/ PollSend \/ PollReceive \/ EndOfRound \/ Wait \/ Arrive \/ TimeGoesBy

PollSpec == PollInit /\ [][PollNext]_pollVars

-----------------------------------------------------------------------------
(* Properties.                                                             *)

\* While a packet of one client waits, no other client is served twice, whatever
\* comes in between: connections, losses, and calls that ask for no event.
TurnsAreFair == \A d \in Peers \X Peers : passed[d] < 2

\* A call that was to return an event and returns that there is none leaves none
\* behind: no packet, no connection that was made or lost.
NothingIsLeft == returned = "nothing" /\ asked.sink => \A p \in Peers : ~HasEvent(p)

\* "If [timeout] is greater than 0, then wait at least [timeout] milliseconds for an
\* event to occur on the underlying socket", gekkota_xudp.c:841.
WaitsForItsTimeout == returned = "nothing" => elapsed >= asked.timeout
=============================================================================
