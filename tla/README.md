# Gekkota in TLA+

Gekkota is a C library for reliable UDP: a host (`GekkotaXudp`) owns one socket
and a table of clients (`GekkotaXudpClient`), one per remote host or multicast group.
The application calls the library from one thread; everything happens inside its
calls, most of it inside `gekkota_xudp_poll()`.  There are no threads, no
callbacks and no persistent state: what is hard is the protocol between two
hosts over a network that loses, repeats and reorders datagrams, the arithmetic of
counters and times that wrap, and who owns which packet,
endpoint and block of memory.

Paths below are relative to `src/src/gekkota/`.

## The system

| Component | State | Operations | Hard because | Module |
|---|---|---|---|---|
| connection: `gekkota_xudp.c`, `gekkota_xudpclient.c` | state of the client, ids, queues of reliable messages, acknowledgements, the event of the poll under way | connect, poll (dispatch, send, receive), ping, send, flush, three ways to close, destroy | two state machines over a lossy network; results of handlers decide what is acknowledged; slots, session ids and sequence numbers are used again | `XudpConnection` |
| channels | 2 x 2 sequence numbers, two incoming queues, window of unsequenced groups | send, four data handlers, receive | 16-bit numbers wrap; fragments and repetitions in any order | `Channel` |
| transmission | outgoing, sent and unreliable queues, data in flight, time-outs | one sending pass, time-outs, acknowledgements, delayed close | four resources (datagram, messages, window, throttle) and three lists | `Transmission` |
| round trip, packet throttle | estimates, extremes, throttle | acknowledge, throttle | 16-bit times recovered on a 32-bit clock compared in a 64-bit type | `RoundTrip` |
| bandwidth | rates, totals, limits, shares | one pass each second | unsigned differences and divisions in a loop | `Bandwidth` |
| packets: `gekkota_packet.c`, `gekkota_event.c` | reference counts, flags | new, share, send, broadcast, receive, destroy | one packet is held by several queues, the application and an event, each of which lets go at another time | `Packets` |
| LZF: `gekkota_lzf.c` | hash table; instances shared by level | deflate, inflate, find an instance | lengths and offsets at the limits of their fields; instances counted by clients that come and go | `Lzf`, `Packets` |
| multicast groups | slots in the table, membership of the socket | join, leave, broadcast | a search that ends at the first free slot; what a group may not be sent | `Packets`, `EndPoints` |
| the loop of `poll()`: `gekkota_xudp.c` | the slot served last, the clock of the call | a round of send, receive, dispatch; waiting | whose turn it is to be told, and when a call ends | `Polling` |
| endpoints, addresses, sockets, host entries: `gekkota_ipendpoint.c`, `gekkota_ipaddress.c`, `gekkota_socket*.c`, `gekkota_iphostentry*.c` | reference counts | create, share, give up; everything that keeps the sender of a datagram | an endpoint outlives the datagram it came with in a client, a message or an event, each given up at another time | `EndPoints` |
| lists: `gekkota_list.c` | two words in each node | insert, add, remove, clear | a node's words lie in memory that held something else before | `Lists` |
| memory pool, buffers: `gekkota_memory.c`, `gekkota_buffer.c` | lists of free and of allocated blocks | initialize, uninitialize, alloc, realloc, free | a pool that is empty or too small, a block that is used again uncleared | `Memory` |
| platform and start-up: `gekkota.c`, `gekkota_platform*.c`, `gekkota_module*.c` | modules that are open, their function pointers | initialize, uninitialize | modules that are missing; a loader that fails half-way and starts anew | `Startup` |
| strings, CRC32, network interfaces, Windows and Symbian variants, test programs | none, or the system's | | conversions and I/O | not modelled |

The modules meet where the code does.  `Transmission` gives up a silent peer;
`XudpConnection` has that as an action that may happen at any time while a
reliable message is in flight, and `SilenceIsNoticed` is why it may be assumed to
happen in the end.  The acknowledgement that `XudpConnection` and `Transmission`
handle is the one whose effect on the estimates is `RoundTrip!Acknowledge`;
`Transmission` takes any of a set of time-outs and any throttle instead.
`Bandwidth` sets the limits that `RoundTrip!Limit` receives.  `Channel` assumes
what `Transmission` and `XudpConnection` provide: a reliable message is sent again
until it is acknowledged.  `Packets` takes the order of all of this as arbitrary, and
asks only what each step does to the packets; `EndPoints` does the same for the senders of
datagrams, and `Memory` for the blocks that all of it lies in.  `Polling` is the call that
drives `XudpConnection` and `Transmission` on a host with several clients; what a datagram means to
its client is a choice there.  The lists that the other modules write as sequences are
`Lists`, and `ListsAreSound` is why they may.

## Modules

* `Handshake` - the abstract specification of connecting: a key (two hosts and a
  session) is offered, accepted, validated, established, in that order.
* `XudpConnection` - any number of hosts with one slot each.  A call of the
  application is one action; `poll()` is `PollDispatch` (an event was waiting),
  `PollSend` or `PollGivesUp` (the first send), `Receive` for a datagram, one action per
  message of it (`HandleConnect`, ...), `PollEnd` (second send and dispatch).
  The network is a set of datagrams that only grows, so a datagram is lost by
  never being received, and repeated or overtaken by being received again.  The
  handlers' results, and what `_gekkota_xudp_receive` makes of them, are part of
  each action (`Advance`, `Discarded`, `Handled`, `Failed`).  What the code leaves
  uninitialised or unspecified is a choice: the templates of acknowledgements
  (`tmpl`), the order of flush and destroy in close_gracefully.  The three values of the packet
  throttle are one number (`throttle`), which CONNECT and its answer carry and
  `SetThrottle` changes in any state from connect to the end, as the code allows: an answer that
  does not match it makes the client a ZOMBIE.  Left out is `set_throttle_configuration` of
  a client that is gone already (DISCONNECTED): it would queue a message in a free slot,
  and the next CONNECT of the slot would not be number 1.  An application has no business with such a client.
* `Channel` - one direction of one channel, from send to receive.
* `Transmission` - the sending side of one client; one step makes one datagram.  A pass is one of
  `poll()`, which looks for time-outs, or of `gekkota_xudp_flush()`, which does not.  The window is
  a variable: the answer to CONNECT lowers it, and CONFIGURE_BANDWIDTH sets it anew
  (`ConfigureBandwidth`), also below what is in transit.
* `RoundTrip` - what an acknowledgement does to the estimates of one client.
* `Bandwidth` - one host, its clients, and the pass of
  `_gekkota_xudp_throttle_bandwidth`, each of whose loops is a recursive function.
* `Sums` - the sum of a function over 1..k, for `Transmission` and `Bandwidth`.
* `Packets` - one host: the table of clients and the packets, LZF instances and
  group memberships they share.  Its operators take the host before a call and return the
  host after it, so that a call in the code is an application of an operator.
* `Lzf` - the two loops of `gekkota_lzf.c`, one action for each turn.
* `Polling` - calls of `poll()` on a host with several clients and channels: one action for the
  send of a round, for its reception, for its dispatch, for the end of a round with its
  test of the time, and for the wait; connections come and go in between.
* `EndPoints` - counts of endpoints and addresses, and everyone who may hold one: the
  socket (its local endpoint, the sender of the last datagram), clients, messages that wait,
  events, host entries and the application.  One action for each call or message.
* `Lists` - the links of `gekkota_list.c` as two functions from nodes to words, and
  its operations as operators on them.
* `Memory` - the pool, with its headers and the first words of its data areas as two sets of
  links.  Holders allocate, write, grow, free and queue what they have.  Once the code
  does what C does not define, `fault` names it and the model ends.
* `Startup` - the start and the end of the library: the table of modules gone through as the loader
  does, each feature bound, abandoned or fatal.
* `XudpConnectionProofs`, `HandshakeProofs` (which goes on from it), `TransmissionProofs` (and `Bandwidth`), `PacketsProofs`,
  `EndPointsProofs`, `ChannelProofs`, `LzfProofs`, `HostProofs` (`RoundTrip`, `Startup`, `Polling`, `Memory`, one after the
  other) - theorems.
* `MC...` - constants for the runs.  `MCPackets` lets a host deflate and inflate texts
  while it is empty.  `MCReconnect` is `XudpConnection` twice, with different calls and constants.  `MCHost` (`RoundTrip`, `Channel`, `Memory`, `Startup`), `MCTimeouts`
  (`Transmission`, `Polling`, `Bandwidth`) and `MCTransmission` (`Transmission`, `EndPoints`)
  put modules that share no state side by side: the variable `part`, there and in `MCReconnect`, says
  which of them takes steps, so that their state spaces are added and not multiplied.  Nothing is lost by it,
  since no step and no property of one mentions the state of another.

Operators with "Mutant:" in their comment are not part of a specification.  They are
the small mistakes against which each property was tried: with the operator in place of
the one it stands beside, TLC finds the property violated.

## Runs

| Run | What it shows | Bounds |
|---|---|---|
| `connection` | both hosts connect, with the same session id, then one sends data and the other may close in two ways or destroy its client at once; polls with and without an event pointer: types, and each connection is announced | 2 hosts, 2 control messages, 1 data message and 2 acknowledgements per host, 3 datagrams |
| `reconnect` | *twice*: a host connects, closes and connects again, the other closes or destroys; *configured*: a host connects, and both set the packet throttle at any time: nobody waits for what cannot come, and the handshake implements `Handshake` | two sessions and 2 acknowledgements, or one session, 1 acknowledgement and one value of the throttle other than the first; 2 control messages, 4 datagrams |
| `talking` | data, ping, flush, a throttle configured at any time and delayed close: acknowledgements name one message, and every wait ends | 1 data message, 3 datagrams; fairness, see below |
| `window` | *sending*: the window and its changes, datagrams, throttle, resends, flush, delayed close, and a pass ends; *endpoints*: counts are references, and who is named as a sender is the sender | 4 messages, 1 unreliable packet, 1 acknowledgement, 2 ticks, windows of 4 and 5 and datagrams of 4 units; 2 slots, 1 event, 3 endpoints, 3 addresses, 1 waiting message, 1 lost reference, a host and two groups of one address |
| `timeouts` | *sending*: when a peer is given up; *polling*: clients are served in turn, and a call that returns nothing leaves nothing; *bandwidth*: limits and shares, also after intervals so long that they overflow | 3 messages, 16 ticks, time-outs of 1 and 5; 3 peers, 1 channel, 1 waiting packet, 1 datagram, time-outs of -1, 0 and 1 in days of 2 units, 2 units of waiting; 2 clients, 6 steps, intervals of 1 and 255, words of 1024 |
| `ownership` | counts are holders, headers tell the truth, groups and instances are those of clients; what is deflated is read back | 2 clients, 3 packets, 2 queued messages, 2 groups; texts of up to 8 bytes, and of 20 in runs |
| `host` | *estimates* and throttle on a small clock; *channel*: order, wholeness, and arrival in the end; *memory*: lists stay sound, a block has one holder, a queue holds what was put there; *start-up*: a module is open while someone needs it | 8-bit clock of which 6 bits are sent, starting at 240, 5 ticks of 9 or 30, answers 0, 9 and 31 old, 2 configurations; 3 packets of up to 2 fragments, 5-bit numbers starting at 6, 29 and 30; 2 blocks and 2 holders; 3 starts, 3 modules, the platform's table and one with 4 entries |
| `spins`, `unacknowledged`, `stalls`, `lost`, `early` | end in a violation, see below | as small as the case allows: `lost` has 3 blocks, `early` 2 peers and days of 86400 units |

The bounds are the smallest at which each hazard occurs: two incarnations of a
slot for stale datagrams, two fragments for a packet that is not whole, windows
smaller than the queue and than each other, one client with a limit of its own beside one without, two holders of a
packet and a third packet for what is deflated from it, a third peer for a turn that is
missed, two groups that share an address, as many holders as blocks.  The
mutants show that they are large enough: each property fails under its mutant
within the bounds of its run.  In the runs of `XudpConnection`
an action constraint lets a host handle a datagram to its end before another host
moves; handlers touch nothing but their own host, so the other orders
lead to the same states.  In `configured` the throttle is set to a value that differs from the first; that
setting it to the same one, which no answer can tell, is harmless too follows from the theorems.  In `ownership` a
packet of the application is never broadcast to two peers, since each takes two messages of it and no more than two may
be queued, while one that was received is; `PacketsProofs` covers both.  The tables of modules that the repository
has (`gekkota_platform_unix.c`) have one entry, an optional one; the table of four in `host` is there for
what the loader says it does with several.  `ownership` takes packets to be interchangeable, `lost`
holders (symmetry).  The runs stop at their bounds, so TLC does not look for deadlock; no
call of the code blocks for ever but the one of `spins`.

The sizes that the code fixes are parameters: sequence numbers of 5 bits with their high and
low ends in the same place, a clock of 8 bits of which 6 are sent, LZF bytes of 6 values
of which 2 and 3 belong to the two fields.  The day of `timeouts` is shrunk so far that a
call of `poll()` outlasts it, since the code tells apart only times that are a day apart.

Each module states its types.  Those of `XudpConnection`, `Transmission`, `RoundTrip`, `Packets`, `Channel`,
`Memory` and `Bandwidth` are proved as theorems, those of `Polling`, `Startup` and `Lzf` as parts of the inductive
invariants.

Some properties except a case in so many words, since they fail in it:

* `UnreliableInPlace`, `QueueInOrder` and `ReliableArrives` hold while the sequence
  numbers of what was sent did not wrap.  At the wrap they fail: see `stalls`.
* `ReliableInOrder` and `PacketsAreWhole` hold across the wrap, but not for ever: the packets of `host` stay within
  one lap of the numbers, and the theorems say so.  See `ChannelProofs`.
* `GivenUpForSilence`: after a handshake whose CONNECT expired, `earliestTimeout` keeps that
  time until the first acknowledgement (`gekkota_xudp.c:1667`), and one lost message, much
  later, ends the connection.
* `SharesFit`: a connection announced later than it was made (`gekkota_xudp.c:1050`)
  does not ask for a new division, and may be left without a share.
* `FaultIsOverflow`, `RateFits`: a pass after so long an interval that
  `outgoingBandwidth * elapsedTime` overflows works on an arbitrary budget.
* `TripIsTrue`: answers older than half the range of the 16 bits a time is sent in.
* `EpochIsRenewed`: epochs from before a wrap of the clock, or more than a day old.
* `ConnectIsRepeated`: the moment inside a datagram in which a late acknowledgement of the client that had the
  slot before, put in front of VALIDATE_CONNECT by the peer, takes CONNECT out just before the answer is there.
  The property is about what holds between two datagrams.
* `NoWaitIsForEver`: a host that never returns from its receive loop, see `spins`.
* `HeldOnce`, `QueuesAreTheirs`: what follows a buffer that could not grow
  (`failed`; `gekkota_memory.c:188` gives its block back and the buffer keeps it), and what
  follows a step that C does not define (`fault`).
* `ReferencesAreCounted`: the references the code is known to lose (`lost`): messages cleared
  on closing (`gekkota_xudpclient.c:39`), clients that are no groups (60), an
  event overwritten by the next message of its datagram (`gekkota_xudp.c:1749`).
* `SenderIsKnown`: events whose endpoint is NULL, as that of a DISCONNECT told by
  dispatch is (`gekkota_xudp.c:1059`), for the client is destroyed before.

### Disagreements between code and text

* `spins` - a datagram of a client that is gone keeps the receive loop in place:
  `case 0: continue; /* message discarded */` (`gekkota_xudp.c:2179`) without progress.
* `unacknowledged` - a handler that queued reliable data returns 0, which
  `gekkota_xudp.c:41` calls discarded: the data is not acknowledged.  (The sender
  repeats it, and the repetition is refused with a failure; in the end it gives the peer up.)
* `stalls` - a sequence number that wrapped is to be treated as a greater number
  (`gekkota_xudpclient.c:790`), but the numbers in the queue it is compared with are
  not.  A packet from before the wrap that comes late is queued behind one from after it;
  `gekkota_xudpclient_receive` looks only at the head, which is not the next, and the
  channel delivers no reliable packet any more.
* `lost` - `gekkota_xudp.c:2194` says "If the case, send back an acknowledgement."  The block it
  is made in is not cleared (`gekkota_xudpclient.c:758`), and the list refuses a
  node whose words are not null; nobody looks at the result.  An acknowledgement in a block that was
  used before is neither sent nor freed.  Messages are cleared, and are not lost.
* `early` - with a time-out greater than 0, `poll()` is to "wait at least [timeout] milliseconds
  for an event" (`gekkota_xudp.c:841`), but no two times of one day count as less or
  greater, so that the call returns after its first round, without having waited.

Met on the way, without a run:

* `poll()` may return 1 without an event: `_gekkota_xudp_notify_disconnect` returns without
  one for a client that never was connected (`gekkota_xudp.c:1362`), and the send that gave
  it up reports a time-out (2263).  The test server reads the event nonetheless
  (`gekkota_test_server.c:154`).
* The index into the window of unsequenced groups divides by a macro without parentheses
  (`gekkota_xudp.c:1915`, `gekkota_xudpclient_internal.h:34`), so that one bit stands
  for every fourth group, and a fresh message is dropped as handled.  `Channel!Index` is the
  index as it expands.
* `gekkota_time_compare` (`gekkota_time.c:14`) calls no two times of one day less or
  greater, so that answers from the "future" pass the guard at `gekkota_xudp.c:1399`.
* A group of a port that is not the socket's may be joined twice: the search
  (`gekkota_xudp.c:656`) ends at the first free slot, while its comment (646) says that
  a group that has been joined is refused.
* A packet too long for a group is refused with errno and the result 0
  (`gekkota_xudpclient.c:438`).  A broadcast stops at the first client that refuses
  (`gekkota_xudp.c:442`).  Sending changes the caller's packet: fragmenting makes it reliable,
  which a group refuses, and COMPRESSED is unset when deflating does not pay.
* `gekkota_lzf_get_max_deflated_length` (`gekkota_lzf.c:206`) allows 1.001 n + 12
  bytes, where deflate may write one byte for every 32 more than n.
* `gekkota_buffer_copy` (`gekkota_buffer.c:83`) fails for every value that is not empty.
* A delayed close started inside `_gekkota_xudp_send_unreliable` (`gekkota_xudp.c:2539`)
  gives up packets to whose data the datagram under way still points.
* Nothing in the repository calls `gekkota_memory_initialize`: unless the application does, every
  block comes from malloc, and its pointer is moved by the size of a list node that
  is not there (`gekkota_memory.c:148`).
* `gekkota_iphostentry_unix.c:166` and 222 link nodes in uncleared blocks as well.
* Dispatch looks at the channels of a client from 0 up and stops at the first packet: a
  channel that always has one keeps those after it from being served.
* CONFIGURE_THROTTLE is applied whenever it comes in, also repeated or overtaken: the peer may keep
  the older of two configurations.
* A host is matched by its address only, a group by all of its endpoint.
* `gekkota_socket_accept` tests its descriptor with `!= 0`, and `_gekkota_socket_new` leaks the
  descriptor when an allocation after it fails.
* `gekkota_test_client.c:246` destroys `address` a second time (first: 209).
* NetBSD is given the type of OpenBSD (`gekkota_platform_unix.c:107`), and `gekkota_unix.c`
  calls `gekkota_socket_startup` undeclared.

### Fairness

`talking` assumes that the application polls again and again, that a poll ends
(a network does not repeat datagrams faster than they are read), and that
a peer that stays silent is given up; the last is what `SilenceIsNoticed` checks in
`Transmission`.  `host` (`FairChannel`) assumes that each message of a reliable packet comes
through again and again, since it is resent until it is acknowledged, and that
the application receives what it can.  The code's scheduling is the
application's loop around `poll()`, as in the two test programs; nothing is assumed of the network
but that it does not lose every copy.

## Proofs

Theorems hold for every value of the constants that the ASSUMEs of the modules allow; TLC
evaluates those in every run.  Some theorems have a hypothesis of their own, named below.

**`XudpConnectionProofs`**, for any hosts, sessions, uses and bounds: `TypeCorrectness`,
`WaitsAreForSomething`, `AcksAreUnambiguous`.  The inductive invariant `IInv` adds to the types
`Sound(c)` of every client: which messages a client of each state holds, that numbers in its
queues are distinct and not above their counters, and that queued and sent messages are
disjoint.  `WaitsForAnAnswer` alone is not inductive: without the distinct numbers an
acknowledgement could take out two messages, and without the counters the next number could be
one in use.  The proof goes operator by operator - each lemma says that one step of the code's
helpers keeps a client `Sound` - and then action by action.

**`HandshakeProofs`** puts two hosts and the network side by side.  `HandshakeRefines` is the
refinement: `XudpConnection` implements `Handshake` under the mapping of `HandshakeKept`.  Its invariant
`KInv` (`KeysStayInOrder`) gives every message, acknowledgement and datagram the key it belongs to, a
pair of hosts and a session, and says how far that key must have come for it to exist: a
VALIDATE_CONNECT of a key that was offered and accepted, a client connected only by a key that was
validated, an acknowledgement in front of the message it travels with.  `ConnectStaysPending` follows from
the same invariant.  All three assume `FreshIds`: no call of connect
draws a session id that an earlier call between the same two hosts drew, in whichever direction.  Ids of different
pairs of hosts may be equal, as they are when hosts dial fresh from start, since `rand()` is
seeded nowhere (`gekkota_xudp.c:551`).  `FreshIds` holds as long as one host of each pair dials and
does not restart.  It excludes two hosts that dial each other fresh from start, and a host that restarts and dials the same
peer while datagrams of its former life are on the way: there the properties are false of the code, for a
CONNECT or an acknowledgement of the one session is taken for one of the other.  The constants of `reconnect` satisfy it.  `ConnectionsAreTold`, like the theorems of `XudpConnectionProofs`, needs no such
hypothesis, and `connection` checks it with equal ids: a client that is not yet announced has
received no data (`Ready`), so that the datagram that connects it leaves an event, unless it did before.

**`TransmissionProofs`**, for windows, datagrams, packets, time-outs and queues of any size:
`TypesHold`, `TransitIsSent`, `MessagesLeaveInOrder`, `CloseIsDue`, and the action properties
`WindowKept`, `PassesEnd` and `SilenceGivesUp`.  None of these is inductive alone.  `TransmissionInv` adds

* to the data in flight, that what expires and what is held part the sent messages (`DataSplit`), so that the
  subtraction at a time-out or an acknowledgement takes away what was added;
* to the window, that only a datagram adds to the messages sent (`OnlySendAdds`), and that each message with data that it takes
  fits the window that holds then (`GoneInWindow`).  What is in transit may exceed a window that was lowered since; the
  property says that nothing with data leaves before that is over;
* to the order of leaving, that numbers are single, that a number given out is in the queue until its message
  leaves, and that behind a message that never left are only such, in order: messages that expired are put in
  front, and without this a resend could overtake;
* to the delayed close, that no datagram loses a message (`StillThere`), so that a queue runs empty only where
  the code looks;
* to giving up, that `earliestTimeout` dates from something still pending (`EarliestIsMeant`).  VALIDATE_CONNECT
  is the one message that takes out a message without resetting it; it takes out CONNECT, which is why the
  property excepts a CONNECT that expired and nothing else;
* to the end of a pass, that nothing expires within one (`PassIsFresh`): no message is longer than a
  datagram of its own, so one that stays was kept back by the window, or the datagram took something
  (`FirstFits`, `DatagramTakes`).

The proof follows a datagram through the code: what expired (`ExpiredIs`), the queue it is filled from
(`QueuedIs`), what leaves (`GoneIs`, `GoneInWindow`), the order kept by it (`DatagramOrder`), what stays (`LeftIs`).

The second part of `TransmissionProofs` is about `Bandwidth`, for any number of clients, any width of the words, any
scale, rates, amounts and intervals: `BandTypes`, `NoFaultWithoutOverflow`, `SharesAlwaysFit`, and the action property
`RatesFit`.  What has to be found is what the loops of the pass keep:

* of the limits, `Tallies`: a client with a limit of its own sent more than its part, and, while no
  product wrapped (`Exact`), the two totals are the data and the bandwidth less those parts, and the
  throttle lets through of the data of the others no more than what is left.  Taking the part of a client from both
  totals keeps that (`TakenExact`): it exceeds with the throttle as it is, so what it let through was more than is taken.
  That also shows that no total passes below zero, and why the divisor cannot be zero (`NeverByZero`);
* of the shares, `Even`: what is left and what those who leave the rest do not use is the incoming bandwidth, and the share
  fits, as one for each of the others into what is left and as the share of all into the whole (`ShareFits`);
* between the passes, `SharesKept`: a slot that is free or pending was told nothing, so that a client that is announced
  late, closes or ends adds nothing to what was told (`OneSlotKeeps`).  `SharesFit` alone is not inductive: it says
  nothing of slots that are not connected, and one of those could come with the share of a former peer.

`SumWeighted` compares sums term by term, with weights; it carries the bounds of single clients to all of them.

**`HostProofs`** has four parts that share no state.  *Round trips*, for every width of the clock: `RoundTripTypes` and
`EstimatesBounded` from one invariant (`MeasuredAlways`), that an estimate that is smoothed lies between the
old one and the measured one and the throttle within its limit (part of the types); `TripsAreTrue`, arithmetic of a time sent in fewer bits than the clock has; and
the action property `EpochsAreRenewed`.

*Polling*: `ServedInTurn` and `NothingStaysBehind`, for any number of clients and channels.
`TurnsAreFair` alone is not inductive: what `TurnsAreKept` adds is that a client that was passed over once still has a
packet and is ahead, in the order of turns, of the client served last.

*Start-up*: `ModulesStayHeld`, for any table of modules, any features that are missing and any
number of starts.  The lemmas follow the loop of the loader: after i turns it has opened each module as often as
the handles of the first i loadings say, also if it then fails and goes back.

*Memory*, for any number of blocks and of holders: `ListsStaySound` and `PoolTypeCorrect` rest on
`PoolInv`, which says of each list that its links agree, and of each node whether it is linked, so that what
is removed is in a list and what is added is in none.  Nothing in it depends on who holds a block: the
lists stay sound even when two holders free one block.  `BlocksAreHeldOnce` and `QueuesStayTheirs` need more,
`OwnInv`: the nodes of each list, `ListIs`, have places that grow by one from the sentinel, so that a walk
(`MembersAreList`) meets all of them and comes back; allocatedBlocks is what is held; a queue is what its client
queued.  `LinkSound`, `RemoveSound`, `ListLonger` and `ListShorter` are about lists alone, for any set of
nodes, and the actions cite them.

**`PacketsProofs`**, for any number of clients, packets, levels, groups and messages: `CountsHold`, `HeadersHold`,
`InstancesHold`, `MembersHold` and `TypesHold`, all from one invariant, `IInv` (`InvariantHolds`).  It says of a host
and of the references its callers have (`Outside`: the application's and its event's)

* that each packet is counted by its messages and by those references (`Counted`), which stays meaningful in the middle of a call:
  a lemma about a helper takes the references of its caller as a parameter, and a message on its way from one
  queue to another is one of them for as long;
* that the headers tell (`Tells`), that what is deflated is flagged (`Flagged`), and that no packet somebody
  outside has is deflated (`Plain`).  `HeaderTells` is not inductive without the last: the application could send a
  deflated packet again, unflagged;
* that free slots are as `Reset` left them (`Shape`), that an instance is counted by its clients and alone
  on its level (`InstancesSound`), so that the search for one in `WithLzf` finds it or a free place, and that a membership is that of
  one client (`MembersSound`).

The proof goes operator by operator, as the calls of the code do: each lemma says what a call needs of the host it gets,
and that it touches only packets (`OnlyPackets`), one queue (`OnlyQueue`) or neither instances nor groups
(`KeepsRest`).  Broadcasting and the end of a host, which go through the table, are recursive functions.

**`EndPointsProofs`**, for any number of hosts, groups, clients, messages, events, endpoints and addresses:
`ReferencesCounted` and `SenderKnown`, from one invariant, `Inv` (`ReferencesStaySound`).  Everyone who may have an endpoint - a
client, each message that waits, an event, the socket, the host, the application, and the call under way - has a
place, and a claim at that place: the endpoint, and whom it takes it to name.  `HeapSound(h, W, B)` says of a heap h, of the
claims W and of B, the references to addresses that the call under way has,

* that endpoints are counted by claims and by lost references, and addresses by endpoints and by B (`Counted`);
* that an endpoint in use has an address in use, of the one it names, and another one has none (`Named`).  Neither property is
  inductive without it: giving up the last reference gives up an address too, and an endpoint that is lent the address of
  another must not come to say something else;
* that every claim is true (`Known`), also those of which `SenderIsKnown` does not speak, since a client or an event gets
  its endpoint from the application, the last datagram or a message.

Each call is then a few moves of claims: one is given to a place that has none (`ShareSound`), taken away (`LessSound`,
`LoseSound`), handed on (`HandedSound`), or, when a queue loses its first message, all are rearranged (`Rearranged`,
`TurnedIs`).  A lemma about the state says which claims fit it (`Fits`), one lemma each says what a call does to both, and
the actions cite those.

**`ChannelProofs`**, for any modulus of the sequence numbers, any low and high end, any number of fragments and of packets,
and messages that are lost, repeated and overtaken in any way: `ChannelTypeCorrect`, `ReliableStaysInOrder`,
`PacketsStayWhole`, `UnreliableStaysInPlace`, `QueueStaysInOrder`.  None of the properties says how numbers and packets
belong together; the invariant does (`ChannelInv`).  There are a first number n and two functions U and V on the packets: U[i]
and V[i] are how many reliable and unreliable numbers were used up to packet i, and every message on its way bears the
numbers they say (`Numbering`).  On that stand

* `InPlace`, for one lap of the numbers (`Lap`: fewer were used than there are): `inRel` is the number of the last
  packet received, what is queued bears the numbers of a packet and has fragments of that one only, and what was
  received were all reliable packets in order.  It says nothing of the order of the queue, which the
  wrap spoils: what keeps the order is that `ReliableReady` takes the head only if its number is the next;
* `Sorted`, before the wrap (`Plain`): both queues are in the order of sending, behind what was received.  Then the
  search from the end of a queue, which stops at the first smaller number, finds the place and the duplicate
  (`TailInOrder`, `SortedReliable`), and an unreliable packet waits for the right reliable one (`SortedUnreliable`).

That few enough packets are in flight (`FlightAssumption`: fewer numbers than lie between the low end and the high end)
is needed where a number is widened: before the wrap none is (`NotWidened`).  The code says as much
(`gekkota_xudpclient.c:805`), its window is 32768 bytes at most, and the constants of the runs satisfy it.

Beyond a lap `ReliableInOrder` and `PacketsAreWhole` are false, also of a sender that waits.  TLC finds it with 8 numbers: the
messages 7 and 0 are queued, and 7 comes again.  The search from the end of the queue meets the 0, which is not
widened there (`gekkota_xudpclient.c:833`, what `stalls` is about), takes it for a smaller number and stops.  The
second 7 is not recognised, and stays behind the 0.  A lap later it is taken for the new packet of number 7.

**`LzfProofs`**: `NothingIsLost`, that inflate returns what deflate was given, for every text, every
content of the hash table and every width of the fields.  The invariant (`StreamsAreParsed`) is about the marks of
a stream, the pairs of a place where a control byte stands and of how much of the text is before it:
`Parsed(P, ...)` says that each mark but the last has a next one, and what bytes lie between them.  Inflate is at a
mark in every turn.  `TextsGrowLittle` assumes `Escape > 1` (7 in the code, 2 in `ownership`): with an
escape of 1 a reference would take as many bytes as it stands for.

Induction over data is done on sets of numbers (`SetInduction`, `LeastOne`, from the well-founded order of Nat):
that is how the walks of `Memory`, the loop of `Startup`, the copies of `Lzf`, the sums of `Transmission` and the
loops of `Bandwidth`, all of them recursive functions, are reasoned about.  Only model-checked are:

* liveness (`NoWaitIsForEver`, `ReliableArrives`), since the prover has no ENABLED, and so no fairness;
* `SilenceIsNoticed` of `Transmission`: its bound is that of the run's time-outs.  For any others it would have to count,
  resend by resend, the doubled time-outs of every message, how long one that expired waits for room, and how
  much later than it another one left that expired first and set `earliestTimeout`.  The run has no unreliable
  packets, whose result replaces that of the reliable ones (`gekkota_xudp.c:2284`) and so ends a pass early.

## Not modelled, or only in part

* Allocation failures but in `Memory`, where an empty pool is the matter, and failures of the
  operating system other than its refusal of a second membership and of a module; checksums
  (compiled out by default); the check of lengths in datagrams that are not well-formed.
* Throttling needs a clock below one day (`gekkota_xudp.c:800`); on most clocks it never
  takes place.  `Bandwidth` and `RoundTrip` start theirs within a day of the epoch.
* `XudpConnection` has one slot per host; the search for a free slot is in `Packets` and
  `EndPoints`, turns among slots are in `Polling`.
* The sequence numbers of multicast groups are in no module, so nothing is said of what a
  second sender sends to a group (`gekkota_xudpclient.c:784`).
* `Packets`: a handshake is one step (`Connect`), and the states between CONNECTED and
  DISCONNECTED in which the queues are cleared are one state (LEAVING); a delayed close
  is left to `Transmission`.  A message leaves, expires and is acknowledged in
  any order the queues allow, and any whole message may be received next: the right
  order is the matter of the other modules.  Lengths are coarse (a packet, or two messages of
  it), contents are whether they are deflated.  The reference count of an event, which only
  the application touches, is left out.
* The bytes to which a datagram under way points (`gekkota_xudp.c:2539`): `Memory` knows blocks
  and holders, `Transmission` which message is in a datagram, neither knows both.
* `Lzf`: the hash table is any earlier position or none, so the results hold for
  every hash function; the length at the end of a stream takes one place.
* `EndPoints`: conversions of addresses, DNS and IDN, options of sockets and stream sockets, which
  keep no state of the library.
* `Startup`: versions of systems are a choice between accepted and refused.
* Strings (`gstring.c` is GLib's, taken over), CRC32, network interfaces, the Windows and Symbian
  variants of what is modelled in its Unix form, resources and the test programs, which show how
  the library is called: applications in the models follow them.

## Plan

1. Done: `Handshake`, `XudpConnection`, `Channel`, `Transmission`, `RoundTrip`, `Bandwidth`, `Packets`,
   `Lzf`, `Polling`, `EndPoints`, `Lists`, `Memory`, `Startup`; proofs about all of them, and that
   `XudpConnection` implements `Handshake`.
2. The messages of multicast groups with their numbers.
