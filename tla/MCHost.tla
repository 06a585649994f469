------------------------------- MODULE MCHost -------------------------------
(* The parts of a host that share no state, one at a time: part says which   *)
(* module lives, so that their state spaces are added, not multiplied.       *)
(*   estimates: RoundTrip, an 8-bit clock of which 6 bits are sent           *)
(*   channel:   Channel, 5-bit numbers, whose upper and lower eighth are     *)
(*              their high and their low end                                 *)
(*   memory:    Memory, a pool of two blocks                                 *)
(*   startup:   Startup, the table of the platform and a longer one          *)
EXTENDS RoundTrip, Channel, Memory, Startup, FiniteSetsExt

\* The default setting, one that never adapts, one that overshoots.
SomeSettings ==
    {[interval |-> 20, up |-> 2, down |-> 2],
     [interval |-> 0, up |-> 255, down |-> 255]}

AllKinds == {"reliable", "fragmented", "unreliable", "unsequenced"}

Loading(f, optional, n) == [feature |-> f, isOptional |-> optional, name |-> n]
SomeTables ==
    {<<Loading("IDN", TRUE, "idn")>>,
     <<Loading("net", FALSE, "idn"), Loading("IDN", TRUE, "idn"),
       Loading("IDN", TRUE, "tables"), Loading("log", FALSE, "log")>>}

VARIABLE part

parts == <<vars, channelVars, poolVars, startVars>>

\* A module that does not live starts in one way.
HostInit ==
    /\ part \in {"estimates", "channel", "memory", "startup"}
    /\ Init /\ (part # "estimates" => now = Min(Clocks) /\ config.up = 2)
    /\ ChannelInit /\ (part # "channel" => outRel = Min(Starts))
    /\ StartInit /\ (part # "startup" => Len(loadings) = 1)
    /\ PoolInit

\* Only the module p takes steps.
Lives(p, others) == part = p /\ UNCHANGED <<part, others>>

HostNext ==
    \/ Lives("estimates", <<channelVars, poolVars, startVars>>) /\ Next
    \/ Lives("channel", <<vars, poolVars, startVars>>) /\ ChannelNext
    \/ Lives("memory", <<vars, channelVars, startVars>>) /\ PoolNext
    \/ Lives("startup", <<vars, channelVars, poolVars>>) /\ StartNext

HostSpec == HostInit /\ [][HostNext]_<<parts, part>> /\ FairChannel
=============================================================================
