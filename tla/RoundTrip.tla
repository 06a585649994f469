------------------------------ MODULE RoundTrip ------------------------------
(***************************************************************************)
(* What an acknowledgement does to the estimates of a client: the time it  *)
(* was sent is recovered from its lower half, the round trip time and its  *)
(* variance are smoothed, and the packet throttle follows them             *)
(* (_gekkota_xudp_on_acknowledge_message, _gekkota_xudpclient_throttle).   *)
(*                                                                         *)
(* The clock is uint32_t milliseconds and wraps; time_t, in which          *)
(* gekkota_time.c subtracts, is signed and wider.  All estimates are       *)
(* uint32_t.                                                               *)
(***************************************************************************)
EXTENDS Naturals, Integers

CONSTANTS
    Word,         \* 2^32
    Short,        \* 2^16: what is sent of a time
    Day,          \* GEKKOTA_TIME_OVERFLOW, 86400000
    DefaultRtt,   \* GEKKOTA_XUDP_CLIENT_DEFAULT_ROUND_TRIP_TIME
    Scale,        \* GEKKOTA_XUDP_CLIENT_PACKET_THROTTLE_SCALE
    Clocks,       \* values of the clock when the client is connected
    Steps,        \* by how much the clock advances
    Lags,         \* how long ago the message left that is acknowledged
    Settings,     \* <<interval, acceleration, deceleration>> of the throttle
    MaxTicks      \* bound: clock steps and acknowledgements

ASSUME WordAssumption ==
    /\ Word \in Nat /\ Short \in Nat
    /\ Short > 0 /\ Short % 2 = 0 /\ Word % Short = 0 /\ Word > Short
ASSUME DayAssumption == Day \in Nat /\ Day > Short /\ Day < Word - Short
ASSUME StartAssumption ==
    /\ DefaultRtt \in 0..(Word - 1) /\ Scale \in 1..(Word - 1)
    /\ Clocks \subseteq 0..(Word - 1) /\ Steps \subseteq Nat
    /\ Lags \subseteq 0..(Word - 1)
    /\ Settings \subseteq [interval : 0..(Word - 1), up : 0..(Word - 1), down : 0..(Word - 1)]
    /\ MaxTicks \in Nat

VARIABLES
    now,       \* xudp->currentTime
    rtt, rttVar,          \* roundTripTime, roundTripTimeVariance
    lowest, highest,      \* lowestRoundTripTime, highestRoundTripTimeVariance
    last, lastVar,        \* lastRoundTripTime, lastRoundTripTimeVariance
    epoch,     \* packetThrottleEpoch
    throttle, limit,      \* packetThrottle, packetThrottleLimit
    config,    \* packetThrottleInterval, ...Acceleration, ...Deceleration
    ticks,     \* clock steps and acknowledgements so far
    slowest    \* history: the longest round trip measured, the default one included

estimates == <<rtt, rttVar, lowest, highest, last, lastVar, epoch>>
vars == <<now, estimates, throttle, limit, config, ticks, slowest>>

Words == 0..(Word - 1)

-----------------------------------------------------------------------------
(* gekkota_time.c.                                                         *)

Compare(t1, t2) ==
    IF t1 - t2 >= Day THEN -1
    ELSE IF t2 - t1 >= Day THEN 1 ELSE 0

Lag(t1, t2) == IF t1 - t2 >= Day THEN t2 - t1 ELSE t1 - t2

-----------------------------------------------------------------------------
(* An acknowledgement.                                                     *)

\* Mutant: no borrow from the upper half.
RecoveredUpper(t) == (now - (now % Short)) + t

\* The time of which t is the lower half: that of now, or one before.
Recovered(t) ==
    LET s == (now - (now % Short)) + t
    IN  IF t >= Short \div 2 /\ now % Short < Short \div 2 THEN (s - Short) % Word ELSE s

\* The round trip of a message that left when the clock showed sent.
Trip(sent) == Lag(now, Recovered(sent % Short)) % Word

\* Mutant: the throttle is not bounded while it grows.
AdjustedBeyond(trip) ==
    CASE last <= lastVar -> limit
      [] last > lastVar /\ trip < last -> throttle + config.up
      [] OTHER -> throttle

\* _gekkota_xudpclient_throttle: the new packetThrottle.
Adjusted(trip) ==
    CASE last <= lastVar -> limit
      [] last > lastVar /\ trip < last ->
            LET up == (throttle + config.up) % Word IN IF up > limit THEN limit ELSE up
      [] last > lastVar /\ trip > (last + 2 * lastVar) % Word /\ trip >= last ->
            IF throttle > config.down THEN throttle - config.down ELSE 0
      [] OTHER -> throttle

\* Mutant: the whole difference is added.
SmoothedNot(trip) == IF trip >= rtt THEN rtt + (trip - rtt) + 1 ELSE rtt - (rtt - trip) \div 8

Smoothed(trip) ==
    IF trip >= rtt THEN rtt + (trip - rtt) \div 8 ELSE rtt - (rtt - trip) \div 8

\* The difference is that with the estimate just smoothed.
SmoothedVar(trip) ==
    LET v == rttVar - rttVar \div 4
        s == Smoothed(trip)
    IN  (v + (IF trip >= rtt THEN trip - s ELSE s - trip) \div 4) % Word

\* Mutant: they do so once.
RestartedOnce(interval) == epoch = 0

\* The extremes since the epoch become the ones the throttle goes by.
Restarted(interval) == epoch = 0 \/ Lag(now, epoch) >= interval

\* _gekkota_xudp_on_acknowledge_message, as far as the estimates go.  The message
\* acknowledged left when the clock showed sent.
Acknowledge(sent) ==
    LET trip == Trip(sent)
        low == IF Smoothed(trip) < lowest THEN Smoothed(trip) ELSE lowest
        high == IF SmoothedVar(trip) > highest THEN SmoothedVar(trip) ELSE highest
    IN  /\ ticks < MaxTicks
        /\ ticks' = ticks + 1
        /\ IF Compare(now, Recovered(sent % Short)) < 0
           THEN UNCHANGED <<estimates, throttle, slowest>>
           ELSE /\ throttle' = Adjusted(trip)
                /\ rtt' = Smoothed(trip)
                /\ rttVar' = SmoothedVar(trip)
                /\ IF Restarted(config.interval)
                   THEN /\ last' = low /\ lastVar' = high
                        /\ lowest' = rtt' /\ highest' = rttVar'
                        /\ epoch' = now
                   ELSE /\ lowest' = low /\ highest' = high
                        /\ UNCHANGED <<last, lastVar, epoch>>
                /\ slowest' = IF trip > slowest THEN trip ELSE slowest
        /\ UNCHANGED <<now, limit, config>>

-----------------------------------------------------------------------------

\* What _gekkota_xudp_throttle_bandwidth (module Bandwidth) does to a client.
Limit(n) ==
    /\ limit' = n
    /\ throttle' = IF throttle > n THEN n ELSE throttle
    /\ UNCHANGED <<now, estimates, config, ticks, slowest>>

\* gekkota_xudpclient_set_throttle_configuration, or CONFIGURE_THROTTLE comes in.
Configure(c) ==
    /\ config' = c
    /\ UNCHANGED <<now, estimates, throttle, limit, ticks, slowest>>

Tick(d) ==
    /\ ticks < MaxTicks
    /\ ticks' = ticks + 1
    /\ now' = (now + d) % Word
    /\ UNCHANGED <<estimates, throttle, limit, config, slowest>>

\* _gekkota_xudpclient_reset.
Init ==
    /\ now \in Clocks
    /\ rtt = DefaultRtt /\ rttVar = 0
    /\ lowest = DefaultRtt /\ highest = 0
    /\ last = DefaultRtt /\ lastVar = 0
    /\ epoch = 0
    /\ throttle = Scale /\ limit = Scale
    /\ config \in Settings
    /\ ticks = 0 /\ slowest = DefaultRtt

Next ==
    \/ \E d \in Steps : Tick(d)
    \/ \E g \in Lags : Acknowledge((now - g) % Word)
    \/ \E n \in 0..Scale : Limit(n)
    \/ \E c \in Settings : Configure(c)

Spec == Init /\ [][Next]_vars

-----------------------------------------------------------------------------
(* Properties.                                                             *)

\* Every variable is a machine word: no unsigned subtraction wraps; and the packet
\* throttle never passes the limit that bandwidth throttling set, whatever
\* acceleration the peer or the application configures.
TypeOK ==
    /\ now \in Words
    /\ rtt \in Words /\ rttVar \in Words
    /\ lowest \in Words /\ highest \in Words
    /\ last \in Words /\ lastVar \in Words
    /\ epoch \in Words
    /\ throttle \in Words /\ limit \in 0..Scale /\ throttle <= limit
    /\ config \in Settings
    /\ ticks \in Nat /\ slowest \in Words

\* No mixture of fast and slow answers takes an estimate, its variance or the
\* extremes the throttle goes by beyond the slowest round trip measured, and the
\* lowest estimate is one: none of the unsigned differences goes below zero.
EstimatesAreMeasured ==
    /\ lowest <= rtt /\ rtt <= slowest
    /\ rttVar <= highest /\ highest <= slowest
    /\ last <= slowest /\ lastVar <= slowest

\* A message acknowledged within half the range of the 16 bits its time was sent
\* in (32 s) is measured right, also when the clock wraps on the way.
TripIsTrue ==
    \A g \in Lags : g < Short \div 2 => Trip((now - g) % Word) = g

\* The throttle goes by the extremes of one interval: when an answer comes in,
\* the epoch is younger than the interval, or starts again.  (Not so when the
\* clock wrapped since, or a day has passed: Lag is negative then, and the epoch
\* stays.)
EpochIsRenewed ==
    [][\A g \in Lags :
         /\ Acknowledge((now - g) % Word) /\ estimates' # estimates
         /\ epoch <= now /\ now - epoch < Day
         => epoch' = now \/ now - epoch < config.interval]_vars
=============================================================================
