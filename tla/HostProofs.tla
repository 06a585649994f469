----------------------------- MODULE HostProofs -----------------------------
(***************************************************************************)
(* Proofs about four parts of a host that share no state with each other:  *)
(*   - the estimates of module RoundTrip, for every width of the clock,    *)
(*     every setting of the throttle, and answers however late;            *)
(*   - the start and the end of the library of module Startup, for any     *)
(*     tables of modules, any systems they are looked for in and any       *)
(*     number of starts: a module is open as often as a loading of a       *)
(*     started library holds it;                                           *)
(*   - the calls of poll of module Polling, for any number of clients and  *)
(*     channels, any time-outs and any bounds: clients are served in turn, *)
(*     and a call that returns nothing leaves nothing behind;              *)
(*   - the lists of module Lists and the pool of module Memory, for every  *)
(*     number of blocks and of holders, and every sequence of calls.       *)
(***************************************************************************)
EXTENDS RoundTrip, Startup, Polling, Memory, TLAPS, NaturalsInduction,
        WellFoundedInduction, FiniteSetTheorems

-----------------------------------------------------------------------------
(* The estimates of the round trip.                                        *)

\* A remainder is a machine word, and of a machine word it is the word itself.
LEMMA Remainder ==
    \A x \in Int : x % Word \in Words /\ (x \in Words => x % Word = x)
BY WordAssumption, SMT DEF Words

\* One step of smoothing stays between the estimate and what was measured.
LEMMA SmoothedBetween ==
    ASSUME NEW trip \in Words, rtt \in Words
    PROVE  /\ Smoothed(trip) \in Words
           /\ trip >= rtt => rtt <= Smoothed(trip) /\ Smoothed(trip) <= trip
           /\ trip < rtt => trip <= Smoothed(trip) /\ Smoothed(trip) <= rtt
BY WordAssumption, SMT DEF Smoothed, Words

\* A quarter of the variance makes room for a quarter of a deviation.
LEMMA VarianceBetween ==
    ASSUME NEW trip \in Words, NEW most \in Words, rtt \in Words, rttVar \in Words,
           trip <= most, rtt <= most, rttVar <= most
    PROVE  SmoothedVar(trip) \in Words /\ SmoothedVar(trip) <= most
<1> DEFINE s == Smoothed(trip)
           d == IF trip >= rtt THEN trip - s ELSE s - trip
           v == rttVar - rttVar \div 4 + d \div 4
<1>1. s \in Words /\ d \in Words /\ d <= most
  BY SmoothedBetween, WordAssumption, SMT DEF Words
<1>2. v \in 0..most
  <2> HIDE DEF d
  <2> QED BY <1>1, WordAssumption, SMT DEF Words
<1>3. v \in Words /\ v \in Int
  BY <1>2, WordAssumption, SMT DEF Words
<1>4. SmoothedVar(trip) = v % Word
  BY DEF SmoothedVar
<1> HIDE DEF v
<1> QED BY <1>2, <1>3, <1>4, Remainder, SMT

\* What the invariants say of the estimates and of the throttle.
Measured == TypeOK /\ EstimatesAreMeasured

LEMMA MeasuredAtFirst == Init => Measured
BY StartAssumption, WordAssumption, SMT
   DEF Init, Measured, TypeOK, EstimatesAreMeasured, Words

\* The new packet throttle is a word, and inside the limit.
LEMMA AdjustedInLimit ==
    ASSUME Measured, NEW trip \in Words
    PROVE  Adjusted(trip) \in Words /\ Adjusted(trip) <= limit
<1>0. /\ config.up \in Words /\ config.down \in Words
      /\ throttle \in Words /\ limit \in Words /\ throttle <= limit
      /\ last \in Words /\ lastVar \in Words
  <2>1. config \in Settings /\ limit \in 0..Scale /\ throttle \in Words
        /\ throttle <= limit /\ last \in Words /\ lastVar \in Words
    BY DEF Measured, TypeOK
  <2>2. config \in [interval : 0..(Word - 1), up : 0..(Word - 1), down : 0..(Word - 1)]
    BY <2>1, StartAssumption, Zenon
  <2>3. config.up \in 0..(Word - 1) /\ config.down \in 0..(Word - 1)
    BY <2>2
  <2>4. limit \in Words
    BY <2>1, StartAssumption, WordAssumption, SMT DEF Words
  <2> QED BY <2>1, <2>3, <2>4, Zenon DEF Words
<1>1. (throttle + config.up) % Word \in Words
  <2>1. throttle + config.up \in Int
    BY <1>0, WordAssumption, SMT DEF Words
  <2> QED BY <2>1, Remainder
<1> DEFINE up == (throttle + config.up) % Word
           far == (last + 2 * lastVar) % Word
<1>2. Adjusted(trip) =
        CASE last <= lastVar -> limit
          [] last > lastVar /\ trip < last -> IF up > limit THEN limit ELSE up
          [] last > lastVar /\ trip > far /\ trip >= last ->
               IF throttle > config.down THEN throttle - config.down ELSE 0
          [] OTHER -> throttle
  BY DEF Adjusted
<1> HIDE DEF up, far
<1>3. up \in Words
  BY <1>1 DEF up
<1>4. CASE last <= lastVar
  <2>1. Adjusted(trip) = limit
    BY <1>0, <1>2, <1>4, SMT DEF Words
  <2> QED BY <2>1, <1>0, SMT DEF Words
<1>5. CASE last > lastVar /\ trip < last
  <2>1. Adjusted(trip) = IF up > limit THEN limit ELSE up
    BY <1>0, <1>2, <1>5, SMT DEF Words
  <2> QED BY <2>1, <1>0, <1>3, SMT DEF Words
<1>6. CASE last > lastVar /\ trip > far /\ trip >= last
  <2>1. Adjusted(trip) = IF throttle > config.down THEN throttle - config.down ELSE 0
    BY <1>0, <1>2, <1>6, SMT DEF Words
  <2> DEFINE down == config.down
  <2>2. Adjusted(trip) = (IF throttle > down THEN throttle - down ELSE 0) /\ down \in Words
    BY <2>1, <1>0
  <2> HIDE DEF down
  <2>3. throttle \in Words /\ limit \in Words /\ throttle <= limit
    BY <1>0
  <2>4. CASE throttle > down
    <3>1. Adjusted(trip) = throttle - down /\ down \in Words
      BY <2>2, <2>4
    <3>2. throttle - down \in Words /\ throttle - down <= limit
      BY <3>1, <2>3, <2>4, WordAssumption, SMT DEF Words
    <3> QED BY <3>1, <3>2
  <2>5. CASE ~(throttle > down)
    BY <2>2, <2>3, <2>5, WordAssumption, SMT DEF Words
  <2> QED BY <2>4, <2>5
<1>7. CASE last > lastVar /\ ~(trip < last) /\ ~(trip > far /\ trip >= last)
  <2>1. Adjusted(trip) = throttle
    BY <1>0, <1>2, <1>7, SMT DEF Words
  <2> QED BY <2>1, <1>0, SMT DEF Words
<1> QED BY <1>0, <1>4, <1>5, <1>6, <1>7, SMT DEF Words

\* Answers, fast and slow, keep the estimates within what was measured.
LEMMA AcknowledgeKeeps ==
    ASSUME Measured, NEW sent \in Words, Acknowledge(sent)
    PROVE  Measured'
<1> DEFINE trip == Trip(sent)
           top == IF trip > slowest THEN trip ELSE slowest
           low == IF Smoothed(trip) < lowest THEN Smoothed(trip) ELSE lowest
           high == IF SmoothedVar(trip) > highest THEN SmoothedVar(trip) ELSE highest
<1> USE DEF Measured
<1>1. CASE Compare(now, Recovered(sent % Short)) < 0
  <2>1. UNCHANGED <<estimates, throttle, slowest, now, limit, config>> /\ ticks' = ticks + 1
    BY <1>1 DEF Acknowledge
  <2> QED BY <2>1 DEF TypeOK, EstimatesAreMeasured, estimates
<1>2. CASE ~(Compare(now, Recovered(sent % Short)) < 0)
  <2>1. /\ throttle' = Adjusted(trip)
        /\ rtt' = Smoothed(trip) /\ rttVar' = SmoothedVar(trip)
        /\ \/ /\ last' = low /\ lastVar' = high /\ lowest' = rtt' /\ highest' = rttVar'
              /\ epoch' = now
           \/ lowest' = low /\ highest' = high /\ UNCHANGED <<last, lastVar, epoch>>
        /\ slowest' = top
        /\ UNCHANGED <<now, limit, config>> /\ ticks' = ticks + 1
    BY <1>2 DEF Acknowledge
  <2>2. trip \in Words
    <3>1. Recovered(sent % Short) \in Int
      BY Remainder, WordAssumption, SMT DEF Recovered, TypeOK, Words
    <3>2. Lag(now, Recovered(sent % Short)) \in Int
      BY <3>1, DayAssumption, SMT DEF Lag, TypeOK, Words
    <3> QED BY <3>2, Remainder DEF Trip
  <2> HIDE DEF trip
  <2>3. top \in Words /\ trip <= top /\ slowest <= top
    BY <2>2, SMT DEF TypeOK, Words
  <2> HIDE DEF top
  <2>4. rtt \in Words /\ rttVar \in Words /\ rtt <= top /\ rttVar <= top
    BY <2>3, SMT DEF TypeOK, EstimatesAreMeasured, Words
  <2>5. Smoothed(trip) \in Words /\ Smoothed(trip) <= top
    BY <2>2, <2>3, <2>4, SmoothedBetween, SMT DEF Words
  <2>6. SmoothedVar(trip) \in Words /\ SmoothedVar(trip) <= top
    BY <2>2, <2>3, <2>4, VarianceBetween
  <2>7. low \in Words /\ low <= Smoothed(trip) /\ low <= top
    <3>1. lowest \in Words
      BY DEF TypeOK
    <3>2. CASE Smoothed(trip) < lowest
      BY <2>5, <3>2, SMT DEF Words
    <3>3. CASE ~(Smoothed(trip) < lowest)
      BY <2>3, <2>5, <3>1, <3>3, SMT DEF Words
    <3> QED BY <3>2, <3>3
  <2>8. high \in Words /\ SmoothedVar(trip) <= high /\ high <= top
    BY <2>3, <2>6, SMT DEF TypeOK, EstimatesAreMeasured, Words
  <2>9. Adjusted(trip) \in Words /\ Adjusted(trip) <= limit
    BY <2>2, AdjustedInLimit
  <2> HIDE DEF low, high
  <2>10. TypeOK'
    BY <2>1, <2>3, <2>5, <2>6, <2>7, <2>8, <2>9 DEF TypeOK
  <2>11. EstimatesAreMeasured'
    BY <2>1, <2>3, <2>5, <2>6, <2>7, <2>8, SMT DEF EstimatesAreMeasured, TypeOK, Words
  <2> QED BY <2>10, <2>11
<1> QED BY <1>1, <1>2

LEMMA StepKeeps == Measured /\ [Next]_vars => Measured'
<1> SUFFICES ASSUME Measured, [Next]_vars PROVE Measured'
  OBVIOUS
<1> USE DEF Measured
<1>1. ASSUME NEW d \in Steps, Tick(d) PROVE Measured'
  <2>1. now' \in Words
    BY <1>1, Remainder, StartAssumption, SMT DEF Tick, TypeOK, Words
  <2> QED BY <1>1, <2>1 DEF Tick, TypeOK, EstimatesAreMeasured, estimates
<1>2. ASSUME NEW g \in Lags, Acknowledge((now - g) % Word) PROVE Measured'
  <2>1. (now - g) % Word \in Words
    BY Remainder, StartAssumption, SMT DEF TypeOK, Words
  <2> QED BY <1>2, <2>1, AcknowledgeKeeps
<1>3. ASSUME NEW n \in 0..Scale, Limit(n) PROVE Measured'
  <2>1. /\ limit' = n /\ throttle' = (IF throttle > n THEN n ELSE throttle)
        /\ UNCHANGED <<now, estimates, config, ticks, slowest>>
    BY <1>3 DEF Limit
  <2>2. n \in Words /\ throttle \in Words
    <3>1. throttle \in Words
      BY DEF TypeOK
    <3>2. n \in Words
      BY StartAssumption, WordAssumption, SMT DEF Words
    <3> QED BY <3>1, <3>2
  <2>3. throttle' \in Words /\ throttle' <= n
    BY <2>1, <2>2, SMT DEF Words
  <2>4. TypeOK'
    BY <2>1, <2>3 DEF TypeOK, estimates
  <2>5. EstimatesAreMeasured'
    BY <2>1 DEF EstimatesAreMeasured, estimates
  <2> QED BY <2>4, <2>5
<1>4. ASSUME NEW c \in Settings, Configure(c) PROVE Measured'
  BY <1>4 DEF Configure, TypeOK, EstimatesAreMeasured, estimates
<1>5. CASE UNCHANGED vars
  BY <1>5 DEF vars, estimates, TypeOK, EstimatesAreMeasured
<1> QED BY <1>1, <1>2, <1>3, <1>4, <1>5 DEF Next

\* The two invariants together: each needs the other to be inductive.
THEOREM MeasuredAlways == Spec => []Measured
BY MeasuredAtFirst, StepKeeps, PTL DEF Spec

\* No unsigned variable of the estimates ever wraps, whatever the clock does, and
\* packetThrottle stays inside packetThrottleLimit, for every acceleration and
\* deceleration that is configured.
THEOREM RoundTripTypes == Spec => []TypeOK
BY MeasuredAlways, PTL DEF Measured

\* The estimates stay within the slowest round trip measured, whatever answers
\* come in: _gekkota_xudp_on_acknowledge_message never subtracts below zero.
THEOREM EstimatesBounded == Spec => []EstimatesAreMeasured
BY MeasuredAlways, PTL DEF Measured

-----------------------------------------------------------------------------
(* What the sixteen bits of a time tell, and when the epoch starts again.    *)

\* Quotient and remainder are determined by the sum they make.
LEMMA RemainderUnique ==
    ASSUME NEW b \in Nat \ {0}, NEW x \in Int, NEW q \in Int, NEW r \in 0..(b - 1),
           x = q * b + r
    PROVE  x % b = r
<1> DEFINE k == x \div b
           m == x % b
<1>1. k \in Int /\ m \in 0..(b - 1) /\ x = k * b + m
  BY SMT
<1> HIDE DEF k, m
<1>2. (k - q) * b = r - m
  BY <1>1, SMT
<1>3. ~(k - q >= 1) /\ ~(k - q <= -1)
  <2>1. ASSUME k - q >= 1 PROVE FALSE
    <3>1. (k - q) * b >= b
      BY <1>1, <2>1, SMT
    <3> QED BY <1>1, <1>2, <3>1, SMT
  <2>2. ASSUME k - q <= -1 PROVE FALSE
    <3>1. (k - q) * b <= -b
      BY <1>1, <2>2, SMT
    <3> QED BY <1>1, <1>2, <3>1, SMT
  <2> QED BY <2>1, <2>2
<1>4. k = q
  BY <1>1, <1>3, SMT
<1>5. r = m
  BY <1>1, <1>2, <1>4, SMT
<1> QED BY <1>5 DEF m

\* The lower half of a time is that of the number the clock shows modulo Word.
LEMMA HalfOfWord ==
    ASSUME NEW x \in Int
    PROVE  (x % Word) % Short = x % Short
<1>1. Word \in Nat \ {0} /\ Short \in Nat \ {0} /\ Word % Short = 0
  BY WordAssumption, SMT
<1> DEFINE a == x \div Word
           y == x % Word
           b == y \div Short
           t == y % Short
           n == Word \div Short
<1>2. x = a * Word + y /\ a \in Int /\ y \in 0..(Word - 1)
  BY <1>1, SMT
<1>3. y = b * Short + t /\ b \in Int /\ t \in 0..(Short - 1)
  <2> HIDE DEF y
  <2> QED BY <1>1, <1>2, SMT
<1>4. Word = n * Short /\ n \in Int
  BY <1>1, SMT
<1> HIDE DEF a, y, b, t, n
<1>5. a * n + b \in Int /\ x = (a * n + b) * Short + t
  <2>1. a * Word = (a * n) * Short /\ a * n \in Int
    BY <1>1, <1>2, <1>4, SMT
  <2>2. (a * n + b) * Short = (a * n) * Short + b * Short
    BY <1>1, <1>3, <2>1, SMT
  <2> DEFINE e == (a * n) * Short
             f == b * Short
             k == (a * n + b) * Short
             l == a * Word
  <2>3. l = e /\ k = e + f /\ x = l + y /\ y = f + t
    BY <1>2, <1>3, <2>1, <2>2
  <2>4. e \in Int /\ f \in Int /\ a * n + b \in Int
    BY <1>1, <1>2, <1>3, <1>4, <2>1, SMT
  <2> HIDE DEF e, f, k, l
  <2>5. x = k + t
    BY <1>3, <2>3, <2>4, SMT
  <2> QED BY <2>4, <2>5 DEF k
<1>6. x % Short = t
  BY <1>1, <1>3, <1>5, RemainderUnique
<1> QED BY <1>6 DEF t, y

\* What is recovered of a time less than half the range ago is that time.
LEMMA RecoveredIsTime ==
    ASSUME now \in Words, NEW g \in Nat, g < Short \div 2
    PROVE  Recovered(((now - g) % Word) % Short) = IF now >= g THEN now - g ELSE now - g + Word
<1>1. Word \in Nat \ {0} /\ Short \in Nat \ {0} /\ Word > Short /\ now \in 0..(Word - 1)
  BY WordAssumption, SMT DEF Words
<1> DEFINE r == now % Short
           q == now \div Short
           half == Short \div 2
           t == (now - g) % Short
<1>2. now = q * Short + r /\ q \in Int /\ r \in 0..(Short - 1)
  BY <1>1, SMT
<1>3. half \in Nat /\ 2 * half = Short /\ g < half
  BY WordAssumption, <1>1, SMT
<1>4. ((now - g) % Word) % Short = t
  <2>1. now - g \in Int
    BY <1>1, SMT
  <2> QED BY <2>1, HalfOfWord
<1>5. Recovered(t) = IF t >= half /\ r < half THEN (((now - r) + t) - Short) % Word ELSE (now - r) + t
  <2> HIDE DEF t
  <2> QED BY DEF Recovered
<1> HIDE DEF r, q, half, t
<1>6. CASE g <= r
  <2>1. now - g = q * Short + (r - g) /\ r - g \in 0..(Short - 1) /\ now - g \in Int
    BY <1>1, <1>2, <1>6, SMT
  <2>2. t = r - g
    BY <1>1, <1>2, <2>1, RemainderUnique DEF t
  <2>3. now >= r
    <3>1. q >= 0
      <4> SUFFICES ASSUME q <= -1 PROVE FALSE
        BY <1>2, SMT
      <4>1. q * Short <= -Short
        BY <1>1, <1>2, SMT
      <4> QED BY <1>1, <1>2, <4>1, SMT
    <3>2. q * Short >= 0
      BY <1>1, <1>2, <3>1, SMT
    <3> QED BY <1>1, <1>2, <3>2, SMT
  <2>4. Recovered(t) = now - g
    BY <1>1, <1>2, <1>3, <1>5, <1>6, <2>2, SMT
  <2> QED BY <1>1, <1>2, <1>4, <1>6, <2>3, <2>4, SMT
<1>7. CASE r < g
  <2>1. now - g = (q - 1) * Short + (r - g + Short) /\ r - g + Short \in 0..(Short - 1)
        /\ now - g \in Int /\ q - 1 \in Int
    <3>1. (q - 1) * Short = q * Short - Short
      BY <1>1, <1>2, SMT
    <3> QED BY <1>1, <1>2, <1>3, <1>7, <3>1, SMT
  <2>2. t = r - g + Short
    BY <1>1, <1>2, <2>1, RemainderUnique DEF t
  <2>3. Recovered(t) = (now - g) % Word
    <3>1. t >= half /\ r < half
      BY <1>1, <1>2, <1>3, <1>7, <2>2, SMT
    <3>2. ((now - r) + t) - Short = now - g
      BY <1>1, <1>2, <2>2, SMT
    <3> QED BY <1>5, <3>1, <3>2
  <2>4. (now - g) % Word = IF now >= g THEN now - g ELSE now - g + Word
    <3>1. CASE now >= g
      BY <1>1, <3>1, Remainder, SMT DEF Words
    <3>2. CASE ~(now >= g)
      <4>1. now - g = (-1) * Word + (now - g + Word) /\ now - g + Word \in 0..(Word - 1)
            /\ now - g \in Int
        BY <1>1, <1>3, <3>2, SMT
      <4> QED BY <1>1, <3>2, <4>1, RemainderUnique
    <3> QED BY <3>1, <3>2
  <2> QED BY <1>4, <2>3, <2>4
<1> QED BY <1>1, <1>2, <1>6, <1>7, SMT

\* A message acknowledged within half the range of the sixteen bits is measured
\* to the millisecond, for every width of the clock and of what is sent of it, and
\* wherever the clock wraps (_gekkota_xudp_on_acknowledge_message).
THEOREM TripsAreTrue == Spec => []TripIsTrue
<1>1. TypeOK => TripIsTrue
  <2> SUFFICES ASSUME TypeOK, NEW g \in Lags, g < Short \div 2
               PROVE  Trip((now - g) % Word) = g
    BY DEF TripIsTrue
  <2>1. /\ now \in Words /\ now \in 0..(Word - 1) /\ g \in Nat /\ Word \in Nat /\ Short \in Nat
        /\ Word > Short /\ g < Short /\ g \in Words
    BY StartAssumption, WordAssumption, SMT DEF TypeOK, Words
  <2> DEFINE s == Recovered(((now - g) % Word) % Short)
  <2>2. s = IF now >= g THEN now - g ELSE now - g + Word
    BY <2>1, RecoveredIsTime
  <2>3. Trip((now - g) % Word) = Lag(now, s) % Word
    BY DEF Trip
  <2> HIDE DEF s
  <2>4. CASE now >= g
    <3>1. Lag(now, s) = g
      BY <2>1, <2>2, <2>4, DayAssumption, SMT DEF Lag
    <3> QED BY <2>1, <2>3, <3>1, Remainder
  <2>5. CASE ~(now >= g)
    <3>1. Lag(now, s) = g - Word
      BY <2>1, <2>2, <2>5, DayAssumption, SMT DEF Lag
    <3>2. (g - Word) % Word = g
      <4>1. g - Word = (-1) * Word + g /\ g \in 0..(Word - 1) /\ g - Word \in Int
            /\ Word \in Nat \ {0}
        BY <2>1, SMT DEF Words
      <4> QED BY <4>1, RemainderUnique
    <3> QED BY <2>3, <3>1, <3>2
  <2> QED BY <2>4, <2>5
<1> QED BY <1>1, RoundTripTypes, PTL

\* The extremes the throttle goes by are those of one interval, whatever interval
\* is configured and however the clock jumps: an answer finds the epoch younger
\* than the interval, or starts it again.
THEOREM EpochsAreRenewed == Spec => EpochIsRenewed
<1> DEFINE Renewed ==
      \A g \in Lags :
         /\ Acknowledge((now - g) % Word) /\ estimates' # estimates
         /\ epoch <= now /\ now - epoch < Day
         => epoch' = now \/ now - epoch < config.interval
<1>1. TypeOK => Renewed
  <2> SUFFICES ASSUME TypeOK, NEW g \in Lags, Acknowledge((now - g) % Word),
                      estimates' # estimates, epoch <= now, now - epoch < Day,
                      ~(epoch' = now)
               PROVE  now - epoch < config.interval
    OBVIOUS
  <2>1. ~Restarted(config.interval)
    BY DEF Acknowledge
  <2>2. now \in Words /\ epoch \in Words /\ config.interval \in Words
    <3>1. config \in [interval : 0..(Word - 1), up : 0..(Word - 1), down : 0..(Word - 1)]
      BY StartAssumption DEF TypeOK
    <3>2. config.interval \in Words
      BY <3>1 DEF Words
    <3> QED BY <3>2 DEF TypeOK
  <2>3. now \in Int /\ epoch \in Int /\ config.interval \in Int
    BY <2>2, WordAssumption, SMT DEF Words
  <2>4. ~(Lag(now, epoch) >= config.interval)
    BY <2>1 DEF Restarted
  <2> DEFINE k == config.interval
  <2>5. k \in Int /\ ~(Lag(now, epoch) >= k)
    BY <2>3, <2>4
  <2> HIDE DEF k
  <2>6. now - epoch < k
    BY <2>3, <2>5, DayAssumption, SMT DEF Lag
  <2> QED BY <2>6 DEF k
<1> QED BY <1>1, RoundTripTypes, PTL DEF EpochIsRenewed, Spec

-----------------------------------------------------------------------------
(* The start and the end of the library.                                   *)

\* A set of natural numbers with 0 and the successors of its elements holds them all.
LEMMA SetInduction ==
    ASSUME NEW T \in SUBSET Nat, 0 \in T, \A n \in T : n + 1 \in T
    PROVE  T = Nat
<1> DEFINE U == Nat \ T
<1>1. SUFFICES ASSUME U # {} PROVE FALSE
  OBVIOUS
<1>2. IsWellFoundedOn(OpToRel(<, Nat), Nat)
  BY NatLessThanWellFounded
<1>3. \E x \in U : \A y \in U : ~ (<<y, x>> \in OpToRel(<, Nat))
  BY <1>1, <1>2, WFMin
<1>4. PICK x \in U : \A y \in U : ~(y < x)
  BY <1>3 DEF OpToRel
<1>5. x # 0 /\ x - 1 \in Nat /\ x - 1 \in T
  BY <1>4
<1> QED BY <1>5

-----------------------------------------------------------------------------
(* The loader's state, and what it counts.                                 *)

Size == Len(loadings)

Loaders == [handle : [1..Size -> BOOLEAN], bound : SUBSET (1..Size), open : [Names -> Nat],
            closed : BOOLEAN, ok : BOOLEAN]

\* Each module is open once for every loading of those that names it.
Opens(those, opened) ==
    \A n \in Names : opened[n] = Cardinality({i \in those : loadings[i].name = n})

\* The loadings up to k that hold a module.
Held(s, k) == {i \in 1..k : s.handle[i]}

\* A table is a sequence, and each loading names a module.
LEMMA TableIsSequence ==
    ASSUME loadings \in Tables
    PROVE  Size \in Nat /\ DOMAIN loadings = 1..Size /\ \A i \in 1..Size : loadings[i].name \in Names
<1>1. loadings \in Seq({loadings[i] : i \in DOMAIN loadings})
  BY TableAssumption
<1>2. Size \in Nat /\ DOMAIN loadings = 1..Size
  BY <1>1 DEF Size
<1> QED BY <1>2, TableAssumption

\* One more loading holds its module, and it is open once more.
LEMMA HeldOnceMore ==
    ASSUME loadings \in Tables, NEW those \in SUBSET (1..Size), NEW i \in (1..Size) \ those,
           NEW opened \in [Names -> Nat], Opens(those, opened)
    PROVE  Opens(those \union {i}, [opened EXCEPT ![loadings[i].name] = @ + 1])
<1>1. Size \in Nat /\ \A j \in 1..Size : loadings[j].name \in Names
  BY TableIsSequence
<1> DEFINE m == loadings[i].name
           more == [opened EXCEPT ![m] = @ + 1]
<1> SUFFICES ASSUME NEW n \in Names
             PROVE  more[n] = Cardinality({j \in those \union {i} : loadings[j].name = n})
  BY DEF Opens
<1> DEFINE S == {j \in those : loadings[j].name = n}
<1>2. IsFiniteSet(S) /\ Cardinality(S) = opened[n]
  <2>1. IsFiniteSet(1..Size) /\ S \subseteq 1..Size
    <3>1. 1 \in Int /\ Size \in Int
      BY <1>1
    <3> QED BY <3>1, FS_Interval
  <2> QED BY <2>1, FS_Subset DEF Opens
<1>3. CASE n = m
  <2>1. {j \in those \union {i} : loadings[j].name = n} = S \union {i} /\ i \notin S
    BY <1>3
  <2>2. Cardinality(S \union {i}) = Cardinality(S) + 1
    BY <1>2, <2>1, FS_AddElement
  <2> QED BY <1>2, <1>3, <2>1, <2>2
<1>4. CASE n # m
  <2>1. {j \in those \union {i} : loadings[j].name = n} = S
    BY <1>4
  <2> QED BY <1>2, <1>4, <2>1
<1> QED BY <1>3, <1>4

\* A module that is unloaded was open, and is open once less.
LEMMA HeldOnceLess ==
    ASSUME loadings \in Tables, NEW those \in SUBSET (1..Size), NEW i \in those,
           NEW opened \in [Names -> Nat], Opens(those, opened)
    PROVE  /\ opened[loadings[i].name] # 0
           /\ [opened EXCEPT ![loadings[i].name] = @ - 1] \in [Names -> Nat]
           /\ Opens(those \ {i}, [opened EXCEPT ![loadings[i].name] = @ - 1])
<1>1. Size \in Nat /\ \A j \in 1..Size : loadings[j].name \in Names
  BY TableIsSequence
<1> DEFINE m == loadings[i].name
           less == [opened EXCEPT ![m] = @ - 1]
           At(n) == {j \in those : loadings[j].name = n}
<1>2. \A n \in Names : IsFiniteSet(At(n)) /\ Cardinality(At(n)) = opened[n]
  <2>1. IsFiniteSet(1..Size) /\ \A n \in Names : At(n) \subseteq 1..Size
    <3>1. 1 \in Int /\ Size \in Int
      BY <1>1
    <3> QED BY <3>1, FS_Interval
  <2> QED BY <2>1, FS_Subset DEF Opens
<1>3. m \in Names /\ i \in At(m)
  BY <1>1
<1>4. /\ Cardinality(At(m) \ {i}) = Cardinality(At(m)) - 1
      /\ Cardinality(At(m) \ {i}) \in Nat
  <2>1. IsFiniteSet(At(m)) /\ IsFiniteSet(At(m) \ {i})
    BY <1>2, <1>3, FS_RemoveElement
  <2> HIDE DEF At
  <2> QED BY <1>3, <2>1, FS_RemoveElement, FS_CardinalityType
<1>5. opened[m] # 0 /\ opened[m] - 1 \in Nat
  <2>1. opened[m] \in Nat /\ opened[m] = Cardinality(At(m))
    BY <1>2, <1>3
  <2>2. ASSUME NEW x \in Nat, x - 1 \in Nat PROVE x # 0
    BY <2>2
  <2> HIDE DEF At, m
  <2> QED BY <1>4, <2>1, <2>2
<1>6. less \in [Names -> Nat]
  BY <1>5
<1>7. ASSUME NEW n \in Names
      PROVE  less[n] = Cardinality({j \in those \ {i} : loadings[j].name = n})
  <2>1. CASE n = m
    <3>1. {j \in those \ {i} : loadings[j].name = n} = At(m) \ {i}
      BY <2>1
    <3> QED BY <1>2, <1>3, <1>4, <2>1, <3>1
  <2>2. CASE n # m
    <3>1. {j \in those \ {i} : loadings[j].name = n} = At(n)
      BY <2>2
    <3> QED BY <1>2, <2>2, <3>1
  <2> QED BY <2>1, <2>2
<1> QED BY <1>5, <1>6, <1>7 DEF Opens

-----------------------------------------------------------------------------
(* The recursions.                                                         *)

\* The function that UnloadAll defines: the loader after each of the first k loadings.
Unloading(un, s, k, in, forget) ==
    un = [j \in 0..k |->
            IF j = 0 THEN s
            ELSE IF j \notin in THEN un[j - 1]
            ELSE LET u == Unload(un[j - 1], j) IN IF forget THEN [u EXCEPT !.handle[j] = FALSE] ELSE u]

\* The loader after one loading more is unloaded.
Unloaded(t, j, in, forget) ==
    IF j \notin in THEN t
    ELSE LET u == Unload(t, j) IN IF forget THEN [u EXCEPT !.handle[j] = FALSE] ELSE u

\* The recursion of UnloadAll has a solution, and UnloadAll is its last value.
LEMMA UnloadAllDefined ==
    ASSUME NEW s, NEW k \in Nat, NEW in, NEW forget
    PROVE  \E un : /\ UnloadAll(s, k, in, forget) = un[k]
                   /\ un[0] = s
                   /\ \A j \in 1..k : un[j] = Unloaded(un[j - 1], j, in, forget)
<1> DEFINE T == {m \in Nat : \E un : Unloading(un, s, m, in, forget)}
<1>1. T = Nat
  <2>1. 0 \in T
    <3> DEFINE un == [j \in 0..0 |-> s]
    <3>1. Unloading(un, s, 0, in, forget)
      BY DEF Unloading
    <3> QED BY <3>1
  <2>2. ASSUME NEW m \in T PROVE m + 1 \in T
    <3>1. PICK un : Unloading(un, s, m, in, forget)
      OBVIOUS
    <3> DEFINE g == [j \in 0..(m + 1) |-> IF j <= m THEN un[j] ELSE Unloaded(un[m], j, in, forget)]
    <3>2. \A j \in 0..m : un[j] = IF j = 0 THEN s ELSE Unloaded(un[j - 1], j, in, forget)
      BY <3>1 DEF Unloading, Unloaded
    <3>3. \A j \in 0..(m + 1) : g[j] = IF j = 0 THEN s ELSE Unloaded(g[j - 1], j, in, forget)
      BY <3>2
    <3> HIDE DEF g
    <3>4. g = [j \in 0..(m + 1) |-> IF j = 0 THEN s ELSE Unloaded(g[j - 1], j, in, forget)]
      <4>1. g = [j \in 0..(m + 1) |-> g[j]]
        BY DEF g
      <4> QED BY <3>3, <4>1
    <3>5. Unloading(g, s, m + 1, in, forget)
      BY <3>4 DEF Unloading, Unloaded
    <3> QED BY <3>5
  <2> HIDE DEF T
  <2> QED BY <2>1, <2>2, SetInduction DEF T
<1>2. \E un : Unloading(un, s, k, in, forget)
  BY <1>1
<1> DEFINE un == CHOOSE un : Unloading(un, s, k, in, forget)
<1>3. Unloading(un, s, k, in, forget)
  BY <1>2
<1>4. UnloadAll(s, k, in, forget) = un[k]
  BY DEF UnloadAll, Unloading
<1> HIDE DEF un
<1>5. un[0] = s /\ \A j \in 1..k : un[j] = Unloaded(un[j - 1], j, in, forget)
  <2>1. \A j \in 0..k : un[j] = IF j = 0 THEN s ELSE Unloaded(un[j - 1], j, in, forget)
    BY <1>3 DEF Unloading, Unloaded
  <2> QED BY <2>1
<1> QED BY <1>4, <1>5

-----------------------------------------------------------------------------
(* Unloading.                                                              *)

\* What one loading unloaded leaves: the loader's state is one, nothing was closed
\* that was not open, and the others hold what they held.
LEMMA OneUnloaded ==
    ASSUME loadings \in Tables, NEW t \in Loaders, ~t.closed, NEW j \in 1..Size,
           NEW in, NEW forget \in BOOLEAN,
           NEW those \in SUBSET (1..Size), j \in those <=> t.handle[j], Opens(those, t.open)
    PROVE  LET u == Unloaded(t, j, in, forget)
           IN  /\ u \in Loaders /\ ~u.closed /\ u.ok = t.ok
               /\ Opens(IF j \in in THEN those \ {j} ELSE those, u.open)
               /\ u.handle = IF j \in in /\ forget THEN [t.handle EXCEPT ![j] = FALSE] ELSE t.handle
<1> DEFINE m == loadings[j].name
           v == [t EXCEPT !.open[m] = @ - 1]
<1>1. t.open \in [Names -> Nat] /\ m \in Names
  BY TableIsSequence DEF Loaders
<1>2. CASE j \notin in
  BY <1>2 DEF Unloaded
<1>3. CASE j \in in /\ ~t.handle[j]
  <2>1. Unload(t, j) = t /\ those \ {j} = those
    BY <1>3 DEF Unload
  <2>2. CASE ~forget
    BY <1>3, <2>1, <2>2 DEF Unloaded
  <2>3. CASE forget
    <3>1. Unloaded(t, j, in, forget) = [t EXCEPT !.handle[j] = FALSE]
      BY <1>3, <2>1, <2>3 DEF Unloaded
    <3> DEFINE w == [t EXCEPT !.handle[j] = FALSE]
    <3>2. /\ w \in Loaders /\ ~w.closed /\ w.ok = t.ok /\ w.open = t.open
          /\ w.handle = [t.handle EXCEPT ![j] = FALSE]
      BY DEF Loaders
    <3>3. Opens(IF j \in in THEN those \ {j} ELSE those, w.open)
      BY <1>3, <2>1, <3>2
    <3> HIDE DEF w
    <3> QED BY <1>3, <2>3, <3>1, <3>2, <3>3 DEF w
  <2> QED BY <2>2, <2>3
<1>4. CASE j \in in /\ t.handle[j]
  <2>1. /\ t.open[m] # 0 /\ [t.open EXCEPT ![m] = @ - 1] \in [Names -> Nat]
        /\ Opens(those \ {j}, [t.open EXCEPT ![m] = @ - 1])
    BY <1>1, <1>4, HeldOnceLess
  <2>2. Unload(t, j) = v
    BY <1>4, <2>1 DEF Unload
  <2>3. v = [t EXCEPT !.open = [t.open EXCEPT ![m] = @ - 1]]
    BY DEF Loaders
  <2>4. /\ v \in Loaders /\ ~v.closed /\ v.ok = t.ok /\ v.handle = t.handle
        /\ v.open = [t.open EXCEPT ![m] = @ - 1]
    BY <2>1, <2>3 DEF Loaders
  <2> HIDE DEF v
  <2>5. CASE ~forget
    <3>1. Unloaded(t, j, in, forget) = v
      BY <1>4, <2>2, <2>5 DEF Unloaded
    <3> QED BY <1>4, <2>1, <2>4, <2>5, <3>1
  <2>6. CASE forget
    <3>1. Unloaded(t, j, in, forget) = [v EXCEPT !.handle[j] = FALSE]
      BY <1>4, <2>2, <2>6 DEF Unloaded
    <3> DEFINE w == [v EXCEPT !.handle[j] = FALSE]
    <3>2. /\ w \in Loaders /\ ~w.closed /\ w.ok = v.ok /\ w.open = v.open
          /\ w.handle = [v.handle EXCEPT ![j] = FALSE]
      BY <2>4 DEF Loaders
    <3> QED BY <1>4, <2>1, <2>4, <2>6, <3>1, <3>2
  <2> QED BY <2>5, <2>6
<1> QED BY <1>2, <1>3, <1>4

\* Going through the first k loadings, those of a set give up their modules, and the
\* others keep theirs.
LEMMA UnloadAllKeeps ==
    ASSUME loadings \in Tables, NEW s \in Loaders, ~s.closed, NEW k \in 0..Size,
           NEW in, NEW forget \in BOOLEAN, Opens(Held(s, k), s.open)
    PROVE  LET u == UnloadAll(s, k, in, forget)
           IN  /\ u \in Loaders /\ ~u.closed /\ u.ok = s.ok
               /\ Opens(Held(s, k) \ in, u.open)
               /\ \A i \in 1..Size : u.handle[i] <=> s.handle[i] /\ ~(forget /\ i <= k /\ i \in in)
<1>1. Size \in Nat /\ k \in Nat
  BY TableIsSequence
<1>2. PICK un : /\ UnloadAll(s, k, in, forget) = un[k]
                /\ un[0] = s
                /\ \A j \in 1..k : un[j] = Unloaded(un[j - 1], j, in, forget)
  BY <1>1, UnloadAllDefined
<1> DEFINE Left(j) == {i \in Held(s, k) : ~(i <= j /\ i \in in)}
           Good(j) == /\ un[j] \in Loaders /\ ~un[j].closed /\ un[j].ok = s.ok
                      /\ Opens(Left(j), un[j].open)
                      /\ \A i \in 1..Size :
                           un[j].handle[i] <=> s.handle[i] /\ ~(forget /\ i <= j /\ i \in in)
           T == {j \in Nat : j <= k => Good(j)}
<1>3. 0 \in T
  <2>1. Left(0) = Held(s, k)
    BY <1>1 DEF Held
  <2>2. \A i \in 1..Size : ~(i <= 0)
    BY <1>1
  <2> QED BY <1>2, <2>1, <2>2
<1>4. ASSUME NEW j \in T PROVE j + 1 \in T
  <2>1. SUFFICES ASSUME j + 1 <= k PROVE Good(j + 1)
    OBVIOUS
  <2> DEFINE n == j + 1
             t == un[j]
  <2>2. j \in Nat /\ j <= k /\ n \in 1..k /\ n \in 1..Size /\ n - 1 = j
    BY <1>1, <2>1
  <2>3. Good(j)
    BY <2>2
  <2>4. un[n] = Unloaded(t, n, in, forget)
    BY <1>2, <2>2
  <2>5. Left(j) \in SUBSET (1..Size) /\ (n \in Left(j) <=> t.handle[n])
    <3>1. ~(n <= j)
      BY <2>2
    <3>2. t.handle[n] <=> s.handle[n]
      BY <2>2, <2>3, <3>1
    <3> QED BY <1>1, <2>2, <3>1, <3>2 DEF Held
  <2> HIDE DEF n, t, Left
  <2>6. /\ un[n] \in Loaders /\ ~un[n].closed /\ un[n].ok = t.ok
        /\ Opens(IF n \in in THEN Left(j) \ {n} ELSE Left(j), un[n].open)
        /\ un[n].handle = IF n \in in /\ forget THEN [t.handle EXCEPT ![n] = FALSE] ELSE t.handle
    <3>1. t \in Loaders /\ ~t.closed /\ Opens(Left(j), t.open)
      BY <2>3 DEF t
    <3>2. un[n] = Unloaded(t, n, in, forget)
      BY <2>4
    <3> QED BY <2>2, <2>5, <3>1, <3>2, OneUnloaded
  <2>7. (IF n \in in THEN Left(j) \ {n} ELSE Left(j)) = Left(n)
    <3>1. \A i \in 1..k : i <= n <=> i <= j \/ i = n
      BY <1>1, <2>2 DEF n
    <3> QED BY <3>1 DEF Left, Held
  <2>8. \A i \in 1..Size :
          un[n].handle[i] <=> s.handle[i] /\ ~(forget /\ i <= n /\ i \in in)
    <3>1. SUFFICES ASSUME NEW i \in 1..Size
                   PROVE  un[n].handle[i] <=> s.handle[i] /\ ~(forget /\ i <= n /\ i \in in)
      OBVIOUS
    <3>2. i <= n <=> i <= j \/ i = n
      BY <1>1, <2>2 DEF n
    <3>3. t.handle[i] <=> s.handle[i] /\ ~(forget /\ i <= j /\ i \in in)
      BY <2>3 DEF t
    <3>4. t.handle \in [1..Size -> BOOLEAN]
      BY <2>3 DEF Loaders, t
    <3>5. un[n].handle[i] <=> t.handle[i] /\ ~(forget /\ i = n /\ i \in in)
      BY <2>6, <3>4
    <3> QED BY <3>2, <3>3, <3>5
  <2>9. Good(n)
    BY <2>3, <2>6, <2>7, <2>8 DEF t
  <2> QED BY <2>9 DEF n
<1>5. T = Nat
  <2> HIDE DEF T
  <2> QED BY <1>3, <1>4, SetInduction DEF T
<1>6. Good(k)
  <2>1. k \in T /\ k <= k
    BY <1>1, <1>5
  <2> QED BY <2>1
<1>7. Left(k) = Held(s, k) \ in
  BY <1>1 DEF Held
<1> QED BY <1>2, <1>6, <1>7

-----------------------------------------------------------------------------
(* Loading.                                                                *)

\* What the loader has done after the first i loadings: while all went well, they hold
\* what is open; once a module that is needed was missing, nothing is open.
LoaderSound(s, i) ==
    /\ s \in Loaders /\ ~s.closed
    /\ Opens(IF s.ok THEN Held(s, i) ELSE {}, s.open)

\* Loading i, whether its module is there, not needed, or needed and missing.
LEMMA LoadKeeps ==
    ASSUME loadings \in Tables, NEW i \in 1..Size, NEW s, LoaderSound(s, i - 1), s.ok,
           NEW there, NEW whole
    PROVE  LoaderSound(Load(s, i, there, whole), i)
<1> DEFINE m == loadings[i].name
           t == [s EXCEPT !.handle[i] = FALSE]
<1>1. /\ Size \in Nat /\ i - 1 \in 0..Size /\ m \in Names /\ DOMAIN loadings = 1..Size
      /\ s.open \in [Names -> Nat] /\ Opens(Held(s, i - 1), s.open)
  BY TableIsSequence DEF LoaderSound, Loaders
<1>2. /\ t \in Loaders /\ ~t.closed /\ t.ok = s.ok /\ t.open = s.open
      /\ t.handle = [s.handle EXCEPT ![i] = FALSE]
  BY DEF LoaderSound, Loaders
<1>3. \A j \in 1..Size : j <= i <=> j <= i - 1 \/ j = i
  BY <1>1
<1>4. Held(t, i - 1) = Held(s, i - 1)
  <2>1. \A j \in 1..(i - 1) : j # i /\ j \in 1..Size
    BY <1>1
  <2> QED BY <1>2, <2>1 DEF Held, LoaderSound, Loaders
<1>5. CASE m \in there
  <2> DEFINE u == Loaded(s, i)
             v == Bound(u, i, whole)
  <2>1. /\ u \in Loaders /\ ~u.closed /\ u.ok = s.ok
        /\ u.open = [s.open EXCEPT ![m] = @ + 1]
        /\ u.handle = [s.handle EXCEPT ![i] = TRUE]
    <3>1. s \in Loaders /\ ~s.closed /\ [s.open EXCEPT ![m] = @ + 1] \in [Names -> Nat]
      BY <1>1 DEF LoaderSound
    <3>2. u = [s EXCEPT !.handle = [s.handle EXCEPT ![i] = TRUE],
                        !.open = [s.open EXCEPT ![m] = @ + 1]]
      BY <3>1 DEF Loaded, Loaders
    <3> HIDE DEF u
    <3> QED BY <3>1, <3>2 DEF Loaders
  <2> HIDE DEF u
  <2>2. /\ v \in Loaders /\ ~v.closed /\ v.ok = u.ok
        /\ v.open = u.open /\ v.handle = u.handle
    BY <2>1 DEF Bound, Loaders
  <2>3. Load(s, i, there, whole) = v
    BY <1>5 DEF Load, u
  <2>4. Held(v, i) = Held(s, i - 1) \union {i} /\ i \notin Held(s, i - 1)
    <3>1. s.handle \in [1..Size -> BOOLEAN]
      BY DEF LoaderSound, Loaders
    <3>2. \A j \in 1..Size : v.handle[j] <=> s.handle[j] \/ j = i
      BY <2>1, <2>2, <3>1
    <3>3. \A j : j \in 1..i <=> j \in 1..Size /\ j <= i
      BY <1>1
    <3>4. \A j : j \in 1..(i - 1) <=> j \in 1..Size /\ j <= i - 1
      BY <1>1
    <3>5. ~(i <= i - 1)
      BY <1>1
    <3> QED BY <1>1, <1>3, <3>2, <3>3, <3>4, <3>5 DEF Held
  <2>5. Opens(Held(v, i), v.open)
    <3>1. Held(s, i - 1) \in SUBSET (1..Size) /\ i \in (1..Size) \ Held(s, i - 1)
      BY <1>1, <2>4 DEF Held
    <3>2. Opens(Held(s, i - 1) \union {i}, [s.open EXCEPT ![m] = @ + 1])
      BY <1>1, <3>1, HeldOnceMore
    <3> QED BY <2>1, <2>2, <2>4, <3>2
  <2> HIDE DEF v
  <2> QED BY <2>1, <2>2, <2>3, <2>5 DEF LoaderSound
<1>6. CASE m \notin there /\ loadings[i].isOptional
  <2> DEFINE in == SameFeature(i)
             v == UnloadAll(t, i - 1, in, TRUE)
  <2>1. Load(s, i, there, whole) = v
    BY <1>6 DEF Load, OptionalFails
  <2>2. /\ v \in Loaders /\ ~v.closed /\ v.ok = t.ok
        /\ Opens(Held(t, i - 1) \ in, v.open)
        /\ \A j \in 1..Size : v.handle[j] <=> t.handle[j] /\ ~(TRUE /\ j <= i - 1 /\ j \in in)
    <3>1. Opens(Held(t, i - 1), t.open)
      BY <1>1, <1>2, <1>4
    <3> HIDE DEF t, in
    <3> QED BY <1>1, <1>2, <3>1, UnloadAllKeeps
  <2> HIDE DEF v, t, in
  <2>3. Held(v, i) = Held(t, i - 1) \ in
    <3>1. ~t.handle[i]
      BY <1>2 DEF LoaderSound, Loaders
    <3>2. \A j : j \in 1..i <=> j \in 1..Size /\ j <= i
      BY <1>1
    <3>3. \A j : j \in 1..(i - 1) <=> j \in 1..Size /\ j <= i - 1
      BY <1>1
    <3> QED BY <1>3, <2>2, <3>1, <3>2, <3>3 DEF Held
  <2> QED BY <1>2, <2>1, <2>2, <2>3 DEF LoaderSound
<1>7. CASE m \notin there /\ ~loadings[i].isOptional
  <2> DEFINE u == UnloadAll(t, i - 1, DOMAIN loadings, FALSE)
             v == [u EXCEPT !.ok = FALSE]
  <2>1. Load(s, i, there, whole) = v
    BY <1>7 DEF Load, MandatoryFails
  <2>2. u \in Loaders /\ ~u.closed /\ Opens(Held(t, i - 1) \ DOMAIN loadings, u.open)
    <3>1. Opens(Held(t, i - 1), t.open)
      BY <1>1, <1>2, <1>4
    <3> HIDE DEF t
    <3> QED BY <1>1, <1>2, <3>1, UnloadAllKeeps
  <2> HIDE DEF u
  <2>3. Held(t, i - 1) \ DOMAIN loadings = {}
    <3>1. \A j \in 1..(i - 1) : j \in 1..Size
      BY <1>1
    <3> QED BY <1>1, <3>1 DEF Held
  <2>4. v \in Loaders /\ ~v.closed /\ ~v.ok /\ v.open = u.open
    BY <2>2 DEF Loaders
  <2> HIDE DEF v, t
  <2> QED BY <2>1, <2>2, <2>3, <2>4 DEF LoaderSound
<1> QED BY <1>5, <1>6, <1>7

\* The function that LoadModules defines: the loader after each of the first n loadings.
Loading(load, n, there, whole) ==
    load = [i \in 0..n |->
              IF i = 0 THEN Loader
              ELSE IF ~load[i - 1].ok THEN load[i - 1] ELSE Load(load[i - 1], i, there, whole)]

\* The recursion of LoadModules has a solution, and LoadModules is its last value.
LEMMA LoadModulesDefined ==
    ASSUME Size \in Nat, NEW there, NEW whole
    PROVE  \E load :
             /\ LoadModules(there, whole) = load[Size]
             /\ load[0] = Loader
             /\ \A i \in 1..Size :
                  load[i] = IF ~load[i - 1].ok THEN load[i - 1]
                            ELSE Load(load[i - 1], i, there, whole)
<1> DEFINE After(t, i) == IF ~t.ok THEN t ELSE Load(t, i, there, whole)
           T == {m \in Nat : \E load : Loading(load, m, there, whole)}
<1>1. T = Nat
  <2>1. 0 \in T
    <3> DEFINE load == [j \in 0..0 |-> Loader]
    <3>1. Loading(load, 0, there, whole)
      BY DEF Loading
    <3> QED BY <3>1
  <2>2. ASSUME NEW m \in T PROVE m + 1 \in T
    <3>1. PICK load : Loading(load, m, there, whole)
      OBVIOUS
    <3> DEFINE g == [j \in 0..(m + 1) |-> IF j <= m THEN load[j] ELSE After(load[m], j)]
    <3>2. \A j \in 0..m : load[j] = IF j = 0 THEN Loader ELSE After(load[j - 1], j)
      BY <3>1 DEF Loading
    <3> HIDE DEF After
    <3>3. \A j \in 0..(m + 1) : g[j] = IF j = 0 THEN Loader ELSE After(g[j - 1], j)
      BY <3>2
    <3> HIDE DEF g
    <3>4. g = [j \in 0..(m + 1) |-> IF j = 0 THEN Loader ELSE After(g[j - 1], j)]
      <4>1. g = [j \in 0..(m + 1) |-> g[j]]
        BY DEF g
      <4> QED BY <3>3, <4>1
    <3>5. Loading(g, m + 1, there, whole)
      BY <3>4 DEF Loading, After
    <3> QED BY <3>5
  <2> HIDE DEF T
  <2> QED BY <2>1, <2>2, SetInduction DEF T
<1>2. \E load : Loading(load, Size, there, whole)
  BY <1>1
<1> DEFINE load == CHOOSE load : Loading(load, Size, there, whole)
<1>3. Loading(load, Size, there, whole)
  BY <1>2
<1>4. LoadModules(there, whole) = load[Size]
  BY DEF LoadModules, Loading, Size
<1> HIDE DEF load
<1>5. \A j \in 0..Size : load[j] = IF j = 0 THEN Loader ELSE After(load[j - 1], j)
  BY <1>3 DEF Loading
<1>6. load[0] = Loader /\ \A j \in 1..Size : load[j] = After(load[j - 1], j)
  <2> HIDE DEF After
  <2> QED BY <1>5
<1> QED BY <1>4, <1>6

\* Whatever modules are there, the loader ends with all it holds open, or with nothing.
LEMMA LoadModulesKeeps ==
    ASSUME loadings \in Tables, LoaderSound(Loader, 0), NEW there, NEW whole
    PROVE  LoaderSound(LoadModules(there, whole), Size)
<1>1. Size \in Nat
  BY TableIsSequence
<1>2. PICK load :
        /\ LoadModules(there, whole) = load[Size]
        /\ load[0] = Loader
        /\ \A i \in 1..Size :
             load[i] = IF ~load[i - 1].ok THEN load[i - 1] ELSE Load(load[i - 1], i, there, whole)
  BY <1>1, LoadModulesDefined
<1> DEFINE T == {i \in Nat : i <= Size => LoaderSound(load[i], i)}
<1>3. 0 \in T
  BY <1>2
<1>4. ASSUME NEW i \in T PROVE i + 1 \in T
  <2>1. SUFFICES ASSUME i + 1 <= Size PROVE LoaderSound(load[i + 1], i + 1)
    OBVIOUS
  <2>2. i \in Nat /\ i + 1 \in 1..Size /\ (i + 1) - 1 = i /\ LoaderSound(load[i], i)
    BY <1>1, <2>1
  <2>3. load[i + 1] = IF ~load[i].ok THEN load[i] ELSE Load(load[i], i + 1, there, whole)
    BY <1>2, <2>2
  <2>4. CASE ~load[i].ok
    BY <2>2, <2>3, <2>4 DEF LoaderSound
  <2>5. CASE load[i].ok
    <3>1. LoaderSound(Load(load[i], i + 1, there, whole), i + 1)
      BY <2>2, <2>5, LoadKeeps
    <3> QED BY <2>3, <2>5, <3>1
  <2> QED BY <2>4, <2>5
<1>5. T = Nat
  <2> HIDE DEF T
  <2> QED BY <1>3, <1>4, SetInduction DEF T
<1>6. Size \in T /\ Size <= Size
  BY <1>1, <1>5
<1> QED BY <1>2, <1>6

-----------------------------------------------------------------------------
(* The library.                                                            *)

\* What a started library holds is open, and nothing else; then the platform has a
\* table.
StartInv ==
    /\ StartTypeOK /\ ~closed /\ (isInitialized => loadingCount)
    /\ Opens(IF isInitialized THEN Held(Loader, Size) ELSE {}, open)

\* The loader begins with the table as it is.
LEMMA LoaderBegins ==
    ASSUME StartInv
    PROVE  /\ loadings \in Tables /\ Size \in Nat /\ DOMAIN loadings = 1..Size
           /\ Loader \in Loaders /\ ~Loader.closed /\ Loader.ok
           /\ Loader.handle = handle /\ Loader.bound = bound /\ Loader.open = open
<1>1. loadings \in Tables /\ DOMAIN loadings = 1..Size /\ Size \in Nat
  BY TableIsSequence DEF StartInv, StartTypeOK
<1> QED BY <1>1 DEF StartInv, StartTypeOK, Loader, Loaders

\* The library is started, or fails to.
LEMMA InitializeKeeps ==
    ASSUME StartInv, Initialize
    PROVE  StartInv'
<1>1. PICK there \in SUBSET Names, whole \in SUBSET Names :
        /\ TableIs(LoadModules(there, whole))
        /\ isInitialized' = LoadModules(there, whole).ok
        /\ loadingCount' = (loadingCount \/ LoadModules(there, whole).ok)
  BY DEF Initialize
<1> DEFINE s == LoadModules(there, whole)
<1>2. LoaderSound(Loader, 0)
  <2>1. Held(Loader, 0) = {}
    BY DEF Held
  <2> QED BY <2>1, LoaderBegins DEF LoaderSound, StartInv, Initialize
<1>3. LoaderSound(s, Size)
  BY <1>2, LoaderBegins, LoadModulesKeeps
<1>4. /\ handle' = s.handle /\ bound' = s.bound /\ open' = s.open /\ closed' = s.closed
      /\ isInitialized' = s.ok /\ loadingCount' = (loadingCount \/ s.ok)
  BY <1>1 DEF TableIs
<1> HIDE DEF s
<1>5. loadings' = loadings /\ starts' \in 0..MaxStarts /\ Size' = Size
  BY TableAssumption DEF Initialize, StartInv, StartTypeOK, Size
<1>6. Held(Loader, Size)' = Held(s, Size)
  BY <1>4, <1>5 DEF Held, Loader
<1>7. (Opens(IF isInitialized THEN Held(Loader, Size) ELSE {}, open))'
  BY <1>3, <1>4, <1>5, <1>6 DEF LoaderSound, Opens
<1>8. StartTypeOK'
  BY <1>3, <1>4, <1>5, LoaderBegins DEF LoaderSound, Loaders, StartInv, StartTypeOK
<1> QED BY <1>3, <1>4, <1>7, <1>8 DEF LoaderSound, StartInv

\* The library ends.
LEMMA UninitializeKeeps ==
    ASSUME StartInv, Uninitialize
    PROVE  StartInv'
<1> DEFINE s == UnloadAll(Loader, Size, DOMAIN loadings, FALSE)
<1>1. TableIs(s) /\ isInitialized /\ isInitialized' = FALSE /\ UNCHANGED <<loadings, loadingCount, starts>>
  BY DEF Uninitialize, StartInv, Size
<1>2. s \in Loaders /\ ~s.closed /\ Opens(Held(Loader, Size) \ DOMAIN loadings, s.open)
  <2>1. Opens(Held(Loader, Size), Loader.open) /\ Size \in 0..Size
    BY <1>1, LoaderBegins DEF StartInv
  <2> QED BY <2>1, LoaderBegins, UnloadAllKeeps
<1> HIDE DEF s
<1>3. Held(Loader, Size) \ DOMAIN loadings = {}
  BY LoaderBegins DEF Held
<1>4. handle' = s.handle /\ bound' = s.bound /\ open' = s.open /\ closed' = s.closed
  BY <1>1 DEF TableIs
<1>5. (Opens(IF isInitialized THEN Held(Loader, Size) ELSE {}, open))'
  BY <1>1, <1>2, <1>3, <1>4 DEF Opens
<1>6. StartTypeOK'
  <2>1. /\ s.handle \in [DOMAIN loadings -> BOOLEAN] /\ s.bound \subseteq DOMAIN loadings
        /\ s.open \in [Names -> Nat] /\ s.closed \in BOOLEAN
    BY <1>2, LoaderBegins DEF Loaders
  <2>2. isInitialized' \in BOOLEAN
    BY <1>1 DEF Uninitialize
  <2> QED BY <1>1, <1>4, <2>1, <2>2 DEF StartInv, StartTypeOK
<1> QED BY <1>1, <1>2, <1>4, <1>5, <1>6 DEF StartInv

\* The inductive invariant of starts and ends.
THEOREM StartsAreSound == StartSpec => []StartInv
<1>1. StartInit => StartInv
  <2> SUFFICES ASSUME StartInit PROVE StartInv
    OBVIOUS
  <2>1. StartTypeOK
    <3>1. MaxStarts \in Nat /\ 0 \in 0..MaxStarts
      BY TableAssumption
    <3> QED BY <3>1 DEF StartInit, StartTypeOK
  <2>2. Opens({}, open)
    BY FS_EmptySet DEF StartInit, Opens
  <2> QED BY <2>1, <2>2 DEF StartInit, StartInv
<1>2. StartInv /\ [StartNext]_startVars => StartInv'
  <2> SUFFICES ASSUME StartInv, [StartNext]_startVars PROVE StartInv'
    OBVIOUS
  <2>1. ASSUME UNCHANGED <<isInitialized, loadings, handle, loadingCount, bound, open, closed>>,
               starts' \in 0..MaxStarts
        PROVE  StartInv'
    <3>1. Held(Loader, Size)' = Held(Loader, Size)
      BY <2>1 DEF Held, Loader, Size
    <3>2. (Opens(IF isInitialized THEN Held(Loader, Size) ELSE {}, open))'
      BY <2>1, <3>1 DEF StartInv, Opens
    <3>3. StartTypeOK'
      BY <2>1 DEF StartInv, StartTypeOK
    <3> QED BY <2>1, <3>2, <3>3 DEF StartInv
  <2>2. CASE UNCHANGED startVars
    BY <2>1, <2>2 DEF startVars, StartInv, StartTypeOK
  <2>3. CASE RefusePlatform
    <3>1. starts' \in 0..MaxStarts
      BY <2>3, TableAssumption DEF RefusePlatform, StartInv, StartTypeOK
    <3> QED BY <2>1, <2>3, <3>1 DEF RefusePlatform
  <2> QED BY <2>2, <2>3, InitializeKeeps, UninitializeKeeps DEF StartNext
<1> QED BY <1>1, <1>2, PTL DEF StartSpec

\* However starts fail and whatever stale handles they leave in the table: a module is
\* open as often as loadings of a started library hold it, and none is closed twice.
THEOREM ModulesStayHeld == StartSpec => []ModulesAreHeld
<1>1. StartInv => ModulesAreHeld
  <2> SUFFICES ASSUME StartInv, NEW n \in Names
               PROVE  open[n] = IF isInitialized
                                THEN Cardinality({i \in DOMAIN loadings : handle[i] /\ loadings[i].name = n})
                                ELSE 0
    BY DEF StartInv, ModulesAreHeld
  <2>1. CASE isInitialized
    <3>1. {i \in Held(Loader, Size) : loadings[i].name = n}
            = {i \in DOMAIN loadings : handle[i] /\ loadings[i].name = n}
      BY LoaderBegins DEF Held
    <3> QED BY <2>1, <3>1 DEF StartInv, Opens
  <2>2. CASE ~isInitialized
    <3>1. {i \in {} : loadings[i].name = n} = {}
      OBVIOUS
    <3> QED BY <2>2, <3>1, FS_EmptySet DEF StartInv, Opens
  <2> QED BY <2>1, <2>2
<1> QED BY <1>1, StartsAreSound, PTL

-----------------------------------------------------------------------------
(* Numbers.                                                                *)

\* A set of natural numbers that is not empty has a least one.
LEMMA LeastOne ==
    ASSUME NEW U \in SUBSET Nat, U # {}
    PROVE  \E x \in U : \A y \in U : x <= y
<1>1. IsWellFoundedOn(OpToRel(<, Nat), Nat)
  BY NatLessThanWellFounded
<1>2. \E x \in U : \A y \in U : ~ (<<y, x>> \in OpToRel(<, Nat))
  BY <1>1, WFMin
<1>3. PICK x \in U : \A y \in U : ~(y < x)
  BY <1>2 DEF OpToRel
<1>4. \A y \in U : x <= y
  BY <1>3
<1> QED BY <1>4

\* What is left of a number between -b and b when it is divided by b.
LEMMA SmallRemainder ==
    ASSUME NEW b \in Nat \ {0}, NEW x \in (-b)..(b - 1)
    PROVE  x % b = IF x >= 0 THEN x ELSE x + b
<1> DEFINE k == x \div b
           m == x % b
<1>1. k \in Int /\ m \in 0..(b - 1) /\ x = k * b + m
  BY SMT
<1> HIDE DEF k, m
<1>2. ~(k >= 1)
  <2>1. ASSUME k >= 1 PROVE FALSE
    <3>1. k * b >= b
      BY <1>1, <2>1, SMT
    <3> QED BY <1>1, <3>1, SMT
  <2> QED BY <2>1
<1>3. ~(k <= -2)
  <2>1. ASSUME k <= -2 PROVE FALSE
    <3>1. k * b <= (-2) * b
      BY <1>1, <2>1, SMT
    <3> QED BY <1>1, <3>1, SMT
  <2> QED BY <2>1
<1>4. k = 0 \/ k = -1
  BY <1>1, <1>2, <1>3, SMT
<1>5. CASE k = 0
  BY <1>1, <1>5, SMT DEF m
<1>6. CASE k = -1
  <2>1. k * b = -b
    BY <1>6, SMT
  <2> QED BY <1>1, <2>1, SMT DEF m
<1> QED BY <1>4, <1>5, <1>6

-----------------------------------------------------------------------------
(* Distances.                                                              *)

\* Where a slot is in a turn that begins after slot s.
Behind(p, s) == IF p > s THEN p - s - 1 ELSE p - s - 1 + PeerCount

\* The distance of a slot is how far it is behind the one serviced last.
LEMMA DistanceIs ==
    ASSUME serviced \in Peers, NEW p \in Peers
    PROVE  Distance(p) = Behind(p, serviced) /\ Distance(p) \in 0..(PeerCount - 1)
<1>1. PeerCount \in Nat \ {0} /\ p \in 1..PeerCount /\ serviced \in 1..PeerCount
  BY PollAssumption DEF Peers
<1> DEFINE x == p - serviced - 1
<1>2. x \in (-PeerCount)..(PeerCount - 1)
  BY <1>1
<1>3. x % PeerCount = IF x >= 0 THEN x ELSE x + PeerCount
  BY <1>1, <1>2, SmallRemainder
<1>4. (x >= 0) <=> (p > serviced)
  BY <1>1
<1>5. x % PeerCount = Behind(p, serviced)
  BY <1>1, <1>3, <1>4 DEF Behind
<1>6. Behind(p, serviced) \in 0..(PeerCount - 1)
  BY <1>1 DEF Behind
<1> QED BY <1>5, <1>6 DEF Distance

\* When slot p was served, those behind it keep their order.
LEMMA OrderKept ==
    ASSUME NEW s \in Peers, NEW p \in Peers, NEW w \in Peers, NEW q \in Peers,
           w # p, Behind(p, s) <= Behind(w, s), Behind(w, s) < Behind(q, s)
    PROVE  Behind(w, p) < Behind(q, p)
<1>1. PeerCount \in Nat \ {0} /\ s \in 1..PeerCount /\ p \in 1..PeerCount
      /\ w \in 1..PeerCount /\ q \in 1..PeerCount
  BY PollAssumption DEF Peers
<1> QED BY <1>1 DEF Behind

\* The slot that was served is the last of the next turn.
LEMMA ServedIsLast ==
    ASSUME NEW p \in Peers, NEW w \in Peers, w # p
    PROVE  Behind(w, p) < Behind(p, p)
<1>1. PeerCount \in Nat \ {0} /\ p \in 1..PeerCount /\ w \in 1..PeerCount
  BY PollAssumption DEF Peers
<1> QED BY <1>1 DEF Behind

\* If a client has an event, there is one whose turn it is.
LEMMA SomeoneIsNext ==
    ASSUME serviced \in Peers, NEW p \in Peers, HasEvent(p)
    PROVE  NextInTurn # {}
<1> DEFINE D == {Distance(q) : q \in {r \in Peers : HasEvent(r)}}
<1>1. D \in SUBSET Nat
  BY DistanceIs
<1>2. D # {}
  OBVIOUS
<1>3. PICK x \in D : \A y \in D : x <= y
  BY <1>1, <1>2, LeastOne
<1>4. PICK q \in Peers : HasEvent(q) /\ x = Distance(q)
  OBVIOUS
<1>5. \A r \in Peers : HasEvent(r) => Distance(q) <= Distance(r)
  BY <1>3, <1>4
<1>6. q \in NextInTurn
  BY <1>4, <1>5 DEF NextInTurn
<1> QED BY <1>6

-----------------------------------------------------------------------------
(* The invariant.                                                          *)

\* Whoever was passed over once waits, and comes before the one that was served.
InTurn ==
    \A w, q \in Peers :
        passed[<<w, q>>] > 0 =>
            Waits(w) /\ passed[<<w, q>>] = 1 /\ Behind(w, serviced) < Behind(q, serviced)

\* A call that returned nothing was the last thing that happened.
Settled == returned = "nothing" => stage = "app" /\ NothingIsLeft

PollInv == PollTypeOK /\ InTurn /\ Settled

\* One slot of the host.
Slots == [state : PeerStates, waiting : [PeerChannels -> 0..MaxWaiting]]

\* A slot without packets is one.
LEMMA FreeSlot ==
    /\ NoPackets \in [PeerChannels -> 0..MaxWaiting]
    /\ FreePeer \in Slots /\ FreePeer.state = "free" /\ FreePeer.waiting = NoPackets
    /\ \A to \in PeerStates :
          [FreePeer EXCEPT !.state = to] \in Slots /\ [FreePeer EXCEPT !.state = to].state = to
<1>1. MaxWaiting \in Nat /\ 0 \in 0..MaxWaiting
  BY PollAssumption
<1> QED BY <1>1 DEF NoPackets, FreePeer, Slots, PeerStates

\* A packet is taken from the first channel that has one.
LEMMA OnePacketLess ==
    ASSUME NEW w \in [PeerChannels -> 0..MaxWaiting], w # NoPackets
    PROVE  PollReceived(w) \in [PeerChannels -> 0..MaxWaiting]
<1> DEFINE U == {i \in PeerChannels : w[i] > 0}
           Earliest(i) == w[i] > 0 /\ \A j \in PeerChannels : w[j] > 0 => i <= j
<1>1. MaxWaiting \in Nat /\ U \in SUBSET Nat
  BY PollAssumption DEF PeerChannels
<1>2. U # {}
  <2>1. ASSUME U = {} PROVE FALSE
    <3>1. \A i \in PeerChannels : w[i] = 0
      BY <1>1, <2>1
    <3> QED BY <3>1 DEF NoPackets
  <2> QED BY <2>1
<1>3. \E i \in U : \A j \in U : i <= j
  BY <1>1, <1>2, LeastOne
<1>4. \E i \in PeerChannels : Earliest(i)
  BY <1>3
<1> DEFINE f == CHOOSE i \in PeerChannels : Earliest(i)
<1>5. f \in PeerChannels /\ Earliest(f)
  BY <1>4
<1> HIDE DEF f
<1>6. w[f] - 1 \in 0..MaxWaiting
  BY <1>1, <1>5
<1>7. [w EXCEPT ![f] = @ - 1] \in [PeerChannels -> 0..MaxWaiting]
  BY <1>6
<1> QED BY <1>7 DEF PollReceived, f

\* What a step that gives up p, or changes it, leaves to be counted.
LEMMA ForgottenKeeps ==
    ASSUME PollInv, NEW p \in Peers, passed' = Forgotten(p), serviced' = serviced,
           \A w \in Peers : w # p => peer'[w] = peer[w]
    PROVE  passed' \in [Peers \X Peers -> 0..2] /\ InTurn'
<1>1. passed' \in [Peers \X Peers -> 0..2]
  BY DEF PollInv, PollTypeOK, Forgotten
<1>2. ASSUME NEW w \in Peers, NEW q \in Peers, passed'[<<w, q>>] > 0
      PROVE  Waits(w)' /\ passed'[<<w, q>>] = 1 /\ Behind(w, serviced') < Behind(q, serviced')
  <2>1. w # p /\ passed'[<<w, q>>] = passed[<<w, q>>]
    BY <1>2 DEF Forgotten
  <2>2. Waits(w) /\ passed[<<w, q>>] = 1 /\ Behind(w, serviced) < Behind(q, serviced)
    BY <1>2, <2>1 DEF PollInv, InTurn
  <2> QED BY <2>1, <2>2 DEF Waits
<1>3. InTurn'
  BY <1>2 DEF InTurn
<1> QED BY <1>1, <1>3

\* What a step that serves nobody, and ends nobody's waiting, leaves to be counted.
LEMMA StillInTurn ==
    ASSUME PollInv, UNCHANGED <<serviced, passed>>, \A w \in Peers : Waits(w) => Waits(w)'
    PROVE  passed' \in [Peers \X Peers -> 0..2] /\ InTurn'
BY DEF PollInv, PollTypeOK, InTurn

\* Serving the one whose turn it is keeps everyone else's place.
LEMMA CountedKeeps ==
    ASSUME PollInv, NEW p \in NextInTurn, passed' = Counted(p), serviced' = p,
           \A w \in Peers : w # p => peer'[w] = peer[w]
    PROVE  passed' \in [Peers \X Peers -> 0..2] /\ InTurn'
<1>1. p \in Peers /\ serviced \in Peers /\ passed \in [Peers \X Peers -> 0..2]
  BY DEF NextInTurn, PollInv, PollTypeOK
<1>2. passed' \in [Peers \X Peers -> 0..2]
  BY <1>1 DEF Counted
<1>3. ASSUME NEW w \in Peers, NEW q \in Peers, passed'[<<w, q>>] > 0
      PROVE  Waits(w)' /\ passed'[<<w, q>>] = 1 /\ Behind(w, serviced') < Behind(q, serviced')
  <2>1. w # p /\ Waits(w)
    BY <1>3 DEF Counted
  <2>2. Waits(w)'
    BY <2>1 DEF Waits
  <2>3. Behind(p, serviced) <= Behind(w, serviced)
    <3>1. Distance(p) <= Distance(w)
      BY <2>1 DEF NextInTurn, HasEvent
    <3> QED BY <1>1, <3>1, DistanceIs
  <2>4. Behind(w, serviced) \in Nat /\ Behind(p, serviced) \in Nat
    BY <1>1, DistanceIs
  <2>5. CASE q = p
    <3>1. passed[<<w, q>>] = 0
      <4>1. passed[<<w, q>>] \in 0..2
        BY <1>1
      <4>2. ASSUME passed[<<w, q>>] > 0 PROVE FALSE
        BY <2>3, <2>4, <2>5, <4>2 DEF PollInv, InTurn
      <4> QED BY <4>1, <4>2
    <3>2. passed'[<<w, q>>] = 1
      BY <2>1, <2>5, <3>1 DEF Counted
    <3>3. Behind(w, p) < Behind(p, p)
      BY <1>1, <2>1, ServedIsLast
    <3> QED BY <2>2, <2>5, <3>2, <3>3
  <2>6. CASE q # p
    <3>1. passed'[<<w, q>>] = passed[<<w, q>>]
      BY <2>1, <2>6 DEF Counted
    <3>2. passed[<<w, q>>] = 1 /\ Behind(w, serviced) < Behind(q, serviced)
      BY <1>3, <3>1 DEF PollInv, InTurn
    <3>3. Behind(w, p) < Behind(q, p)
      BY <1>1, <2>1, <2>3, <3>2, OrderKept
    <3> QED BY <2>2, <3>1, <3>2, <3>3
  <2> QED BY <2>5, <2>6
<1>4. InTurn'
  BY <1>3 DEF InTurn
<1> QED BY <1>2, <1>4

\* An event of the client whose turn it is is told.
LEMMA DispatchKeeps ==
    ASSUME PollInv, NEW p \in NextInTurn, DispatchTo(p)
    PROVE  /\ peer' \in [Peers -> Slots] /\ serviced' \in Peers
           /\ passed' \in [Peers \X Peers -> 0..2] /\ InTurn'
           /\ stage' = "app" /\ returned' = "event"
<1>1. p \in Peers /\ HasEvent(p) /\ peer \in [Peers -> Slots] /\ serviced \in Peers
  BY DEF NextInTurn, PollInv, PollTypeOK, Slots
<1>2. stage' = "app" /\ returned' = "event"
  BY DEF DispatchTo, Returns
<1>3. CASE peer[p].state \in {"pending", "succeeded"}
  <2>1. peer' = [peer EXCEPT ![p].state = "connected"] /\ UNCHANGED <<serviced, passed>>
    BY <1>3 DEF DispatchTo
  <2>2. peer' \in [Peers -> Slots]
    BY <1>1, <2>1 DEF Slots, PeerStates
  <2>3. \A w \in Peers : Waits(w) => Waits(w)'
    BY <1>1, <1>3, <2>1 DEF Waits
  <2> QED BY <1>1, <1>2, <2>1, <2>2, <2>3, StillInTurn
<1>4. CASE peer[p].state = "zombie"
  <2>1. peer' = [peer EXCEPT ![p] = FreePeer] /\ serviced' = p /\ passed' = Counted(p)
    BY <1>4 DEF DispatchTo
  <2>2. peer' \in [Peers -> Slots]
    BY <1>1, <2>1, FreeSlot
  <2>3. \A w \in Peers : w # p => peer'[w] = peer[w]
    BY <1>1, <2>1
  <2> QED BY <1>1, <1>2, <2>1, <2>2, <2>3, CountedKeeps
<1>5. CASE peer[p].state \notin {"pending", "succeeded", "zombie"}
  <2>1. /\ peer' = [peer EXCEPT ![p].waiting = PollReceived(@)]
        /\ serviced' = p /\ passed' = Counted(p)
    BY <1>5 DEF DispatchTo
  <2>2. peer[p].waiting # NoPackets /\ peer[p] \in Slots
    BY <1>1, <1>5 DEF HasEvent, Waits
  <2>3. PollReceived(peer[p].waiting) \in [PeerChannels -> 0..MaxWaiting]
    BY <2>2, OnePacketLess DEF Slots
  <2>4. peer' \in [Peers -> Slots]
    BY <1>1, <2>1, <2>3 DEF Slots
  <2>5. \A w \in Peers : w # p => peer'[w] = peer[w]
    BY <1>1, <2>1
  <2> QED BY <1>1, <1>2, <2>1, <2>4, <2>5, CountedKeeps
<1> QED BY <1>3, <1>4, <1>5

-----------------------------------------------------------------------------
(* The steps.                                                              *)

\* A call begins.
LEMMA PollKeeps ==
    ASSUME PollInv, NEW sink \in BOOLEAN, NEW timeout \in Timeouts, Poll(sink, timeout)
    PROVE  PollInv'
<1>1. asked' \in [sink : BOOLEAN, timeout : Timeouts \cup {-1}] /\ elapsed' \in 0..MaxElapsed
      /\ inbox' \in 0..MaxInbox
  BY PollAssumption DEF Poll, PollInv, PollTypeOK
<1>2. CASE \E p \in NextInTurn : DispatchTo(p)
  <2>1. PICK p \in NextInTurn : DispatchTo(p)
    BY <1>2
  <2>2. /\ peer' \in [Peers -> Slots] /\ serviced' \in Peers
        /\ passed' \in [Peers \X Peers -> 0..2] /\ InTurn'
        /\ stage' = "app" /\ returned' = "event"
    BY <2>1, DispatchKeeps
  <2> QED BY <1>1, <2>2 DEF PollInv, PollTypeOK, Settled, Stages, Slots
<1>3. CASE stage' = "send" /\ returned' = "event" /\ UNCHANGED <<peer, serviced, passed>>
  <2>1. \A w \in Peers : Waits(w) => Waits(w)'
    BY <1>3 DEF Waits
  <2>2. passed' \in [Peers \X Peers -> 0..2] /\ InTurn'
    BY <1>3, <2>1, StillInTurn
  <2> QED BY <1>1, <1>3, <2>2 DEF PollInv, PollTypeOK, Settled, Stages
<1> QED BY <1>2, <1>3 DEF Poll

\* The application connects or closes.
LEMMA ApplicationKeeps ==
    ASSUME PollInv, NEW p \in Peers, Application(p)
    PROVE  PollInv'
<1>1. peer \in [Peers -> Slots]
  BY DEF PollInv, PollTypeOK, Slots
<1>2. peer' \in [Peers -> Slots] /\ \A w \in Peers : w # p => peer'[w] = peer[w]
  <2>1. CASE peer' = [peer EXCEPT ![p].state = "connecting"]
    BY <1>1, <2>1 DEF Slots, PeerStates
  <2>2. CASE peer' = [peer EXCEPT ![p] = [FreePeer EXCEPT !.state = "closing"]]
    <3>1. [FreePeer EXCEPT !.state = "closing"] \in Slots
      BY FreeSlot DEF PeerStates
    <3> QED BY <1>1, <2>2, <3>1
  <2> QED BY <2>1, <2>2 DEF Application
<1>3. passed' = Forgotten(p) /\ returned' = "event"
      /\ UNCHANGED <<serviced, inbox, stage, asked, elapsed>>
  BY DEF Application
<1>4. passed' \in [Peers \X Peers -> 0..2] /\ InTurn'
  BY <1>2, <1>3, ForgottenKeeps
<1> QED BY <1>2, <1>3, <1>4 DEF PollInv, PollTypeOK, Settled, Slots

\* Messages leave, or a peer is given up.
LEMMA SendKeeps ==
    ASSUME PollInv, PollSend
    PROVE  PollInv'
<1>1. /\ peer \in [Peers -> Slots] /\ stage \in {"send", "again"} /\ returned # "nothing"
      /\ returned \in {"event", "silent", "nothing"} /\ stage \in Stages
  BY DEF PollInv, PollTypeOK, Settled, Slots, PollSend
<1>2. UNCHANGED <<serviced, inbox, asked, elapsed>>
  BY DEF PollSend
<1>3. CASE /\ stage' = IF stage = "send" THEN "receive" ELSE "dispatch"
           /\ UNCHANGED <<peer, passed, returned>>
  <2>1. \A w \in Peers : Waits(w) => Waits(w)'
    BY <1>3 DEF Waits
  <2>2. passed' \in [Peers \X Peers -> 0..2] /\ InTurn'
    BY <1>2, <1>3, <2>1, StillInTurn
  <2> QED BY <1>1, <1>2, <1>3, <2>2 DEF PollInv, PollTypeOK, Settled, Stages
<1>4. ASSUME NEW p \in Peers,
             peer' = [peer EXCEPT ![p] = [FreePeer EXCEPT !.state = Ended(p)]],
             passed' = Forgotten(p),
             Returns(IF IsTold(p) /\ asked.sink THEN "event" ELSE "silent")
      PROVE  PollInv'
  <2>1. [FreePeer EXCEPT !.state = Ended(p)] \in Slots
    <3>1. Ended(p) \in PeerStates
      BY DEF Ended, PeerStates
    <3> QED BY <3>1, FreeSlot
  <2>2. peer' \in [Peers -> Slots] /\ \A w \in Peers : w # p => peer'[w] = peer[w]
    BY <1>1, <1>4, <2>1
  <2>3. passed' \in [Peers \X Peers -> 0..2] /\ InTurn'
    BY <1>2, <1>4, <2>2, ForgottenKeeps
  <2>4. stage' = "app" /\ returned' \in {"event", "silent"}
    BY <1>4 DEF Returns
  <2> QED BY <1>2, <2>2, <2>3, <2>4 DEF PollInv, PollTypeOK, Settled, Stages, Slots
<1>5. ASSUME NEW p \in Peers, peer[p].state = "closing",
             peer' = [peer EXCEPT ![p].state = "zombie"],
             UNCHANGED <<stage, passed, returned>>
      PROVE  PollInv'
  <2>1. peer' \in [Peers -> Slots]
    BY <1>1, <1>5 DEF Slots, PeerStates
  <2>2. \A w \in Peers : Waits(w) => Waits(w)'
    BY <1>1, <1>5 DEF Waits
  <2>3. passed' \in [Peers \X Peers -> 0..2] /\ InTurn'
    BY <1>2, <1>5, <2>2, StillInTurn
  <2> QED BY <1>1, <1>2, <1>5, <2>1, <2>3 DEF PollInv, PollTypeOK, Settled, Slots
<1> QED BY <1>3, <1>4, <1>5 DEF PollSend

\* A message ends what its client was.
LEMMA HeardKeeps ==
    ASSUME PollInv, NEW p \in Peers, NEW to \in PeerStates, NEW event \in BOOLEAN,
           Heard(p, to, event), stage = "receive", inbox' \in 0..MaxInbox,
           UNCHANGED <<serviced, asked, elapsed>>
    PROVE  PollInv'
<1>1. /\ peer \in [Peers -> Slots] /\ returned # "nothing"
      /\ returned \in {"event", "silent", "nothing"}
  BY DEF PollInv, PollTypeOK, Settled, Slots
<1>2. [FreePeer EXCEPT !.state = to] \in Slots
  BY FreeSlot
<1>3. peer' \in [Peers -> Slots] /\ \A w \in Peers : w # p => peer'[w] = peer[w]
  BY <1>1, <1>2 DEF Heard
<1>4. passed' \in [Peers \X Peers -> 0..2] /\ InTurn'
  BY <1>3, ForgottenKeeps DEF Heard
<1>5. stage' \in {"app", "receive"} /\ returned' \in {"event", returned}
  BY DEF Heard, Returns
<1> QED BY <1>1, <1>3, <1>4, <1>5 DEF PollInv, PollTypeOK, Settled, Stages, Slots

\* A datagram is read, or there is none left.
LEMMA ReceiveKeeps ==
    ASSUME PollInv, PollReceive
    PROVE  PollInv'
<1>1. /\ peer \in [Peers -> Slots] /\ stage = "receive" /\ returned # "nothing"
      /\ returned \in {"event", "silent", "nothing"} /\ inbox \in 0..MaxInbox
      /\ MaxInbox \in Nat /\ MaxWaiting \in Nat
  BY PollAssumption DEF PollInv, PollTypeOK, Settled, Slots, PollReceive
<1>2. UNCHANGED <<serviced, asked, elapsed>> /\ inbox' \in 0..MaxInbox
  <2>1. inbox' = inbox \/ (inbox > 0 /\ inbox' = inbox - 1)
    BY DEF PollReceive
  <2> QED BY <1>1, <2>1 DEF PollReceive
<1>3. ASSUME NEW p \in Peers, NEW i \in PeerChannels,
             peer[p].state = "connected" /\ peer[p].waiting[i] < MaxWaiting,
             peer' = [peer EXCEPT ![p].waiting[i] = @ + 1],
             UNCHANGED <<stage, passed, returned>>
      PROVE  PollInv'
  <2>1. peer[p] \in Slots /\ peer[p].waiting[i] + 1 \in 0..MaxWaiting
    BY <1>1, <1>3 DEF Slots
  <2> DEFINE w == [peer[p].waiting EXCEPT ![i] = @ + 1]
  <2>2. w \in [PeerChannels -> 0..MaxWaiting] /\ w[i] = peer[p].waiting[i] + 1
    BY <2>1 DEF Slots
  <2>3. peer' = [peer EXCEPT ![p].waiting = w]
    BY <1>1, <1>3
  <2>4. w # NoPackets
    BY <2>1, <2>2 DEF NoPackets, Slots
  <2> HIDE DEF w
  <2>5. peer' \in [Peers -> Slots]
    BY <1>1, <2>2, <2>3 DEF Slots
  <2>6. \A q \in Peers : peer'[q].state = peer[q].state
                         /\ (peer'[q].waiting = peer[q].waiting \/ peer'[q].waiting = w)
    BY <1>1, <2>3 DEF Slots
  <2>7. \A q \in Peers : Waits(q) => Waits(q)'
    BY <2>4, <2>6 DEF Waits
  <2>8. passed' \in [Peers \X Peers -> 0..2] /\ InTurn'
    BY <1>2, <1>3, <2>7, StillInTurn
  <2> QED BY <1>1, <1>2, <1>3, <2>5, <2>8 DEF PollInv, PollTypeOK, Settled, Slots, Stages
<1>4. ASSUME NEW p \in Peers, NEW to \in Becomes(p), Heard(p, to, to = "connected")
      PROVE  PollInv'
  <2>1. to \in PeerStates
    BY <1>4 DEF Becomes, PeerStates
  <2> QED BY <1>1, <1>2, <1>4, <2>1, HeardKeeps
<1>5. ASSUME NEW p \in Peers, Heard(p, Ended(p), TRUE)
      PROVE  PollInv'
  <2>1. Ended(p) \in PeerStates
    BY DEF Ended, PeerStates
  <2> QED BY <1>1, <1>2, <1>5, <2>1, HeardKeeps
<1>6. ASSUME UNCHANGED <<peer, passed, returned>>, stage' \in {"receive", "again"}
      PROVE  PollInv'
  <2>1. \A w \in Peers : Waits(w) => Waits(w)'
    BY <1>6 DEF Waits
  <2>2. passed' \in [Peers \X Peers -> 0..2] /\ InTurn'
    BY <1>2, <1>6, <2>1, StillInTurn
  <2> QED BY <1>1, <1>2, <1>6, <2>2 DEF PollInv, PollTypeOK, Settled, Stages
<1> QED BY <1>1, <1>3, <1>4, <1>5, <1>6 DEF PollReceive

\* A round ends.
LEMMA EndKeeps ==
    ASSUME PollInv, EndOfRound
    PROVE  PollInv'
<1>1. UNCHANGED <<inbox, asked, elapsed>> /\ stage = "dispatch" /\ serviced \in Peers
      /\ returned # "nothing"
  BY DEF EndOfRound, PollInv, PollTypeOK, Settled
<1>2. CASE asked.sink /\ NextInTurn # {}
  <2>1. PICK p \in NextInTurn : DispatchTo(p)
    BY <1>2 DEF EndOfRound
  <2>2. /\ peer' \in [Peers -> Slots] /\ serviced' \in Peers
        /\ passed' \in [Peers \X Peers -> 0..2] /\ InTurn'
        /\ stage' = "app" /\ returned' = "event"
    BY <2>1, DispatchKeeps
  <2> QED BY <1>1, <2>2 DEF PollInv, PollTypeOK, Settled, Stages, Slots
<1>3. CASE ~(asked.sink /\ NextInTurn # {})
  <2>1. /\ UNCHANGED <<peer, serviced, passed>>
        /\ \/ stage' = "app" /\ returned' = "nothing"
           \/ stage' = "wait" /\ returned' = returned
    BY <1>3 DEF EndOfRound, Returns
  <2>2. \A w \in Peers : (Waits(w) => Waits(w)') /\ (HasEvent(w)' => HasEvent(w))
    BY <2>1 DEF Waits, HasEvent
  <2>3. passed' \in [Peers \X Peers -> 0..2] /\ InTurn'
    BY <2>1, <2>2, StillInTurn
  <2>4. asked.sink => \A p \in Peers : ~HasEvent(p)
    BY <1>1, <1>3, SomeoneIsNext
  <2>5. Settled'
    BY <1>1, <2>1, <2>2, <2>4 DEF Settled, NothingIsLeft
  <2> QED BY <1>1, <2>1, <2>3, <2>5 DEF PollInv, PollTypeOK, Stages
<1> QED BY <1>2, <1>3

\* The host waits, a datagram arrives, or time goes by.
LEMMA OthersKeep ==
    ASSUME PollInv, Wait \/ Arrive \/ TimeGoesBy
    PROVE  PollInv'
<1>1. UNCHANGED <<peer, serviced, asked, passed, returned>>
  BY DEF Wait, Arrive, TimeGoesBy
<1>2. \A w \in Peers : (Waits(w) => Waits(w)') /\ (HasEvent(w)' => HasEvent(w))
  BY <1>1 DEF Waits, HasEvent
<1>3. passed' \in [Peers \X Peers -> 0..2] /\ InTurn'
  BY <1>1, <1>2, StillInTurn
<1>4. stage' \in Stages /\ (returned = "nothing" => stage' = stage)
  BY DEF Wait, Arrive, TimeGoesBy, PollInv, PollTypeOK, Settled, Stages
<1>5. Settled'
  BY <1>1, <1>2, <1>4 DEF PollInv, Settled, NothingIsLeft
<1>6. elapsed' \in 0..MaxElapsed /\ inbox' \in 0..MaxInbox
  BY PollAssumption DEF Wait, Arrive, TimeGoesBy, PollInv, PollTypeOK
<1> QED BY <1>1, <1>3, <1>4, <1>5, <1>6 DEF PollInv, PollTypeOK

\* The inductive invariant: whoever was passed over is ahead of those who were served,
\* and a call that returned nothing left nothing.
THEOREM TurnsAreKept == PollSpec => []PollInv
<1>1. PollInit => PollInv
  <2> SUFFICES ASSUME PollInit PROVE PollInv
    OBVIOUS
  <2>1. PeerCount \in Nat \ {0} /\ MaxInbox \in Nat /\ MaxElapsed \in Nat /\ 1 \in Peers
    BY PollAssumption DEF Peers
  <2>2. peer \in [Peers -> Slots]
    BY FreeSlot DEF PollInit
  <2>3. PollTypeOK
    BY <2>1, <2>2 DEF PollInit, PollTypeOK, Stages, Slots
  <2>4. InTurn
    BY DEF PollInit, InTurn
  <2>5. Settled
    BY DEF PollInit, Settled
  <2> QED BY <2>3, <2>4, <2>5 DEF PollInv
<1>2. PollInv /\ [PollNext]_pollVars => PollInv'
  <2> SUFFICES ASSUME PollInv, [PollNext]_pollVars PROVE PollInv'
    OBVIOUS
  <2>1. CASE UNCHANGED pollVars
    <3>1. UNCHANGED <<peer, serviced, inbox, stage, asked, elapsed, passed, returned>>
      BY <2>1 DEF pollVars
    <3>2. \A w \in Peers : (Waits(w) <=> Waits(w)') /\ (HasEvent(w)' <=> HasEvent(w))
      BY <3>1 DEF Waits, HasEvent
    <3>3. InTurn' /\ passed' \in [Peers \X Peers -> 0..2]
      BY <3>1, <3>2, StillInTurn
    <3>4. Settled'
      BY <3>1, <3>2 DEF PollInv, Settled, NothingIsLeft
    <3> QED BY <3>1, <3>3, <3>4 DEF PollInv, PollTypeOK
  <2>2. ASSUME NEW sink \in BOOLEAN, NEW timeout \in Timeouts, Poll(sink, timeout)
        PROVE  PollInv'
    BY <2>2, PollKeeps
  <2>3. ASSUME NEW p \in Peers, Application(p) PROVE PollInv'
    BY <2>3, ApplicationKeeps
  <2> QED BY <2>1, <2>2, <2>3, SendKeeps, ReceiveKeeps, EndKeeps, OthersKeep DEF PollNext
<1> QED BY <1>1, <1>2, PTL DEF PollSpec

\* While a packet of one client waits, no other is served twice: for any number of
\* clients and channels, and whatever connections come and go.
THEOREM ServedInTurn == PollSpec => []TurnsAreFair
<1>1. PollInv => TurnsAreFair
  <2> SUFFICES ASSUME PollInv, NEW d \in Peers \X Peers PROVE passed[d] < 2
    BY DEF TurnsAreFair
  <2>1. PICK w \in Peers, q \in Peers : d = <<w, q>>
    OBVIOUS
  <2>2. passed[d] \in 0..2 /\ (passed[d] > 0 => passed[d] = 1)
    BY <2>1 DEF PollInv, PollTypeOK, InTurn
  <2> QED BY <2>2
<1> QED BY <1>1, TurnsAreKept, PTL

\* A call that returns that there is no event left none behind.
THEOREM NothingStaysBehind == PollSpec => []NothingIsLeft
<1>1. PollInv => NothingIsLeft
  BY DEF PollInv, Settled, NothingIsLeft
<1> QED BY <1>1, TurnsAreKept, PTL

-----------------------------------------------------------------------------
(* Lists, and the pool of memory blocks.                                   *)

Links(nodes) == [next : [nodes -> nodes \cup {Null, Junk}],
                 previous : [nodes -> nodes \cup {Null, Junk}]]

\* The nodes of l that are in a list.
Listed(l, nodes) == {x \in nodes : l.next[x] \in nodes}

\* Lists of nodes, of which those of the set in are closed under links.
Closed(l, nodes, in) ==
    \A x \in nodes : l.next[x] \in nodes => (x \in in <=> l.next[x] \in in)

\* An element that is linked in a list, or refused, leaves the lists sound, and
\* in the list of its neighbour.
LEMMA LinkSound ==
    ASSUME NEW nodes, Null \notin nodes, Junk \notin nodes,
           NEW l \in Links(nodes), Sound(l, nodes),
           NEW i \in nodes, l.next[i] \in nodes,
           NEW e \in nodes, Insertable(l, e)
    PROVE  /\ Linked(l, i, e) \in Links(nodes)
           /\ Sound(Linked(l, i, e), nodes)
           /\ Listed(Linked(l, i, e), nodes) = Listed(l, nodes) \cup {e}
           /\ \A in : Closed(l, nodes, in) =>
                Closed(Linked(l, i, e), nodes, IF i \in in THEN in \cup {e} ELSE in \ {e})
<1> DEFINE m == Linked(l, i, e)
           p == l.previous[i]
<1>1. p \in nodes /\ l.next[p] = i /\ e # i /\ e # p
  BY DEF Sound, Insertable, Links
<1>2. /\ m.next = [x \in nodes |-> IF x = p THEN e ELSE IF x = e THEN i ELSE l.next[x]]
      /\ m.previous = [x \in nodes |-> IF x = i THEN e ELSE IF x = e THEN p ELSE l.previous[x]]
  BY <1>1 DEF Linked, Links
<1>3. m \in Links(nodes)
  BY <1>1, <1>2 DEF Linked, Links
<1>4. Sound(m, nodes)
  BY <1>1, <1>2 DEF Sound, Insertable, Links
<1>5. Listed(m, nodes) = Listed(l, nodes) \cup {e}
  BY <1>1, <1>2 DEF Listed
<1>6. ASSUME NEW in, Closed(l, nodes, in)
      PROVE  Closed(m, nodes, IF i \in in THEN in \cup {e} ELSE in \ {e})
  <2>1. p \in in <=> i \in in
    BY <1>1, <1>6 DEF Closed
  <2>2. \A x \in nodes : x # p /\ x # e => l.next[x] # e
    BY <1>1 DEF Sound, Insertable, Links
  <2> QED
    BY <1>1, <1>2, <1>6, <2>1, <2>2 DEF Closed
<1> QED
  BY <1>3, <1>4, <1>5, <1>6

\* A node that leaves its list can be inserted again, and the lists are sound.
LEMMA RemoveSound ==
    ASSUME NEW nodes, Null \notin nodes, Junk \notin nodes,
           NEW l \in Links(nodes), Sound(l, nodes),
           NEW i \in nodes, l.next[i] \in nodes
    PROVE  /\ ListRemove(l, i) \in Links(nodes)
           /\ Sound(ListRemove(l, i), nodes)
           /\ Listed(ListRemove(l, i), nodes) = Listed(l, nodes) \ {i}
           /\ Insertable(ListRemove(l, i), i)
           /\ \A in : Closed(l, nodes, in) => Closed(ListRemove(l, i), nodes, in)
<1> DEFINE m == ListRemove(l, i)
           p == l.previous[i]
           n == l.next[i]
<1>1. /\ p \in nodes /\ n \in nodes /\ l.next[p] = i /\ l.previous[n] = i
      /\ p = i <=> n = i
  BY DEF Sound, Links
<1>2. /\ m.next = [x \in nodes |-> IF x = i THEN Null ELSE IF x = p THEN n ELSE l.next[x]]
      /\ m.previous = [x \in nodes |-> IF x = i THEN Null ELSE IF x = n THEN p ELSE l.previous[x]]
  BY <1>1 DEF ListRemove, Links
<1>3. m \in Links(nodes)
  BY <1>1, <1>2 DEF ListRemove, Links
<1>4. Sound(m, nodes)
  BY <1>1, <1>2 DEF Sound, Links
<1>5. Listed(m, nodes) = Listed(l, nodes) \ {i}
  BY <1>1, <1>2 DEF Listed
<1>6. Insertable(m, i)
  BY <1>2 DEF Insertable
<1>7. ASSUME NEW in, Closed(l, nodes, in) PROVE Closed(m, nodes, in)
  BY <1>1, <1>2, <1>7 DEF Closed
<1> QED
  BY <1>3, <1>4, <1>5, <1>6, <1>7

\* The lists of blocks are sound and apart, and have their sentinels.
TwoLists(l) ==
    /\ l \in Links(Headers)
    /\ Sound(l, Headers)
    /\ {Free, Used} \subseteq Listed(l, Headers)
    /\ \E free \in SUBSET Headers :
         Free \in free /\ Used \notin free /\ Closed(l, Headers, free)

\* A block that goes from one list to the end of one of the two.
LEMMA MoveSound ==
    ASSUME TwoLists(heads), NEW b \in Blocks, b \in Listed(heads, Headers),
           NEW s \in {Free, Used}
    PROVE  /\ TwoLists(ListAdd(ListRemove(heads, b), s, b))
           /\ Listed(ListAdd(ListRemove(heads, b), s, b), Headers) = Listed(heads, Headers)
<1> DEFINE m == ListRemove(heads, b)
           n == ListAdd(m, s, b)
<1> USE NodeAssumption
<1>1. Null \notin Headers /\ Junk \notin Headers /\ b \in Headers /\ s \in Headers /\ s # b
  BY DEF Headers
<1>2. /\ m \in Links(Headers) /\ Sound(m, Headers) /\ Insertable(m, b)
      /\ Listed(m, Headers) = Listed(heads, Headers) \ {b}
      /\ \A in : Closed(heads, Headers, in) => Closed(m, Headers, in)
  BY <1>1, RemoveSound DEF TwoLists, Listed
<1>3. m.next[s] \in Headers
  BY <1>1, <1>2 DEF TwoLists, Listed
<1>4. n = Linked(m, s, b)
  BY <1>2 DEF ListAdd, ListInsert
<1> HIDE DEF m, n
<1>5. /\ n \in Links(Headers) /\ Sound(n, Headers)
      /\ Listed(n, Headers) = Listed(m, Headers) \cup {b}
      /\ \A in : Closed(m, Headers, in) =>
           Closed(n, Headers, IF s \in in THEN in \cup {b} ELSE in \ {b})
  <2>1. LET k == Linked(m, s, b)
        IN  /\ k \in Links(Headers) /\ Sound(k, Headers)
            /\ Listed(k, Headers) = Listed(m, Headers) \cup {b}
            /\ \A in : Closed(m, Headers, in) =>
                 Closed(k, Headers, IF s \in in THEN in \cup {b} ELSE in \ {b})
    BY <1>1, <1>2, <1>3, LinkSound
  <2> QED
    BY <1>4, <2>1
<1>6. Listed(n, Headers) = Listed(heads, Headers)
  BY <1>2, <1>5
<1>7. PICK free \in SUBSET Headers :
        Free \in free /\ Used \notin free /\ Closed(heads, Headers, free)
  BY DEF TwoLists
<1>8. LET f == IF s \in free THEN free \cup {b} ELSE free \ {b}
      IN  f \in SUBSET Headers /\ Free \in f /\ Used \notin f /\ Closed(n, Headers, f)
  BY <1>1, <1>2, <1>5, <1>7
<1> QED
  BY <1>5, <1>6, <1>8 DEF TwoLists, m, n

\* A block that is in neither list, and is added to one or refused.
LEMMA AddSound ==
    ASSUME TwoLists(heads), NEW b \in Blocks
    PROVE  /\ TwoLists(ListAdd(heads, Free, b))
           /\ Listed(heads, Headers) \subseteq Listed(ListAdd(heads, Free, b), Headers)
<1> USE NodeAssumption
<1>1. CASE ~Insertable(heads, b)
  BY <1>1 DEF ListAdd, ListInsert
<1>2. CASE Insertable(heads, b)
  <2> DEFINE n == Linked(heads, Free, b)
  <2>1. /\ Null \notin Headers /\ Junk \notin Headers /\ b \in Headers /\ b # Used
        /\ Free \in Headers /\ heads.next[Free] \in Headers
        /\ heads \in Links(Headers) /\ Sound(heads, Headers)
    BY DEF Headers, TwoLists, Listed
  <2>2. /\ n \in Links(Headers) /\ Sound(n, Headers)
        /\ Listed(n, Headers) = Listed(heads, Headers) \cup {b}
        /\ \A in : Closed(heads, Headers, in) =>
             Closed(n, Headers, IF Free \in in THEN in \cup {b} ELSE in \ {b})
    BY <1>2, <2>1, LinkSound
  <2>3. PICK free \in SUBSET Headers :
          Free \in free /\ Used \notin free /\ Closed(heads, Headers, free)
    BY DEF TwoLists
  <2>4. LET f == free \cup {b}
        IN  f \in SUBSET Headers /\ Free \in f /\ Used \notin f /\ Closed(n, Headers, f)
    BY <2>1, <2>2, <2>3
  <2> QED
    BY <1>2, <2>2, <2>4 DEF ListAdd, ListInsert, TwoLists
<1> QED
  BY <1>1, <1>2

-----------------------------------------------------------------------------
(* The pool.                                                               *)

\* Links of areas, and what they lead to was allocated.
OfPool(l) ==
    /\ l \in Links(Areas)
    /\ \A x \in Areas :
         /\ l.next[x] \in Blocks => l.next[x] \in Listed(heads, Headers)
         /\ l.previous[x] \in Blocks => l.previous[x] \in Listed(heads, Headers)

PoolInv ==
    /\ PoolTypeOK
    /\ pool = "growing" => turn \in Blocks
    /\ pool = "none" => \A h \in Holders : held[h] \notin Blocks
    /\ pool # "none" => TwoLists(heads) /\ OfPool(areas)
    /\ \A h \in Holders : held[h] \in Blocks => held[h] \in Listed(heads, Headers)

LEMMA PoolInvInit == PoolInit => PoolInv
<1> SUFFICES ASSUME PoolInit PROVE PoolInv
  OBVIOUS
<1>1. heads \in Links(Headers) /\ areas \in Links(Areas)
  BY DEF PoolInit, Unlinked, Links
<1>2. turn \in 1..BlockCount + 1
  BY BlockAssumption DEF PoolInit
<1>3. PoolTypeOK
  BY <1>1, <1>2 DEF PoolInit, PoolTypeOK, Links, Faults, NotBlocks
<1> QED
  BY <1>3, NodeAssumption DEF PoolInit, PoolInv, NotBlocks

\* The first free block is a block.
LEMMA FirstIsBlock ==
    ASSUME TwoLists(heads), ~IsEmpty(heads, Free)
    PROVE  First(heads, Free) \in Blocks /\ First(heads, Free) \in Listed(heads, Headers)
<1>1. PICK free \in SUBSET Headers :
        Free \in free /\ Used \notin free /\ Closed(heads, Headers, free)
  BY DEF TwoLists
<1>2. Free \in Headers /\ heads.next[Free] \in Headers
  BY DEF TwoLists, Listed, Headers
<1>3. heads.next[Free] # Used
  BY <1>1, <1>2 DEF Closed
<1>4. heads.next[heads.next[Free]] \in Headers
  BY <1>2 DEF TwoLists, Sound
<1> QED
  BY <1>2, <1>3, <1>4 DEF First, IsEmpty, Headers, Listed

\* Links of the headers that are those of before, but for a block that moved.
Moved == heads' = heads \/ \E b \in Blocks, s \in {Free, Used} :
            b \in Listed(heads, Headers) /\ heads' = ListAdd(ListRemove(heads, b), s, b)

LEMMA MovedSound ==
    ASSUME TwoLists(heads), Moved
    PROVE  TwoLists(heads') /\ Listed(heads', Headers) = Listed(heads, Headers)
BY MoveSound DEF Moved

\* The words of an area may become null or junk, a listed block is added to a
\* queue or refused, and a block whose words are links leaves its queue.
LEMMA WordsOfPool ==
    ASSUME OfPool(areas), NEW b \in Blocks, NEW initialize \in BOOLEAN
    PROVE  OfPool(Cleared(b, initialize)) /\ OfPool(Written(b))
<1>1. b \in Areas /\ Null \notin Blocks /\ Junk \notin Blocks
  BY NodeAssumption DEF Areas, Headers
<1> QED
  BY <1>1 DEF OfPool, Cleared, Written, Links

LEMMA AddedOfPool ==
    ASSUME NEW c, OfPool(c), NEW b \in Blocks, b \in Listed(heads, Headers), NEW q \in Queues
    PROVE  OfPool(ListAdd(c, q, b))
<1>1. b \in Areas /\ q \in Areas /\ b # q /\ q \notin Blocks
  BY NodeAssumption DEF Areas, Queues
<1>2. CASE ~Insertable(c, b)
  BY <1>2 DEF ListAdd, ListInsert
<1>3. CASE Insertable(c, b)
  <2>1. Linked(c, q, b) \in Links(Areas)
    BY <1>1 DEF OfPool, Linked, Links
  <2>2. ASSUME NEW x \in Areas, Linked(c, q, b).next[x] \in Blocks
        PROVE  Linked(c, q, b).next[x] \in Listed(heads, Headers)
    BY <1>1, <2>2 DEF OfPool, Linked, Links
  <2>3. ASSUME NEW x \in Areas, Linked(c, q, b).previous[x] \in Blocks
        PROVE  Linked(c, q, b).previous[x] \in Listed(heads, Headers)
    BY <1>1, <2>3 DEF OfPool, Linked, Links
  <2> QED
    BY <1>3, <2>1, <2>2, <2>3 DEF OfPool, ListAdd, ListInsert
<1> QED
  BY <1>2, <1>3

LEMMA RemovedOfPool ==
    ASSUME OfPool(areas), NEW b \in Blocks, {areas.next[b], areas.previous[b]} \subseteq Areas
    PROVE  OfPool(ListRemove(areas, b))
<1>1. b \in Areas /\ Null \notin Blocks
  BY NodeAssumption DEF Areas, Headers
<1> QED
  BY <1>1 DEF OfPool, ListRemove, Links

\* What every step of a pool that is ready comes to: no block, or one, moved.
LEMMA StepOfPool ==
    ASSUME PoolInv, pool = "ready", pool' = pool, turn' = turn, Moved, OfPool(areas'),
           held' \in [Holders -> Blocks \cup NotBlocks],
           \A h \in Holders : held'[h] \in Blocks => held'[h] \in Listed(heads, Headers),
           role' \in [Holders -> {"data"} \cup Queues],
           failed' \in BOOLEAN, fault' \in Faults
    PROVE  PoolInv'
<1>1. TwoLists(heads') /\ Listed(heads', Headers) = Listed(heads, Headers)
  BY MovedSound DEF PoolInv
<1>2. OfPool(areas)'
  BY <1>1 DEF OfPool
<1>3. PoolTypeOK'
  BY <1>1, <1>2 DEF PoolInv, PoolTypeOK, OfPool, TwoLists, Links
<1> QED
  BY <1>1, <1>2, <1>3 DEF PoolInv

LEMMA InitializeStep ==
    ASSUME PoolInv, PoolInitialize
    PROVE  PoolInv'
<1> USE NodeAssumption
<1>1. PICK junk \in SUBSET Blocks :
        LET word(nodes) == [x \in nodes |-> IF x \in junk THEN Junk ELSE Null]
        IN  /\ heads' = ListClear(ListClear(Unlinked(Headers, word(Headers)), Used), Free)
            /\ areas' = ListClear(ListClear(Unlinked(Areas, word(Areas)), Acks), Messages)
  BY DEF PoolInitialize
<1>2. LET f == [x \in Headers |-> IF x \in {Free, Used} THEN x
                                  ELSE IF x \in junk THEN Junk ELSE Null]
      IN  heads'.next = f /\ heads'.previous = f /\ heads' \in Links(Headers)
  BY <1>1 DEF ListClear, Unlinked, Links, Headers
<1>3. LET f == [x \in Areas |-> IF x \in Queues THEN x
                                ELSE IF x \in junk THEN Junk ELSE Null]
      IN  areas'.next = f /\ areas'.previous = f /\ areas' \in Links(Areas)
  BY <1>1 DEF ListClear, Unlinked, Links, Areas, Queues
<1>4. Sound(heads', Headers) /\ {Free, Used} \subseteq Listed(heads', Headers)
  BY <1>2 DEF Sound, Listed, Headers
<1>5. Closed(heads', Headers, {Free})
  BY <1>2 DEF Closed, Headers
<1>6. TwoLists(heads')
  BY <1>2, <1>4, <1>5 DEF TwoLists, Headers
<1>7. OfPool(areas)'
  BY <1>3 DEF OfPool, Areas, Queues, Headers
<1>8. /\ pool' = "growing" /\ turn' = 1 /\ held' = held /\ role' = role
      /\ failed' = failed /\ fault' = fault /\ pool = "none"
  BY DEF PoolInitialize
<1>9. turn' \in Blocks /\ turn' \in 1..BlockCount + 1
  BY <1>8, BlockAssumption DEF Blocks
<1>10. PoolTypeOK'
  BY <1>2, <1>3, <1>8, <1>9 DEF PoolInv, PoolTypeOK, Links
<1> QED
  BY <1>6, <1>7, <1>8, <1>9, <1>10 DEF PoolInv

LEMMA AddBlockStep ==
    ASSUME PoolInv, AddBlock
    PROVE  PoolInv'
<1>1. /\ heads' = ListAdd(heads, Free, turn) /\ turn' = turn + 1 /\ pool = "growing"
      /\ pool' = IF turn = BlockCount THEN "ready" ELSE pool
      /\ UNCHANGED <<areas, held, role, failed, fault>>
  BY DEF AddBlock
<1>2. turn \in Blocks /\ TwoLists(heads) /\ OfPool(areas)
  BY <1>1 DEF PoolInv
<1>3. TwoLists(heads') /\ Listed(heads, Headers) \subseteq Listed(heads', Headers)
  BY <1>1, <1>2, AddSound
<1>4. OfPool(areas)'
  BY <1>1, <1>2, <1>3 DEF OfPool
<1>5. turn' \in 1..BlockCount + 1 /\ (pool' = "growing" => turn' \in Blocks)
  BY <1>1, <1>2, BlockAssumption DEF Blocks
<1>6. pool' \in {"growing", "ready"}
  BY <1>1
<1>7. PoolTypeOK'
  BY <1>1, <1>3, <1>4, <1>5, <1>6 DEF PoolInv, PoolTypeOK, TwoLists, OfPool, Links
<1> QED
  BY <1>1, <1>3, <1>4, <1>5, <1>6, <1>7 DEF PoolInv

LEMMA UninitializeStep ==
    ASSUME PoolInv, PoolUninitialize
    PROVE  PoolInv'
<1>1. heads' \in Links(Headers) /\ areas' \in Links(Areas)
  BY DEF PoolUninitialize, Unlinked, Links
<1>2. \A h \in Holders : held'[h] \notin Blocks
  BY NodeAssumption DEF PoolUninitialize, NotBlocks
<1>3. held' \in [Holders -> Blocks \cup NotBlocks]
  BY DEF PoolInv, PoolTypeOK, PoolUninitialize, NotBlocks
<1>4. pool' = "none" /\ turn' = 1 /\ role' = role /\ fault' = fault /\ failed' = FALSE
  BY DEF PoolUninitialize
<1>5. turn' \in 1..BlockCount + 1
  BY <1>4, BlockAssumption
<1>6. PoolTypeOK'
  BY <1>1, <1>3, <1>4, <1>5 DEF PoolInv, PoolTypeOK, Links
<1> QED
  BY <1>2, <1>4, <1>6 DEF PoolInv

\* The first free block, in allocatedBlocks now, is whatever is made of its words.
LEMMA TakenMoved ==
    ASSUME PoolInv, pool = "ready", ~IsEmpty(heads, Free)
    PROVE  LET b == First(heads, Free)
           IN  /\ b \in Blocks /\ b \in Listed(heads, Headers) /\ OfPool(areas)
               /\ heads' = Taken(b) => Moved
<1>1. TwoLists(heads) /\ OfPool(areas)
  BY DEF PoolInv
<1> QED
  BY <1>1, FirstIsBlock DEF Moved, Taken

LEMMA ReturnedMoved ==
    ASSUME NEW b \in Blocks, b \in Listed(heads, Headers), heads' = Returned(b)
    PROVE  Moved
BY DEF Moved, Returned

LEMMA MallocStep ==
    ASSUME PoolInv, NEW h \in Holders, Malloc(h)
    PROVE  PoolInv'
<1> USE DEF PoolInv, PoolTypeOK
<1>1. PICK initialize \in BOOLEAN :
        (AllocBlock(h, initialize) /\ UNCHANGED fault) \/ AllocChunk(h, initialize)
  BY DEF Malloc
<1>2. role' \in [Holders -> {"data"} \cup Queues]
  BY DEF Malloc
<1>3. CASE AllocBlock(h, initialize) /\ UNCHANGED fault
  <2> DEFINE b == First(heads, Free)
  <2>1. /\ pool = "ready" /\ ~IsEmpty(heads, Free) /\ heads' = Taken(b)
        /\ areas' = Cleared(b, initialize) /\ held' = [held EXCEPT ![h] = b]
        /\ UNCHANGED <<pool, turn, failed, fault>>
    BY <1>3 DEF AllocBlock
  <2>2. b \in Blocks /\ b \in Listed(heads, Headers) /\ Moved /\ OfPool(areas)
    BY <2>1, TakenMoved
  <2>3. OfPool(areas')
    BY <2>1, <2>2, WordsOfPool
  <2> HIDE DEF b
  <2> QED
    BY <1>2, <2>1, <2>2, <2>3, StepOfPool
<1>4. CASE AllocChunk(h, initialize)
  <2>1. PICK given \in {Shifted, Wild} :
          /\ held' = [held EXCEPT ![h] = given]
          /\ fault' = IF ~initialize THEN fault
                      ELSE IF given = Shifted THEN "overrun" ELSE "null"
    BY <1>4 DEF AllocChunk
  <2>2. given \in NotBlocks /\ given \notin Blocks /\ fault' \in Faults
    BY <2>1, NodeAssumption DEF NotBlocks, Faults
  <2>3. pool = "ready" /\ UNCHANGED <<pool, turn, heads, areas, failed>>
    BY <1>4 DEF AllocChunk
  <2>4. Moved /\ OfPool(areas')
    BY <2>3 DEF Moved
  <2> QED
    BY <1>2, <2>1, <2>2, <2>3, <2>4, StepOfPool
<1> QED
  BY <1>1, <1>3, <1>4

LEMMA WriteStep ==
    ASSUME PoolInv, NEW h \in Holders, Write(h)
    PROVE  PoolInv'
<1> USE DEF PoolInv, PoolTypeOK
<1>1. pool = "ready" /\ UNCHANGED <<pool, turn, heads, held, role, failed>>
  BY DEF Write
<1>2. OfPool(areas')
  BY <1>1, WordsOfPool DEF Write
<1>3. fault' \in Faults
  BY DEF Write, Faults
<1> QED
  BY <1>1, <1>2, <1>3, StepOfPool DEF Moved

LEMMA ReleaseStep ==
    ASSUME PoolInv, NEW h \in Holders, Release(h)
    PROVE  PoolInv'
<1> USE DEF PoolInv, PoolTypeOK
<1>1. /\ pool # "growing" /\ UNCHANGED <<pool, turn, areas, role, failed>>
      /\ held' = [held EXCEPT ![h] = Nowhere] /\ Nowhere \in NotBlocks \ Blocks
  BY NodeAssumption DEF Release, NotBlocks
<1>2. fault' \in Faults
  BY DEF Release, Faults
<1>3. CASE pool = "none"
  <2>1. heads' = heads
    BY <1>3 DEF Release
  <2> QED
    BY <1>1, <1>2, <1>3, <2>1 DEF OfPool
<1>4. CASE pool = "ready"
  <2>1. Moved
    BY ReturnedMoved DEF Release, Moved
  <2> QED
    BY <1>1, <1>2, <1>4, <2>1, StepOfPool
<1> QED
  BY <1>1, <1>3, <1>4

LEMMA ResizeStep ==
    ASSUME PoolInv, NEW h \in Holders, NEW large \in BOOLEAN, NEW initialize \in BOOLEAN,
           Resize(h, large, initialize)
    PROVE  PoolInv'
<1> USE DEF PoolInv, PoolTypeOK
<1>1. pool = "ready" /\ UNCHANGED <<pool, turn, role>>
  BY DEF Resize
<1>2. Chunk \in NotBlocks \ Blocks
  BY NodeAssumption DEF NotBlocks
<1>3. CASE held[h] \in Blocks /\ ~large
  <2>1. areas' = Cleared(held[h], initialize) /\ UNCHANGED <<heads, held, failed, fault>>
    BY <1>2, <1>3, Zenon DEF Resize
  <2>2. OfPool(areas')
    BY <1>1, <1>3, <2>1, WordsOfPool
  <2> QED
    BY <1>1, <2>1, <2>2, StepOfPool DEF Moved
<1>4. CASE held[h] \in Blocks /\ large
  <2>1. PICK given \in BOOLEAN :
          /\ heads' = Returned(held[h])
          /\ held' = [held EXCEPT ![h] = IF given THEN Chunk ELSE @]
          /\ failed' = (failed \/ ~given)
          /\ fault' = IF ~given /\ initialize THEN "null" ELSE fault
          /\ UNCHANGED areas
    BY <1>2, <1>4 DEF Resize
  <2>2. Moved
    BY <1>4, <2>1, ReturnedMoved
  <2>3. fault' \in Faults /\ failed' \in BOOLEAN
    BY <2>1 DEF Faults
  <2> QED
    BY <1>1, <1>2, <1>4, <2>1, <2>2, <2>3, StepOfPool
<1>5. CASE held[h] \notin Blocks
  <2>1. UNCHANGED <<heads, areas, held, failed>> /\ fault' \in Faults
    BY <1>5 DEF Resize, Faults
  <2> QED
    BY <1>1, <2>1, StepOfPool DEF Moved
<1> QED
  BY <1>3, <1>4, <1>5

LEMMA EnqueueStep ==
    ASSUME PoolInv, NEW h \in Holders, NEW q \in Queues, Enqueue(h, q)
    PROVE  PoolInv'
<1> USE DEF PoolInv, PoolTypeOK
<1>1. role' \in [Holders -> {"data"} \cup Queues] /\ pool = "ready"
  BY DEF Enqueue
<1>2. CASE ~IsEmpty(heads, Free)
  <2> DEFINE b == First(heads, Free)
             c == Cleared(b, q = Messages)
  <2>1. /\ heads' = Taken(b) /\ areas' = ListAdd(c, q, b) /\ held' = [held EXCEPT ![h] = b]
        /\ fault' = IF areas.previous[q] \in Areas THEN fault ELSE "list"
        /\ UNCHANGED <<pool, turn, failed>>
    BY <1>2 DEF Enqueue
  <2>2. b \in Blocks /\ b \in Listed(heads, Headers) /\ Moved /\ OfPool(areas)
    BY <1>1, <1>2, <2>1, TakenMoved
  <2>3. OfPool(c)
    BY <2>2, WordsOfPool
  <2> HIDE DEF b, c
  <2>4. OfPool(areas')
    BY <2>1, <2>2, <2>3, AddedOfPool
  <2>5. fault' \in Faults
    BY <2>1 DEF Faults
  <2> QED
    BY <1>1, <2>1, <2>2, <2>4, <2>5, StepOfPool
<1>3. CASE IsEmpty(heads, Free)
  <2>1. PICK given \in {Shifted, Wild} :
          /\ held' = [held EXCEPT ![h] = given]
          /\ fault' = IF given = Shifted THEN "overrun" ELSE "null"
    BY <1>3 DEF Enqueue, AllocChunk
  <2>2. given \in NotBlocks /\ given \notin Blocks /\ fault' \in Faults
    BY <2>1, NodeAssumption DEF NotBlocks, Faults
  <2>3. UNCHANGED <<pool, turn, heads, areas, failed>>
    BY <1>3 DEF Enqueue, AllocChunk
  <2> QED
    BY <1>1, <2>1, <2>2, <2>3, StepOfPool DEF Moved
<1> QED
  BY <1>2, <1>3

LEMMA DequeueStep ==
    ASSUME PoolInv, NEW q \in Queues, Dequeue(q)
    PROVE  PoolInv'
<1> USE DEF PoolInv, PoolTypeOK
<1> DEFINE b == First(areas, q)
<1>1. pool = "ready" /\ UNCHANGED <<pool, turn, role, failed>>
  BY DEF Dequeue
<1>2. CASE b \in Blocks /\ {areas.next[b], areas.previous[b]} \subseteq Areas
  <2>1. /\ areas' = ListRemove(areas, b) /\ heads' = Returned(b) /\ fault' = fault
        /\ held' = [g \in Holders |->
                      IF held[g] = b /\ role[g] = q THEN Nowhere ELSE held[g]]
    BY <1>2 DEF Dequeue
  <2>2. q \in Areas /\ Nowhere \in NotBlocks \ Blocks
    BY NodeAssumption DEF Areas, NotBlocks
  <2>3. b \in Listed(heads, Headers)
    BY <1>1, <1>2, <2>2 DEF OfPool, First
  <2>4. Moved
    BY <1>2, <2>1, <2>3, ReturnedMoved
  <2>5. OfPool(areas')
    BY <1>1, <1>2, <2>1, RemovedOfPool
  <2> QED
    BY <1>1, <2>1, <2>2, <2>4, <2>5, StepOfPool
<1>3. CASE ~(b \in Blocks /\ {areas.next[b], areas.previous[b]} \subseteq Areas)
  <2>1. fault' = "list" /\ UNCHANGED <<areas, heads, held>>
    BY <1>3 DEF Dequeue
  <2> QED
    BY <1>1, <2>1, StepOfPool DEF Moved, Faults
<1> QED
  BY <1>2, <1>3

LEMMA PoolInvNext == PoolInv /\ [PoolNext]_poolVars => PoolInv'
<1> SUFFICES ASSUME PoolInv, [PoolNext]_poolVars PROVE PoolInv'
  OBVIOUS
<1>1. CASE PoolInitialize
  BY <1>1, InitializeStep
<1>2. CASE AddBlock
  BY <1>2, AddBlockStep
<1>3. CASE PoolUninitialize
  BY <1>3, UninitializeStep
<1>4. CASE \E h \in Holders : Malloc(h)
  BY <1>4, MallocStep
<1>5. CASE \E h \in Holders : Write(h)
  BY <1>5, WriteStep
<1>6. CASE \E h \in Holders : Release(h)
  BY <1>6, ReleaseStep
<1>7. CASE \E h \in Holders : \E large, initialize \in BOOLEAN : Resize(h, large, initialize)
  BY <1>7, ResizeStep
<1>8. CASE \E h \in Holders : \E q \in Queues : Enqueue(h, q)
  BY <1>8, EnqueueStep
<1>9. CASE \E q \in Queues : Dequeue(q)
  BY <1>9, DequeueStep
<1>10. CASE UNCHANGED poolVars
  BY <1>10 DEF poolVars, PoolInv, PoolTypeOK, OfPool
<1> QED
  BY <1>1, <1>2, <1>3, <1>4, <1>5, <1>6, <1>7, <1>8, <1>9, <1>10 DEF PoolNext

\* The lists of the pool are sound and apart in every run of the pool, with any
\* number of blocks and of holders: a walk along one of them meets its own
\* blocks and comes back to its sentinel, and a pointer that is taken for one to
\* a block is to a block of one of the lists.
THEOREM ListsStaySound == PoolSpec => []ListsAreSound
<1>1. PoolInv => ListsAreSound
  BY DEF PoolInv, ListsAreSound, TwoLists, Listed, Apart, Closed
<1> QED
  BY <1>1, PoolInvInit, PoolInvNext, PTL DEF PoolSpec

\* The variables of the pool keep their types.
THEOREM PoolTypeCorrect == PoolSpec => []PoolTypeOK
<1>1. PoolInv => PoolTypeOK
  BY DEF PoolInv
<1> QED
  BY <1>1, PoolInvInit, PoolInvNext, PTL DEF PoolSpec

-----------------------------------------------------------------------------
(* Lists as sets: what a walk from a sentinel meets.                       *)

\* The nodes of in are each other's neighbours.
Ring(l, in) ==
    \A x \in in : /\ l.next[x] \in in /\ l.previous[x] \in in
                  /\ l.previous[l.next[x]] = x /\ l.next[l.previous[x]] = x

\* Their places after sentinel s: no two have one place, the last is the one before the
\* sentinel, and there are no more places than nodes.
Places(l, s, in, rank) ==
    /\ rank \in [in -> Nat] /\ rank[s] = 0
    /\ \A x \in in \ {s} : rank[x] = rank[l.previous[x]] + 1
    /\ \A x, y \in in : rank[x] = rank[y] => x = y
    /\ \A x \in in : rank[x] <= rank[l.previous[s]]
    /\ rank[l.previous[s]] <= Cardinality(in \ {s})

\* The list of sentinel s is in.
ListIs(l, s, in) ==
    s \in in /\ IsFiniteSet(in) /\ Ring(l, in) /\ \E rank : Places(l, s, in, rank)

\* The words of a node are those it had.
SameLinks(m, l, x) == m.next[x] = l.next[x] /\ m.previous[x] = l.previous[x]

\* A list is what its own links make it.
LEMMA ListElsewhere ==
    ASSUME NEW l, NEW m, NEW s, NEW in, ListIs(l, s, in),
           \A x \in in : SameLinks(m, l, x)
    PROVE  ListIs(m, s, in)
<1>1. s \in in /\ IsFiniteSet(in) /\ Ring(l, in) /\ \E rank : Places(l, s, in, rank)
  BY DEF ListIs
<1>2. Ring(m, in)
  BY <1>1 DEF Ring, SameLinks
<1>3. PICK rank : Places(l, s, in, rank)
  BY <1>1
<1>4. Places(m, s, in, rank)
  BY <1>1, <1>3 DEF Places, SameLinks
<1> QED BY <1>1, <1>2, <1>4 DEF ListIs

\* A sentinel linked to itself is a list of nothing.
LEMMA ListCleared ==
    ASSUME NEW l, NEW s, l.next[s] = s, l.previous[s] = s
    PROVE  ListIs(l, s, {s})
<1> DEFINE rank == [x \in {s} |-> 0]
<1>1. {s} \ {s} = {} /\ IsFiniteSet({s}) /\ Cardinality({s} \ {s}) = 0
  BY FS_EmptySet, FS_Singleton
<1>2. Places(l, s, {s}, rank)
  BY <1>1 DEF Places
<1>3. Ring(l, {s})
  BY DEF Ring
<1> QED BY <1>1, <1>2, <1>3 DEF ListIs

\* An element that is linked before the sentinel is in the list.
LEMMA ListLonger ==
    ASSUME NEW nodes, NEW l \in Links(nodes), NEW in \in SUBSET nodes, NEW s, ListIs(l, s, in),
           NEW e \in nodes, e \notin in
    PROVE  /\ ListIs(Linked(l, s, e), s, in \union {e})
           /\ \A x \in nodes : x # e /\ x \notin in => SameLinks(Linked(l, s, e), l, x)
<1> DEFINE m == Linked(l, s, e)
           p == l.previous[s]
           more == in \union {e}
<1>1. /\ s \in in /\ s \in nodes /\ IsFiniteSet(in) /\ Ring(l, in)
      /\ p \in in /\ p \in nodes /\ l.next[p] = s /\ e # s /\ e # p
  BY DEF ListIs, Ring
<1>2. /\ m.next = [x \in nodes |-> IF x = p THEN e ELSE IF x = e THEN s ELSE l.next[x]]
      /\ m.previous = [x \in nodes |-> IF x = s THEN e ELSE IF x = e THEN p ELSE l.previous[x]]
  BY <1>1 DEF Linked, Links
<1>3. PICK rank : Places(l, s, in, rank)
  BY DEF ListIs
<1> HIDE DEF m
<1>4. Ring(m, more)
  BY <1>1, <1>2 DEF Ring
<1> DEFINE place == [x \in more |-> IF x = e THEN rank[p] + 1 ELSE rank[x]]
<1>5. /\ IsFiniteSet(more \ {s}) /\ Cardinality(more \ {s}) = Cardinality(in \ {s}) + 1
      /\ Cardinality(in \ {s}) \in Nat /\ IsFiniteSet(more)
  <2>1. IsFiniteSet(in \ {s}) /\ e \notin in \ {s}
    BY <1>1, FS_RemoveElement
  <2>2. more \ {s} = (in \ {s}) \union {e}
    BY <1>1
  <2>3. /\ IsFiniteSet((in \ {s}) \union {e})
        /\ Cardinality((in \ {s}) \union {e}) = Cardinality(in \ {s}) + 1
    BY <2>1, FS_AddElement
  <2>4. Cardinality(in \ {s}) \in Nat
    BY <2>1, FS_CardinalityType
  <2>5. IsFiniteSet(more)
    BY <1>1, FS_AddElement
  <2> QED BY <2>2, <2>3, <2>4, <2>5
<1>6. Places(m, s, more, place)
  <2>1. place \in [more -> Nat] /\ place[s] = 0
    BY <1>1, <1>3 DEF Places
  <2>2. ASSUME NEW x \in more \ {s} PROVE place[x] = place[m.previous[x]] + 1
    <3>1. CASE x = e
      BY <1>1, <1>2, <3>1
    <3>2. CASE x # e
      <4>1. x \in in \ {s} /\ m.previous[x] = l.previous[x] /\ l.previous[x] \in in
        BY <1>1, <1>2, <3>2 DEF Ring
      <4> QED BY <1>3, <4>1 DEF Places
    <3> QED BY <3>1, <3>2
  <2>3. ASSUME NEW x \in more, NEW y \in more, place[x] = place[y] PROVE x = y
    BY <1>1, <1>3, <2>3 DEF Places
  <2>4. m.previous[s] = e /\ place[e] = rank[p] + 1 /\ rank[p] \in Nat
    BY <1>1, <1>2, <1>3 DEF Places
  <2>5. \A x \in more : place[x] <= rank[p] + 1
    BY <1>1, <1>3, <2>4 DEF Places
  <2>6. place[e] <= Cardinality(more \ {s})
    BY <1>3, <1>5, <2>4 DEF Places
  <2> HIDE DEF place, more
  <2> QED BY <2>1, <2>2, <2>3, <2>4, <2>5, <2>6 DEF Places
<1>7. ListIs(m, s, more)
  BY <1>1, <1>4, <1>5, <1>6 DEF ListIs
<1>8. \A x \in nodes : x # e /\ x \notin in => SameLinks(m, l, x)
  BY <1>1, <1>2 DEF SameLinks
<1> QED BY <1>7, <1>8 DEF m

\* A node that leaves its list leaves the others their order.
LEMMA ListShorter ==
    ASSUME NEW nodes, NEW l \in Links(nodes), NEW in \in SUBSET nodes, NEW s, ListIs(l, s, in),
           NEW e \in in, e # s
    PROVE  /\ ListIs(ListRemove(l, e), s, in \ {e})
           /\ \A x \in nodes : x \notin in => SameLinks(ListRemove(l, e), l, x)
<1> DEFINE m == ListRemove(l, e)
           p == l.previous[e]
           n == l.next[e]
           less == in \ {e}
<1>1. /\ s \in in /\ IsFiniteSet(in) /\ Ring(l, in)
      /\ p \in in /\ n \in in /\ l.next[p] = e /\ l.previous[n] = e
  BY DEF ListIs, Ring
<1>2. PICK rank : Places(l, s, in, rank)
  BY DEF ListIs
<1>3. p # e /\ n # e
  <2>1. rank[e] = rank[p] + 1 /\ rank[p] \in Nat /\ rank[e] \in Nat
    BY <1>1, <1>2 DEF Places
  <2>2. p # e
    BY <2>1
  <2> QED BY <1>1, <2>2
<1>4. /\ m.next = [x \in nodes |-> IF x = e THEN Null ELSE IF x = p THEN n ELSE l.next[x]]
      /\ m.previous = [x \in nodes |-> IF x = e THEN Null ELSE IF x = n THEN p ELSE l.previous[x]]
  BY <1>1 DEF ListRemove, Links
<1> HIDE DEF m
<1>5. Ring(m, less)
  BY <1>1, <1>3, <1>4 DEF Ring
<1> DEFINE place == [x \in less |-> IF rank[x] > rank[e] THEN rank[x] - 1 ELSE rank[x]]
<1>6. /\ IsFiniteSet(less) /\ Cardinality(less \ {s}) = Cardinality(in \ {s}) - 1
      /\ Cardinality(in \ {s}) \in Nat
  <2>1. IsFiniteSet(in \ {s}) /\ e \in in \ {s} /\ less \ {s} = (in \ {s}) \ {e}
    BY <1>1, FS_RemoveElement
  <2>2. Cardinality((in \ {s}) \ {e}) = Cardinality(in \ {s}) - 1
    BY <2>1, FS_RemoveElement
  <2>3. Cardinality(in \ {s}) \in Nat
    BY <2>1, FS_CardinalityType
  <2>4. IsFiniteSet(less)
    BY <1>1, FS_RemoveElement
  <2> QED BY <2>1, <2>2, <2>3, <2>4
<1>7. /\ \A x \in in : rank[x] \in Nat
      /\ \A x \in less : rank[x] # rank[e]
      /\ rank[s] = 0 /\ rank[e] = rank[p] + 1 /\ rank[e] > rank[s]
  BY <1>1, <1>2 DEF Places
<1>8. \A x \in less : /\ rank[x] \in Nat /\ place[x] \in Nat
                      /\ rank[x] > rank[e] => place[x] = rank[x] - 1
                      /\ ~(rank[x] > rank[e]) => place[x] = rank[x]
  BY <1>7
<1>9. n # s => rank[n] = rank[e] + 1
  BY <1>1, <1>2 DEF Places
<1>10. Places(m, s, less, place)
  <2>1. place \in [less -> Nat] /\ place[s] = 0
    BY <1>1, <1>7, <1>8
  <2>2. ASSUME NEW x \in less \ {s} PROVE place[x] = place[m.previous[x]] + 1
    <3>1. CASE x = n
      <4>1. m.previous[x] = p /\ p \in less
        BY <1>1, <1>3, <1>4, <3>1
      <4>2. rank[x] = rank[e] + 1 /\ ~(rank[p] > rank[e])
        BY <1>7, <1>8, <1>9, <3>1, <4>1
      <4> HIDE DEF place
      <4> QED BY <1>7, <1>8, <4>1, <4>2
    <3>2. CASE x # n
      <4>1. /\ m.previous[x] = l.previous[x] /\ l.previous[x] \in less
            /\ rank[x] = rank[l.previous[x]] + 1
        BY <1>1, <1>2, <1>3, <1>4, <3>2 DEF Ring, Places
      <4>2. rank[x] > rank[e] <=> rank[l.previous[x]] > rank[e]
        BY <1>7, <4>1
      <4> HIDE DEF place
      <4> QED BY <1>7, <1>8, <4>1, <4>2
    <3> QED BY <3>1, <3>2
  <2>3. ASSUME NEW x \in less, NEW y \in less, place[x] = place[y] PROVE x = y
    <3>1. rank[x] = rank[y]
      <4>1. rank[x] \in Nat /\ rank[y] \in Nat /\ rank[e] \in Nat
            /\ rank[x] # rank[e] /\ rank[y] # rank[e]
        BY <1>7
      <4> HIDE DEF place
      <4> QED BY <1>8, <2>3, <4>1
    <3> QED BY <1>2, <3>1 DEF Places
  <2>4. CASE e = l.previous[s]
    <3>1. m.previous[s] = p /\ p \in less
      BY <1>1, <1>3, <1>4, <2>4 DEF Ring
    <3>2. \A x \in less : rank[x] <= rank[e]
      BY <1>2, <2>4 DEF Places
    <3>3. place[p] = rank[p] /\ \A x \in less : place[x] <= rank[p]
      <4> HIDE DEF place
      <4> QED BY <1>7, <1>8, <3>1, <3>2
    <3>4. rank[p] <= Cardinality(less \ {s})
      <4>1. rank[e] <= Cardinality(in \ {s})
        BY <1>2, <2>4 DEF Places
      <4>2. rank[p] \in Nat /\ rank[e] \in Nat /\ rank[e] = rank[p] + 1
        BY <1>1, <1>7
      <4> HIDE DEF p, less
      <4> QED BY <1>6, <4>1, <4>2
    <3> HIDE DEF place, less
    <3> QED BY <2>1, <2>2, <2>3, <3>1, <3>3, <3>4 DEF Places
  <2>5. CASE e # l.previous[s]
    <3> DEFINE z == l.previous[s]
    <3>1. m.previous[s] = z /\ z \in less /\ s # n
      BY <1>1, <1>3, <1>4, <2>5 DEF Ring
    <3>2. \A x \in in : rank[x] <= rank[z]
      BY <1>2 DEF Places
    <3>3. rank[z] > rank[e] /\ place[z] = rank[z] - 1
      <4>1. rank[e] <= rank[z] /\ rank[e] # rank[z]
        BY <1>7, <3>1, <3>2
      <4> HIDE DEF place, z
      <4> QED BY <1>7, <1>8, <3>1, <4>1
    <3>4. \A x \in less : place[x] <= place[z]
      <4> HIDE DEF place, z
      <4> QED BY <1>7, <1>8, <3>1, <3>2, <3>3
    <3>5. place[z] <= Cardinality(less \ {s})
      <4>1. rank[z] <= Cardinality(in \ {s})
        BY <1>2 DEF Places
      <4> HIDE DEF place, z
      <4> QED BY <1>6, <1>7, <1>8, <3>1, <3>3, <4>1
    <3> HIDE DEF place, less
    <3> QED BY <2>1, <2>2, <2>3, <3>1, <3>4, <3>5 DEF Places
  <2> QED BY <2>4, <2>5
<1>11. ListIs(m, s, less)
  BY <1>1, <1>5, <1>6, <1>10 DEF ListIs
<1>12. \A x \in nodes : x \notin in => SameLinks(m, l, x)
  BY <1>1, <1>4 DEF SameLinks
<1> QED BY <1>11, <1>12 DEF m

\* The function that Members defines.
Walks(walk, l, s, nodes, k) ==
    walk = [n \in 0..k |->
              IF n = 0 THEN s
              ELSE IF walk[n - 1] \in nodes THEN l.next[walk[n - 1]] ELSE Null]

\* The recursion of Members has a solution, and Members is what it passes.
LEMMA MembersDefined ==
    ASSUME NEW l, NEW s, NEW nodes
    PROVE  \E walk :
             /\ Members(l, s, nodes) = {walk[n] : n \in 0..BlockCount} \cap Blocks
             /\ walk[0] = s
             /\ \A n \in 1..BlockCount :
                  walk[n] = IF walk[n - 1] \in nodes THEN l.next[walk[n - 1]] ELSE Null
<1> DEFINE After(w) == IF w \in nodes THEN l.next[w] ELSE Null
           T == {m \in Nat : \E walk : Walks(walk, l, s, nodes, m)}
<1>1. T = Nat
  <2>1. 0 \in T
    <3> DEFINE walk == [n \in 0..0 |-> s]
    <3>1. Walks(walk, l, s, nodes, 0)
      BY DEF Walks
    <3> QED BY <3>1
  <2>2. ASSUME NEW m \in T PROVE m + 1 \in T
    <3>1. PICK walk : Walks(walk, l, s, nodes, m)
      OBVIOUS
    <3> DEFINE g == [n \in 0..(m + 1) |-> IF n <= m THEN walk[n] ELSE After(walk[m])]
    <3>2. \A n \in 0..m : walk[n] = IF n = 0 THEN s ELSE After(walk[n - 1])
      BY <3>1 DEF Walks
    <3> HIDE DEF After
    <3>3. \A n \in 0..(m + 1) : g[n] = IF n = 0 THEN s ELSE After(g[n - 1])
      BY <3>2
    <3> HIDE DEF g
    <3>4. g = [n \in 0..(m + 1) |-> IF n = 0 THEN s ELSE After(g[n - 1])]
      <4>1. g = [n \in 0..(m + 1) |-> g[n]]
        BY DEF g
      <4> QED BY <3>3, <4>1
    <3>5. Walks(g, l, s, nodes, m + 1)
      BY <3>4 DEF Walks, After
    <3> QED BY <3>5
  <2> HIDE DEF T
  <2> QED BY <2>1, <2>2, SetInduction DEF T
<1>2. BlockCount \in Nat /\ \E walk : Walks(walk, l, s, nodes, BlockCount)
  BY <1>1, BlockAssumption
<1> DEFINE walk == CHOOSE walk : Walks(walk, l, s, nodes, BlockCount)
<1>3. Walks(walk, l, s, nodes, BlockCount)
  BY <1>2
<1>4. Members(l, s, nodes) = {walk[n] : n \in 0..BlockCount} \cap Blocks
  BY DEF Members, Walks
<1> HIDE DEF walk
<1>5. \A n \in 0..BlockCount : walk[n] = IF n = 0 THEN s ELSE After(walk[n - 1])
  BY <1>3 DEF Walks
<1>6. walk[0] = s /\ \A n \in 1..BlockCount : walk[n] = After(walk[n - 1])
  <2> HIDE DEF After
  <2> QED BY <1>2, <1>5
<1> QED BY <1>4, <1>6

\* A walk along a list of blocks meets all of them, and nothing else.
LEMMA MembersAreList ==
    ASSUME NEW l, NEW s, NEW nodes, NEW in \in SUBSET nodes, ListIs(l, s, in),
           in \ {s} \subseteq Blocks, s \notin Blocks
    PROVE  Members(l, s, nodes) = in \ {s}
<1>1. PICK walk :
        /\ Members(l, s, nodes) = {walk[n] : n \in 0..BlockCount} \cap Blocks
        /\ walk[0] = s
        /\ \A n \in 1..BlockCount :
             walk[n] = IF walk[n - 1] \in nodes THEN l.next[walk[n - 1]] ELSE Null
  BY MembersDefined
<1>2. PICK rank : Places(l, s, in, rank)
  BY DEF ListIs
<1>3. BlockCount \in Nat /\ s \in in /\ IsFiniteSet(in) /\ Ring(l, in)
  BY BlockAssumption DEF ListIs
<1>4. Cardinality(in \ {s}) <= BlockCount
  <2>1. IsFiniteSet(1..BlockCount) /\ Cardinality(1..BlockCount) = BlockCount
    <3>1. 1 \in Int /\ BlockCount \in Int /\ (1 > BlockCount => BlockCount = 0)
      BY <1>3
    <3> QED BY <1>3, <3>1, FS_Interval
  <2>2. in \ {s} \in SUBSET (1..BlockCount)
    BY DEF Blocks
  <2>3. Cardinality(in \ {s}) <= Cardinality(1..BlockCount)
    BY <2>1, <2>2, FS_Subset, Zenon
  <2> QED BY <2>1, <2>3
<1> DEFINE T == {n \in Nat : n <= BlockCount =>
                   walk[n] \in in /\ \A x \in in : rank[x] = n => walk[n] = x}
<1>5. 0 \in T
  BY <1>1, <1>2, <1>3 DEF Places
<1>6. ASSUME NEW n \in T PROVE n + 1 \in T
  <2>1. SUFFICES ASSUME n + 1 <= BlockCount
                 PROVE  walk[n + 1] \in in /\ \A x \in in : rank[x] = n + 1 => walk[n + 1] = x
    OBVIOUS
  <2>2. n \in Nat /\ n + 1 \in 1..BlockCount /\ (n + 1) - 1 = n /\ n <= BlockCount
    BY <1>3, <2>1
  <2>3. walk[n] \in in /\ \A x \in in : rank[x] = n => walk[n] = x
    BY <2>2
  <2>4. walk[n + 1] = l.next[walk[n]]
    BY <1>1, <2>2, <2>3
  <2>5. walk[n + 1] \in in
    BY <1>3, <2>3, <2>4 DEF Ring
  <2>6. ASSUME NEW x \in in, rank[x] = n + 1 PROVE walk[n + 1] = x
    <3>1. x # s
      BY <1>2, <2>2, <2>6 DEF Places
    <3>2. rank[x] = rank[l.previous[x]] + 1 /\ l.previous[x] \in in
      BY <1>2, <1>3, <3>1 DEF Places, Ring
    <3>3. rank[l.previous[x]] = n
      <4>1. rank[l.previous[x]] \in Nat
        BY <1>2, <3>2 DEF Places
      <4> QED BY <2>2, <2>6, <3>2, <4>1
    <3>4. walk[n] = l.previous[x]
      BY <2>3, <3>2, <3>3
    <3> QED BY <1>3, <2>4, <3>4 DEF Ring
  <2> QED BY <2>5, <2>6
<1>7. T = Nat
  <2> HIDE DEF T
  <2> QED BY <1>5, <1>6, SetInduction DEF T
<1>8. ASSUME NEW n \in 0..BlockCount
      PROVE  walk[n] \in in /\ \A x \in in : rank[x] = n => walk[n] = x
  <2>1. n \in T /\ n <= BlockCount
    BY <1>3, <1>7
  <2> QED BY <2>1
<1>9. ASSUME NEW x \in in PROVE \E n \in 0..BlockCount : walk[n] = x
  <2>1. rank[x] \in Nat /\ rank[x] <= rank[l.previous[s]] /\ rank[l.previous[s]] \in Nat
        /\ rank[l.previous[s]] <= Cardinality(in \ {s})
    BY <1>2, <1>3 DEF Places, Ring
  <2>2. Cardinality(in \ {s}) \in Nat
    BY <1>3, FS_RemoveElement, FS_CardinalityType
  <2>3. rank[x] \in 0..BlockCount
    BY <1>3, <1>4, <2>1, <2>2
  <2> QED BY <1>8, <2>3
<1> QED BY <1>1, <1>8, <1>9

-----------------------------------------------------------------------------
(* Who holds which block.                                                  *)

TakenBlocks == {held[h] : h \in Holders} \cap Blocks

\* No block has two holders.
HeldApart == \A g, h \in Holders : held[g] \in Blocks /\ held[g] = held[h] => g = h

\* The two lists of blocks, and nothing else, are linked.
HeapLists(l, free, used) ==
    /\ free \in SUBSET Headers /\ used \in SUBSET Headers /\ free \cap used = {}
    /\ ListIs(l, Free, free) /\ ListIs(l, Used, used)
    /\ Listed(l, Headers) = free \union used

\* The two queues.
ClientQueues(c, acks, msgs) ==
    /\ acks \in SUBSET Areas /\ msgs \in SUBSET Areas /\ acks \cap msgs = {}
    /\ ListIs(c, Acks, acks) /\ ListIs(c, Messages, msgs)

\* What is in a queue is held as an element of it, and no message is missing.
Owned(acks, msgs) ==
    /\ \A b \in acks \ {Acks} : \E h \in Holders : held[h] = b /\ role[h] = Acks
    /\ \A b \in msgs \ {Messages} : \E h \in Holders : held[h] = b /\ role[h] = Messages
    /\ \A h \in Holders : held[h] \in Blocks /\ role[h] = Messages => held[h] \in msgs

\* Each block in use has one holder, and each queue is its client's.
Own ==
    /\ HeldApart
    /\ \E free, used : HeapLists(heads, free, used) /\ used \ {Used} = TakenBlocks
    /\ \E acks, msgs : ClientQueues(areas, acks, msgs) /\ Owned(acks, msgs)

\* The inductive invariant: while no buffer was lost and nothing is undefined.
OwnInv ==
    /\ PoolInv
    /\ pool = "growing" => \A h \in Holders : held[h] \notin Blocks
    /\ ~failed /\ fault = "none" /\ pool # "none" => Own

\* What the names of the sentinels and words are not.
LEMMA NamesDiffer ==
    /\ Null \notin Headers /\ Junk \notin Headers /\ Null \notin Areas /\ Junk \notin Areas
    /\ Free \in Headers /\ Used \in Headers /\ Free # Used
    /\ Acks \in Areas /\ Messages \in Areas /\ Acks # Messages
    /\ Free \notin Blocks /\ Used \notin Blocks /\ Acks \notin Blocks /\ Messages \notin Blocks
    /\ Blocks \subseteq Headers /\ Blocks \subseteq Areas
    /\ NotBlocks \cap Blocks = {} /\ "data" \notin Queues
    /\ Headers = Blocks \union {Free, Used} /\ Areas = Blocks \union Queues
BY NodeAssumption DEF Headers, Areas, Queues

\* A block that goes from one list to the other.
LEMMA BlockMoves ==
    ASSUME TwoLists(heads), NEW s \in {Free, Used}, NEW t \in {Free, Used}, s # t,
           NEW from \in SUBSET Headers, NEW to \in SUBSET Headers, from \cap to = {},
           ListIs(heads, s, from), ListIs(heads, t, to), NEW b \in from \cap Blocks
    PROVE  LET m == ListAdd(ListRemove(heads, b), t, b)
           IN  ListIs(m, s, from \ {b}) /\ ListIs(m, t, to \union {b})
<1> DEFINE k == ListRemove(heads, b)
           m == Linked(k, t, b)
<1>1. /\ heads \in Links(Headers) /\ b # s /\ b # t /\ b \in Headers /\ b \notin to
      /\ heads.next[b] \in Headers /\ Null \notin Headers /\ Junk \notin Headers
  BY NamesDiffer DEF TwoLists, ListIs, Ring
<1>2. k \in Links(Headers) /\ Insertable(k, b)
  BY <1>1, RemoveSound DEF TwoLists
<1>3. /\ ListIs(k, s, from \ {b})
      /\ \A x \in Headers : x \notin from => SameLinks(k, heads, x)
  BY <1>1, ListShorter
<1> HIDE DEF k
<1>4. ListIs(k, t, to)
  BY <1>3, ListElsewhere
<1>5. /\ ListIs(m, t, to \union {b})
      /\ \A x \in Headers : x # b /\ x \notin to => SameLinks(m, k, x)
  BY <1>1, <1>2, <1>4, ListLonger
<1> HIDE DEF m
<1>6. ListIs(m, s, from \ {b})
  BY <1>3, <1>5, ListElsewhere
<1>7. ListAdd(k, t, b) = m
  BY <1>2 DEF ListAdd, ListInsert, m
<1> QED BY <1>5, <1>6, <1>7 DEF k

\* A block that is taken is in use.
LEMMA HeapTakes ==
    ASSUME TwoLists(heads), NEW free, NEW used, HeapLists(heads, free, used),
           NEW b \in free \cap Blocks
    PROVE  HeapLists(Taken(b), free \ {b}, used \union {b})
<1> DEFINE m == Taken(b)
<1>1. ListIs(m, Free, free \ {b}) /\ ListIs(m, Used, used \union {b})
  BY NamesDiffer, BlockMoves DEF HeapLists, Taken
<1>2. Listed(m, Headers) = Listed(heads, Headers)
  <2>1. b \in Listed(heads, Headers)
    BY DEF HeapLists
  <2> QED BY <2>1, MoveSound DEF Taken
<1> HIDE DEF m
<1> QED BY <1>1, <1>2 DEF HeapLists, m

\* A block that is returned is free.
LEMMA HeapReturns ==
    ASSUME TwoLists(heads), NEW free, NEW used, HeapLists(heads, free, used),
           NEW b \in used \cap Blocks
    PROVE  HeapLists(Returned(b), free \union {b}, used \ {b})
<1> DEFINE m == Returned(b)
<1>1. ListIs(m, Used, used \ {b}) /\ ListIs(m, Free, free \union {b})
  BY NamesDiffer, BlockMoves DEF HeapLists, Returned
<1>2. Listed(m, Headers) = Listed(heads, Headers)
  <2>1. b \in Listed(heads, Headers)
    BY DEF HeapLists
  <2> QED BY <2>1, MoveSound DEF Returned
<1> HIDE DEF m
<1> QED BY <1>1, <1>2 DEF HeapLists, m

\* The first free block is in its list, and nobody holds it.
LEMMA FirstIsFree ==
    ASSUME NEW free, NEW used, HeapLists(heads, free, used), used \ {Used} = TakenBlocks,
           ~IsEmpty(heads, Free)
    PROVE  First(heads, Free) \in free \cap Blocks /\ First(heads, Free) \notin TakenBlocks
<1> DEFINE b == First(heads, Free)
<1>1. b \in free /\ b # Free
  BY DEF HeapLists, ListIs, Ring, First, IsEmpty
<1>2. Used \in used /\ b \notin used /\ b # Used /\ b \in Headers
  BY <1>1 DEF HeapLists, ListIs
<1> QED BY <1>1, <1>2, NamesDiffer

\* Queues that nobody touches stay their client's.
LEMMA QueuesKept ==
    ASSUME NEW acks, NEW msgs, ClientQueues(areas, acks, msgs), Owned(acks, msgs),
           \A x \in acks \union msgs : SameLinks(areas', areas, x),
           \A h \in Holders :
             (held[h] \in Blocks /\ role[h] \in Queues) \/ (held'[h] \in Blocks /\ role'[h] \in Queues)
               => held'[h] = held[h] /\ role'[h] = role[h]
    PROVE  ClientQueues(areas', acks, msgs) /\ Owned(acks, msgs)'
<1>1. ClientQueues(areas', acks, msgs)
  <2>1. ListIs(areas', Acks, acks) /\ ListIs(areas', Messages, msgs)
    BY ListElsewhere DEF ClientQueues
  <2> QED BY <2>1 DEF ClientQueues
<1>2. ASSUME NEW b \in acks \ {Acks}
      PROVE  \E h \in Holders : held'[h] = b /\ role'[h] = Acks
  <2>1. b \in Blocks
    BY NamesDiffer DEF ClientQueues, ListIs, Queues
  <2> QED BY <2>1 DEF Owned, Queues
<1>3. ASSUME NEW b \in msgs \ {Messages}
      PROVE  \E h \in Holders : held'[h] = b /\ role'[h] = Messages
  <2>1. b \in Blocks
    BY NamesDiffer DEF ClientQueues, ListIs, Queues
  <2> QED BY <2>1 DEF Owned, Queues
<1>4. \A h \in Holders : held'[h] \in Blocks /\ role'[h] = Messages => held'[h] \in msgs
  BY DEF Owned, Queues
<1> QED BY <1>1, <1>2, <1>3, <1>4 DEF Owned

\* An element of a queue is a block that is held as one.
LEMMA QueuedIsHeld ==
    ASSUME NEW acks, NEW msgs, ClientQueues(areas, acks, msgs), Owned(acks, msgs),
           NEW b \in Blocks, b \in acks \union msgs
    PROVE  b \in TakenBlocks /\ \E h \in Holders : held[h] = b /\ role[h] \in Queues
BY NamesDiffer DEF Owned, TakenBlocks, Queues

\* A block that is not in a queue may have its words changed.
LEMMA WordsElsewhere ==
    ASSUME NEW x \in Areas, NEW b \in Blocks, x # b, areas \in Links(Areas), NEW initialize
    PROVE  /\ SameLinks(Cleared(b, initialize), areas, x)
           /\ SameLinks(Written(b), areas, x)
<1>1. b \in Areas
  BY NamesDiffer
<1> QED BY <1>1 DEF Cleared, Written, Links, SameLinks

\* Memory is allocated.
LEMMA MallocOwn ==
    ASSUME PoolInv, Own, pool = "ready", NEW h \in Holders, Malloc(h)
    PROVE  Own'
<1>1. /\ held[h] = Nowhere /\ role' = [role EXCEPT ![h] = "data"]
      /\ held \in [Holders -> Blocks \cup NotBlocks] /\ role \in [Holders -> {"data"} \cup Queues]
      /\ areas \in Links(Areas) /\ TwoLists(heads) /\ Nowhere \notin Blocks
  BY NodeAssumption DEF Malloc, PoolInv, PoolTypeOK, Links, NotBlocks
<1>2. PICK initialize \in BOOLEAN : AllocBlock(h, initialize) \/ AllocChunk(h, initialize)
  BY DEF Malloc
<1>3. PICK acks, msgs : ClientQueues(areas, acks, msgs) /\ Owned(acks, msgs)
  BY DEF Own
<1>4. PICK free, used : HeapLists(heads, free, used) /\ used \ {Used} = TakenBlocks
  BY DEF Own
<1>5. CASE AllocBlock(h, initialize)
  <2> DEFINE b == First(heads, Free)
  <2>1. /\ ~IsEmpty(heads, Free) /\ heads' = Taken(b) /\ areas' = Cleared(b, initialize)
        /\ held' = [held EXCEPT ![h] = b]
    BY <1>5 DEF AllocBlock
  <2>2. b \in free \cap Blocks /\ b \notin TakenBlocks
    BY <1>4, <2>1, FirstIsFree
  <2> HIDE DEF b
  <2>3. HeapLists(heads', free \ {b}, used \union {b})
    BY <1>1, <1>4, <2>1, <2>2, HeapTakes
  <2>4. TakenBlocks' = TakenBlocks \union {b}
    BY <1>1, <2>1, <2>2 DEF TakenBlocks
  <2>5. (used \union {b}) \ {Used} = TakenBlocks'
    BY <1>4, <2>2, <2>4, NamesDiffer
  <2>6. HeldApart'
    BY <1>1, <2>1, <2>2 DEF Own, HeldApart, TakenBlocks
  <2>7. b \notin acks \union msgs
    BY <1>3, <2>2, QueuedIsHeld
  <2>8. \A x \in acks \union msgs : SameLinks(areas', areas, x)
    <3>1. acks \union msgs \subseteq Areas
      BY <1>3 DEF ClientQueues
    <3> QED BY <1>1, <2>1, <2>2, <2>7, <3>1, WordsElsewhere
  <2>9. ClientQueues(areas', acks, msgs) /\ Owned(acks, msgs)'
    <3>1. \A g \in Holders :
            (held[g] \in Blocks /\ role[g] \in Queues) \/ (held'[g] \in Blocks /\ role'[g] \in Queues)
              => held'[g] = held[g] /\ role'[g] = role[g]
      BY <1>1, <2>1, NamesDiffer
    <3> QED BY <1>3, <2>8, <3>1, QueuesKept
  <2> QED BY <2>3, <2>5, <2>6, <2>9 DEF Own
<1>6. CASE AllocChunk(h, initialize)
  <2>1. PICK given \in {Shifted, Wild} : held' = [held EXCEPT ![h] = given]
    BY <1>6 DEF AllocChunk
  <2>2. UNCHANGED <<heads, areas>> /\ given \notin Blocks
    BY <1>6, NodeAssumption DEF AllocChunk, NotBlocks
  <2>3. TakenBlocks' = TakenBlocks
    BY <1>1, <2>1, <2>2 DEF TakenBlocks
  <2>4. HeldApart'
    BY <1>1, <2>1, <2>2 DEF Own, HeldApart
  <2>5. ClientQueues(areas', acks, msgs) /\ Owned(acks, msgs)'
    <3>1. \A g \in Holders :
            (held[g] \in Blocks /\ role[g] \in Queues) \/ (held'[g] \in Blocks /\ role'[g] \in Queues)
              => held'[g] = held[g] /\ role'[g] = role[g]
      BY <1>1, <2>1, <2>2, NamesDiffer
    <3>2. \A x \in acks \union msgs : SameLinks(areas', areas, x)
      BY <2>2 DEF SameLinks
    <3> QED BY <1>3, <3>1, <3>2, QueuesKept
  <2> QED BY <1>4, <2>2, <2>3, <2>4, <2>5 DEF Own
<1> QED BY <1>2, <1>5, <1>6

\* Memory that is no element of a queue is written, cleared, or left alone.
LEMMA WrittenOwn ==
    ASSUME PoolInv, Own, pool = "ready", NEW h \in Holders, role[h] = "data",
           UNCHANGED <<heads, held, role>>,
           \/ areas' = areas
           \/ held[h] \in Blocks /\ areas' = Written(held[h])
           \/ held[h] \in Blocks /\ \E initialize \in BOOLEAN : areas' = Cleared(held[h], initialize)
    PROVE  Own'
<1>1. areas \in Links(Areas) /\ TakenBlocks' = TakenBlocks /\ HeldApart'
  BY DEF PoolInv, PoolTypeOK, Links, TakenBlocks, Own, HeldApart
<1>2. PICK acks, msgs : ClientQueues(areas, acks, msgs) /\ Owned(acks, msgs)
  BY DEF Own
<1>3. held[h] \in Blocks => held[h] \notin acks \union msgs
  <2>1. SUFFICES ASSUME held[h] \in Blocks, held[h] \in acks \union msgs PROVE FALSE
    OBVIOUS
  <2>2. PICK g \in Holders : held[g] = held[h] /\ role[g] \in Queues
    BY <1>2, <2>1, QueuedIsHeld
  <2>3. g = h
    BY <2>1, <2>2 DEF Own, HeldApart
  <2> QED BY <2>2, <2>3, NamesDiffer
<1>4. \A x \in acks \union msgs : SameLinks(areas', areas, x)
  <2>1. acks \union msgs \subseteq Areas
    BY <1>2 DEF ClientQueues
  <2>2. CASE areas' = areas
    BY <2>2 DEF SameLinks
  <2>3. CASE areas' # areas
    BY <1>1, <1>3, <2>1, <2>3, WordsElsewhere
  <2> QED BY <2>2, <2>3
<1>5. ClientQueues(areas', acks, msgs) /\ Owned(acks, msgs)'
  BY <1>2, <1>4, QueuesKept
<1>6. \E free, used : HeapLists(heads', free, used) /\ used \ {Used} = TakenBlocks'
  BY <1>1 DEF Own
<1> QED BY <1>1, <1>5, <1>6 DEF Own

\* A block is given back, or something else is, by whom it is no element of a queue.
LEMMA ReleaseOwn ==
    ASSUME PoolInv, Own, pool = "ready", NEW h \in Holders, role[h] = "data",
           heads' = IF held[h] \in Blocks THEN Returned(held[h]) ELSE heads,
           UNCHANGED <<areas, role>>,
           NEW given \in NotBlocks, held' = [held EXCEPT ![h] = given]
    PROVE  Own'
<1>1. /\ held \in [Holders -> Blocks \cup NotBlocks] /\ TwoLists(heads) /\ given \notin Blocks
      /\ role \in [Holders -> {"data"} \cup Queues]
  BY NamesDiffer DEF PoolInv, PoolTypeOK
<1>2. PICK acks, msgs : ClientQueues(areas, acks, msgs) /\ Owned(acks, msgs)
  BY DEF Own
<1>3. PICK free, used : HeapLists(heads, free, used) /\ used \ {Used} = TakenBlocks
  BY DEF Own
<1>4. HeldApart'
  BY <1>1 DEF Own, HeldApart
<1>5. ClientQueues(areas', acks, msgs) /\ Owned(acks, msgs)'
  <2>1. \A g \in Holders :
          (held[g] \in Blocks /\ role[g] \in Queues) \/ (held'[g] \in Blocks /\ role'[g] \in Queues)
            => held'[g] = held[g] /\ role'[g] = role[g]
    BY <1>1, NamesDiffer
  <2>2. \A x \in acks \union msgs : SameLinks(areas', areas, x)
    BY DEF SameLinks
  <2> QED BY <1>2, <2>1, <2>2, QueuesKept
<1>6. CASE held[h] \in Blocks
  <2> DEFINE b == held[h]
  <2>1. b \in used \cap Blocks
    BY <1>3, <1>6 DEF TakenBlocks
  <2>2. TakenBlocks' = TakenBlocks \ {b}
    BY <1>1, <1>6 DEF TakenBlocks, Own, HeldApart
  <2>3. HeapLists(heads', free \union {b}, used \ {b})
    BY <1>1, <1>3, <1>6, <2>1, HeapReturns
  <2>4. (used \ {b}) \ {Used} = TakenBlocks'
    BY <1>3, <2>2
  <2> QED BY <1>4, <1>5, <2>3, <2>4 DEF Own
<1>7. CASE held[h] \notin Blocks
  <2>1. TakenBlocks' = TakenBlocks /\ heads' = heads
    BY <1>1, <1>7 DEF TakenBlocks
  <2> QED BY <1>3, <1>4, <1>5, <2>1 DEF Own
<1> QED BY <1>6, <1>7

\* An element joins a queue.
LEMMA QueueAdds ==
    ASSUME NEW c \in Links(Areas), NEW acks, NEW msgs, ClientQueues(c, acks, msgs),
           NEW b \in Blocks, b \notin acks \union msgs, NEW q \in Queues, Insertable(c, b)
    PROVE  ClientQueues(ListAdd(c, q, b), IF q = Acks THEN acks \union {b} ELSE acks,
                                          IF q = Messages THEN msgs \union {b} ELSE msgs)
<1> DEFINE m == Linked(c, q, b)
<1>1. /\ acks \in SUBSET Areas /\ msgs \in SUBSET Areas /\ acks \cap msgs = {}
      /\ ListIs(c, Acks, acks) /\ ListIs(c, Messages, msgs) /\ b \in Areas
      /\ b \notin acks /\ b \notin msgs
  BY NamesDiffer DEF ClientQueues
<1>2. ListAdd(c, q, b) = m
  BY DEF ListAdd, ListInsert
<1>3. CASE q = Acks
  <2>1. /\ ListIs(Linked(c, Acks, b), Acks, acks \union {b})
        /\ \A x \in Areas : x # b /\ x \notin acks => SameLinks(Linked(c, Acks, b), c, x)
    BY <1>1, ListLonger
  <2> HIDE DEF m
  <2>2. ListIs(m, Acks, acks \union {b}) /\ \A x \in msgs : SameLinks(m, c, x)
    BY <1>1, <1>3, <2>1 DEF m
  <2>3. ListIs(m, Messages, msgs)
    BY <1>1, <2>2, ListElsewhere
  <2> QED BY <1>1, <1>2, <1>3, <2>2, <2>3, NamesDiffer DEF ClientQueues
<1>4. CASE q = Messages
  <2>1. /\ ListIs(Linked(c, Messages, b), Messages, msgs \union {b})
        /\ \A x \in Areas : x # b /\ x \notin msgs => SameLinks(Linked(c, Messages, b), c, x)
    BY <1>1, ListLonger
  <2> HIDE DEF m
  <2>2. ListIs(m, Messages, msgs \union {b}) /\ \A x \in acks : SameLinks(m, c, x)
    BY <1>1, <1>4, <2>1 DEF m
  <2>3. ListIs(m, Acks, acks)
    BY <1>1, <2>2, ListElsewhere
  <2> QED BY <1>1, <1>2, <1>4, <2>2, <2>3, NamesDiffer DEF ClientQueues
<1> QED BY <1>3, <1>4 DEF Queues

\* An element leaves its queue.
LEMMA QueueLoses ==
    ASSUME NEW c \in Links(Areas), NEW acks, NEW msgs, ClientQueues(c, acks, msgs),
           NEW b \in (acks \union msgs) \cap Blocks
    PROVE  ClientQueues(ListRemove(c, b), acks \ {b}, msgs \ {b})
<1> DEFINE m == ListRemove(c, b)
<1>1. /\ acks \in SUBSET Areas /\ msgs \in SUBSET Areas /\ acks \cap msgs = {}
      /\ ListIs(c, Acks, acks) /\ ListIs(c, Messages, msgs)
      /\ b # Acks /\ b # Messages
  BY NamesDiffer DEF ClientQueues
<1>2. CASE b \in acks
  <2>1. /\ ListIs(m, Acks, acks \ {b})
        /\ \A x \in Areas : x \notin acks => SameLinks(m, c, x)
    BY <1>1, <1>2, ListShorter
  <2> HIDE DEF m
  <2>2. ListIs(m, Messages, msgs)
    BY <1>1, <2>1, ListElsewhere
  <2>3. msgs \ {b} = msgs
    BY <1>1, <1>2
  <2> QED BY <1>1, <2>1, <2>2, <2>3 DEF ClientQueues, m
<1>3. CASE b \in msgs
  <2>1. /\ ListIs(m, Messages, msgs \ {b})
        /\ \A x \in Areas : x \notin msgs => SameLinks(m, c, x)
    BY <1>1, <1>3, ListShorter
  <2> HIDE DEF m
  <2>2. ListIs(m, Acks, acks)
    BY <1>1, <2>1, ListElsewhere
  <2>3. acks \ {b} = acks
    BY <1>1, <1>3
  <2> QED BY <1>1, <2>1, <2>2, <2>3 DEF ClientQueues, m
<1> QED BY <1>2, <1>3

\* An acknowledgement or a message is allocated and queued.
LEMMA EnqueueOwn ==
    ASSUME PoolInv, Own, NEW h \in Holders, NEW q \in Queues, Enqueue(h, q), fault' = "none"
    PROVE  Own'
<1>1. /\ held[h] = Nowhere /\ pool = "ready" /\ role' = [role EXCEPT ![h] = q]
      /\ held \in [Holders -> Blocks \cup NotBlocks] /\ role \in [Holders -> {"data"} \cup Queues]
      /\ areas \in Links(Areas) /\ TwoLists(heads) /\ Nowhere \notin Blocks
  BY NodeAssumption DEF Enqueue, PoolInv, PoolTypeOK, Links, NotBlocks
<1>2. ~IsEmpty(heads, Free)
  BY <1>1 DEF Enqueue, AllocChunk
<1>21. PICK b : b = First(heads, Free)
  OBVIOUS
<1> DEFINE c == Cleared(b, q = Messages)
<1>3. heads' = Taken(b) /\ held' = [held EXCEPT ![h] = b] /\ areas' = ListAdd(c, q, b)
  BY <1>2, <1>21 DEF Enqueue
<1>4. PICK free, used : HeapLists(heads, free, used) /\ used \ {Used} = TakenBlocks
  BY DEF Own
<1>5. PICK acks, msgs : ClientQueues(areas, acks, msgs) /\ Owned(acks, msgs)
  BY DEF Own
<1>6. b \in free \cap Blocks /\ b \notin TakenBlocks /\ b \in Areas
  BY <1>2, <1>4, <1>21, FirstIsFree, NamesDiffer
<1>7. HeapLists(heads', free \ {b}, used \union {b})
  BY <1>1, <1>3, <1>4, <1>6, HeapTakes
<1>8. TakenBlocks' = TakenBlocks \union {b}
  BY <1>1, <1>3, <1>6 DEF TakenBlocks
<1>9. (used \union {b}) \ {Used} = TakenBlocks'
  BY <1>4, <1>6, <1>8, NamesDiffer
<1>10. HeldApart'
  BY <1>1, <1>3, <1>6 DEF Own, HeldApart, TakenBlocks
<1>11. b \notin acks \union msgs
  BY <1>5, <1>6, QueuedIsHeld
<1>12. /\ c \in Links(Areas)
       /\ q = Messages => c.next[b] = Null /\ c.previous[b] = Null
       /\ \A x \in acks \union msgs : SameLinks(c, areas, x)
  <2>1. c \in Links(Areas) /\ (q = Messages => c.next[b] = Null /\ c.previous[b] = Null)
    BY <1>1, <1>6 DEF Cleared, Links
  <2>2. acks \union msgs \subseteq Areas
    BY <1>5 DEF ClientQueues
  <2> QED BY <1>1, <1>6, <1>11, <2>1, <2>2, WordsElsewhere
<1> HIDE DEF c
<1>13. ClientQueues(c, acks, msgs)
  <2>1. ListIs(c, Acks, acks) /\ ListIs(c, Messages, msgs)
    BY <1>5, <1>12, ListElsewhere DEF ClientQueues
  <2> QED BY <1>5, <2>1 DEF ClientQueues
<1>14. /\ \A g \in Holders : g # h => held'[g] = held[g] /\ role'[g] = role[g]
       /\ held'[h] = b /\ role'[h] = q
  BY <1>1, <1>3
<1>15. \A g \in Holders : held[g] \in Blocks => g # h
  BY <1>1
<1>16. Acks # Messages /\ \A x \in (acks \union msgs) \ {Acks, Messages} : x \in Blocks
  BY <1>5, NamesDiffer DEF ClientQueues, Queues
<1>17. acks \cap msgs = {} /\ Acks \in acks /\ Messages \in msgs
  BY <1>5 DEF ClientQueues, ListIs
<1>18. /\ \A x \in acks \ {Acks} : \E g \in Holders : held'[g] = x /\ role'[g] = Acks
       /\ \A x \in msgs \ {Messages} : \E g \in Holders : held'[g] = x /\ role'[g] = Messages
  <2>1. ASSUME NEW x \in acks \ {Acks} PROVE \E g \in Holders : held'[g] = x /\ role'[g] = Acks
    <3>1. x \in Blocks
      BY <1>16, <1>17
    <3>2. PICK g \in Holders : held[g] = x /\ role[g] = Acks
      BY <1>5 DEF Owned
    <3> QED BY <1>14, <1>15, <3>1, <3>2
  <2>2. ASSUME NEW x \in msgs \ {Messages}
        PROVE  \E g \in Holders : held'[g] = x /\ role'[g] = Messages
    <3>1. x \in Blocks
      BY <1>16, <1>17
    <3>2. PICK g \in Holders : held[g] = x /\ role[g] = Messages
      BY <1>5 DEF Owned
    <3> QED BY <1>14, <1>15, <3>1, <3>2
  <2> QED BY <2>1, <2>2
<1>19. \A g \in Holders : held'[g] \in Blocks /\ role'[g] = Messages => held'[g] \in msgs \/ g = h
  BY <1>5, <1>14 DEF Owned
<1>20. \E a, m : ClientQueues(areas', a, m) /\ Owned(a, m)'
  <2>1. CASE Insertable(c, b)
    <3> DEFINE a == IF q = Acks THEN acks \union {b} ELSE acks
               m == IF q = Messages THEN msgs \union {b} ELSE msgs
    <3>1. ClientQueues(areas', a, m)
      BY <1>3, <1>6, <1>11, <1>12, <1>13, <2>1, QueueAdds
    <3>2. /\ \A x \in a \ {Acks} : x \in acks \ {Acks} \/ (x = b /\ q = Acks)
          /\ \A x \in m \ {Messages} : x \in msgs \ {Messages} \/ (x = b /\ q = Messages)
          /\ msgs \subseteq m /\ (q = Messages => b \in m)
      OBVIOUS
    <3> HIDE DEF a, m
    <3>3. \A x \in a \ {Acks} : \E g \in Holders : held'[g] = x /\ role'[g] = Acks
      BY <1>14, <1>18, <3>2
    <3>4. \A x \in m \ {Messages} : \E g \in Holders : held'[g] = x /\ role'[g] = Messages
      BY <1>14, <1>18, <3>2
    <3>5. \A g \in Holders : held'[g] \in Blocks /\ role'[g] = Messages => held'[g] \in m
      BY <1>14, <1>19, <3>2
    <3>6. Owned(a, m)'
      BY <3>3, <3>4, <3>5 DEF Owned
    <3> QED BY <3>1, <3>6
  <2>2. CASE ~Insertable(c, b)
    <3>1. areas' = c /\ q # Messages
      BY <1>3, <1>12, <2>2 DEF ListAdd, ListInsert, Insertable
    <3>2. Owned(acks, msgs)'
      BY <1>14, <1>18, <1>19, <3>1 DEF Owned
    <3> QED BY <1>13, <3>1, <3>2
  <2> QED BY <2>1, <2>2
<1> QED BY <1>7, <1>9, <1>10, <1>20 DEF Own

\* The first of a queue leaves it, and its memory is given back.
LEMMA DequeueOwn ==
    ASSUME PoolInv, Own, NEW q \in Queues, Dequeue(q)
    PROVE  Own'
<1>0. PICK b : b = First(areas, q)
  OBVIOUS
<1>1. /\ pool = "ready" /\ ~IsEmpty(areas, q) /\ role' = role
      /\ held \in [Holders -> Blocks \cup NotBlocks] /\ areas \in Links(Areas)
      /\ TwoLists(heads) /\ Nowhere \notin Blocks
  BY NodeAssumption DEF Dequeue, PoolInv, PoolTypeOK, Links, NotBlocks
<1>2. PICK free, used : HeapLists(heads, free, used) /\ used \ {Used} = TakenBlocks
  BY DEF Own
<1>3. PICK acks, msgs : ClientQueues(areas, acks, msgs) /\ Owned(acks, msgs)
  BY DEF Own
<1>4. /\ acks \in SUBSET Areas /\ msgs \in SUBSET Areas /\ acks \cap msgs = {}
      /\ Ring(areas, acks) /\ Ring(areas, msgs) /\ Acks \in acks /\ Messages \in msgs
  BY <1>3 DEF ClientQueues, ListIs
<1>5. /\ b \in acks \union msgs /\ b \notin Queues
      /\ q = Acks => b \in acks \ {Acks}
      /\ q = Messages => b \in msgs \ {Messages}
  <2>1. CASE q = Acks
    BY <1>0, <1>1, <1>4, <2>1, NamesDiffer DEF Ring, First, IsEmpty, Queues
  <2>2. CASE q = Messages
    BY <1>0, <1>1, <1>4, <2>2, NamesDiffer DEF Ring, First, IsEmpty, Queues
  <2> QED BY <2>1, <2>2, NamesDiffer DEF Queues
<1>6. b \in Blocks /\ {areas.next[b], areas.previous[b]} \subseteq Areas
  BY <1>4, <1>5, NamesDiffer DEF Ring
<1>7. /\ areas' = ListRemove(areas, b) /\ heads' = Returned(b)
      /\ held' = [g \in Holders |-> IF held[g] = b /\ role[g] = q THEN Nowhere ELSE held[g]]
  BY <1>0, <1>6 DEF Dequeue
<1>8. PICK h \in Holders : held[h] = b /\ role[h] = q
  <2>1. q = Acks \/ q = Messages
    BY DEF Queues
  <2> QED BY <1>3, <1>5, <2>1 DEF Owned
<1>9. \A g \in Holders : IF g = h THEN held'[g] = Nowhere
                         ELSE held'[g] = held[g] /\ held[g] # b
  <2>1. \A g \in Holders : held[g] = b => g = h
    BY <1>6, <1>8 DEF Own, HeldApart
  <2> QED BY <1>7, <1>8, <2>1
<1>10. b \in used \cap Blocks
  BY <1>2, <1>6, <1>8 DEF TakenBlocks
<1>11. TakenBlocks' = TakenBlocks \ {b}
  BY <1>1, <1>8, <1>9 DEF TakenBlocks
<1>12. HeapLists(heads', free \union {b}, used \ {b})
  BY <1>1, <1>2, <1>7, <1>10, HeapReturns
<1>13. (used \ {b}) \ {Used} = TakenBlocks'
  BY <1>2, <1>11
<1>14. HeldApart'
  BY <1>1, <1>9 DEF Own, HeldApart
<1>15. ClientQueues(areas', acks \ {b}, msgs \ {b})
  BY <1>1, <1>3, <1>5, <1>6, <1>7, QueueLoses
<1>16. Owned(acks \ {b}, msgs \ {b})'
  <2>1. ASSUME NEW x \in (acks \ {b}) \ {Acks}
        PROVE  \E g \in Holders : held'[g] = x /\ role'[g] = Acks
    <3>1. PICK g \in Holders : held[g] = x /\ role[g] = Acks
      BY <1>3, <2>1 DEF Owned
    <3> QED BY <1>1, <1>8, <1>9, <2>1, <3>1
  <2>2. ASSUME NEW x \in (msgs \ {b}) \ {Messages}
        PROVE  \E g \in Holders : held'[g] = x /\ role'[g] = Messages
    <3>1. PICK g \in Holders : held[g] = x /\ role[g] = Messages
      BY <1>3, <2>2 DEF Owned
    <3> QED BY <1>1, <1>8, <1>9, <2>2, <3>1
  <2>3. ASSUME NEW g \in Holders, held'[g] \in Blocks, role'[g] = Messages
        PROVE  held'[g] \in msgs \ {b}
    <3>1. g # h /\ held'[g] = held[g] /\ held[g] # b
      BY <1>1, <1>9, <2>3
    <3> QED BY <1>1, <1>3, <2>3, <3>1 DEF Owned
  <2> QED BY <2>1, <2>2, <2>3 DEF Owned
<1> QED BY <1>12, <1>13, <1>14, <1>15, <1>16 DEF Own

\* A buffer changes its size.
LEMMA ResizeOwn ==
    ASSUME PoolInv, Own, NEW h \in Holders, NEW large \in BOOLEAN, NEW initialize \in BOOLEAN,
           Resize(h, large, initialize), ~failed'
    PROVE  Own'
<1>1. pool = "ready" /\ role[h] = "data" /\ role' = role /\ Chunk \notin Blocks /\ Chunk \in NotBlocks
  BY NodeAssumption DEF Resize, NotBlocks
<1>2. CASE held[h] \in Blocks /\ ~large
  <2>1. areas' = Cleared(held[h], initialize) /\ heads' = heads /\ held' = held
    BY <1>1, <1>2, Zenon DEF Resize
  <2> QED BY <1>1, <1>2, <2>1, WrittenOwn
<1>3. CASE held[h] \in Blocks /\ large
  <2>1. /\ heads' = Returned(held[h]) /\ areas' = areas
        /\ held' = [held EXCEPT ![h] = Chunk]
    BY <1>1, <1>3 DEF Resize
  <2> QED BY <1>1, <1>3, <2>1, ReleaseOwn
<1>4. CASE held[h] \notin Blocks
  <2>1. UNCHANGED <<heads, areas, held>>
    BY <1>4 DEF Resize
  <2> QED BY <1>1, <2>1, WrittenOwn
<1> QED BY <1>2, <1>3, <1>4

\* The lists of a new pool are empty, but for their sentinels.
LEMMA InitializeOwn ==
    ASSUME PoolInv, PoolInitialize
    PROVE  Own'
<1>1. PICK junk \in SUBSET Blocks :
        LET word(nodes) == [x \in nodes |-> IF x \in junk THEN Junk ELSE Null]
        IN  /\ heads' = ListClear(ListClear(Unlinked(Headers, word(Headers)), Used), Free)
            /\ areas' = ListClear(ListClear(Unlinked(Areas, word(Areas)), Acks), Messages)
  BY DEF PoolInitialize
<1>2. LET f == [x \in Headers |-> IF x \in {Free, Used} THEN x
                                  ELSE IF x \in junk THEN Junk ELSE Null]
      IN  heads'.next = f /\ heads'.previous = f
  BY <1>1, NamesDiffer DEF ListClear, Unlinked
<1>3. LET f == [x \in Areas |-> IF x \in Queues THEN x
                                ELSE IF x \in junk THEN Junk ELSE Null]
      IN  areas'.next = f /\ areas'.previous = f
  BY <1>1, NamesDiffer DEF ListClear, Unlinked, Queues
<1>4. ListIs(heads', Free, {Free}) /\ ListIs(heads', Used, {Used})
  BY <1>2, ListCleared, NamesDiffer
<1>5. ListIs(areas', Acks, {Acks}) /\ ListIs(areas', Messages, {Messages})
  BY <1>3, ListCleared, NamesDiffer DEF Queues
<1>6. Listed(heads', Headers) = {Free} \union {Used}
  BY <1>2, NamesDiffer DEF Listed
<1>7. \A h \in Holders : held'[h] \notin Blocks
  BY DEF PoolInitialize, PoolInv
<1>8. TakenBlocks' = {} /\ HeldApart'
  BY <1>7 DEF TakenBlocks, HeldApart
<1>9. HeapLists(heads', {Free}, {Used}) /\ {Used} \ {Used} = TakenBlocks'
  BY <1>4, <1>6, <1>8, NamesDiffer DEF HeapLists
<1>10. ClientQueues(areas', {Acks}, {Messages}) /\ Owned({Acks}, {Messages})'
  BY <1>5, <1>7, NamesDiffer DEF ClientQueues, Owned
<1> QED BY <1>8, <1>9, <1>10 DEF Own

\* A block that is added is free, or stays in neither list.
LEMMA AddBlockOwn ==
    ASSUME PoolInv, Own, AddBlock, \A h \in Holders : held[h] \notin Blocks
    PROVE  Own'
<1>1. /\ heads' = ListAdd(heads, Free, turn) /\ UNCHANGED <<areas, held, role>>
      /\ turn \in Blocks /\ turn \in Headers /\ TwoLists(heads)
  BY NamesDiffer DEF AddBlock, PoolInv
<1>2. PICK free, used : HeapLists(heads, free, used) /\ used \ {Used} = TakenBlocks
  BY DEF Own
<1>3. TakenBlocks' = TakenBlocks /\ HeldApart'
  BY <1>1 DEF TakenBlocks, Own, HeldApart
<1>4. \E f : HeapLists(heads', f, used)
  <2>1. CASE ~Insertable(heads, turn)
    BY <1>1, <1>2, <2>1 DEF ListAdd, ListInsert
  <2>2. CASE Insertable(heads, turn)
    <3> DEFINE m == Linked(heads, Free, turn)
    <3>1. heads' = m
      BY <1>1, <2>2 DEF ListAdd, ListInsert
    <3>2. /\ heads \in Links(Headers) /\ Sound(heads, Headers) /\ heads.next[Free] \in Headers
          /\ Null \notin Headers /\ Junk \notin Headers /\ Free \in Headers
      BY <1>1, NamesDiffer DEF TwoLists, Listed
    <3>3. turn \notin free \union used
      <4>1. heads.next[turn] \notin Headers
        BY <2>2, <3>2 DEF Insertable
      <4> QED BY <1>2, <4>1 DEF HeapLists, Listed
    <3>4. Listed(m, Headers) = Listed(heads, Headers) \union {turn}
      BY <1>1, <2>2, <3>2, LinkSound
    <3>5. /\ ListIs(m, Free, free \union {turn})
          /\ \A x \in Headers : x # turn /\ x \notin free => SameLinks(m, heads, x)
      BY <1>1, <1>2, <3>2, <3>3, ListLonger DEF HeapLists
    <3> HIDE DEF m
    <3>6. ListIs(m, Used, used)
      <4>1. \A x \in used : x \in Headers /\ x # turn /\ x \notin free
        BY <1>2, <3>3 DEF HeapLists
      <4> QED BY <1>2, <3>5, <4>1, ListElsewhere DEF HeapLists
    <3>7. HeapLists(m, free \union {turn}, used)
      BY <1>1, <1>2, <3>3, <3>4, <3>5, <3>6 DEF HeapLists
    <3> QED BY <3>1, <3>7
  <2> QED BY <2>1, <2>2
<1>5. \E acks, msgs : ClientQueues(areas', acks, msgs) /\ Owned(acks, msgs)'
  BY <1>1 DEF Own, Owned
<1> QED BY <1>2, <1>3, <1>4, <1>5 DEF Own

LEMMA OwnInvInit == PoolInit => OwnInv
<1> SUFFICES ASSUME PoolInit PROVE OwnInv
  OBVIOUS
<1>1. pool = "none"
  BY DEF PoolInit
<1> QED BY <1>1, PoolInvInit DEF OwnInv

LEMMA OwnInvNext == OwnInv /\ [PoolNext]_poolVars => OwnInv'
<1> SUFFICES ASSUME OwnInv, [PoolNext]_poolVars PROVE OwnInv'
  OBVIOUS
<1>1. PoolInv /\ PoolInv'
  BY PoolInvNext DEF OwnInv
<1>2. CASE UNCHANGED poolVars
  <2>1. UNCHANGED <<pool, heads, areas, held, role, failed, fault>>
    BY <1>2 DEF poolVars
  <2>2. TakenBlocks' = TakenBlocks /\ HeldApart' = HeldApart
    BY <2>1 DEF TakenBlocks, HeldApart
  <2>3. Own => Own'
    BY <2>1, <2>2 DEF Own, Owned
  <2> QED BY <1>1, <2>1, <2>3 DEF OwnInv
<1>3. CASE PoolInitialize
  <2>1. pool = "none" /\ pool' = "growing" /\ held' = held
    BY <1>3 DEF PoolInitialize
  <2> QED BY <1>1, <1>3, <2>1, InitializeOwn DEF OwnInv, PoolInv
<1>4. CASE AddBlock
  <2>1. pool = "growing" /\ UNCHANGED <<held, failed, fault>>
    BY <1>4 DEF AddBlock
  <2> QED BY <1>1, <1>4, <2>1, AddBlockOwn DEF OwnInv
<1>5. CASE PoolUninitialize
  <2>1. pool' = "none"
    BY <1>5 DEF PoolUninitialize
  <2> QED BY <1>1, <2>1 DEF OwnInv
<1>6. ASSUME NEW h \in Holders, Malloc(h) PROVE OwnInv'
  <2>1. pool = "ready" /\ pool' = "ready" /\ failed' = failed
    BY <1>6 DEF Malloc, AllocBlock, AllocChunk
  <2>2. Own => Own'
    BY <1>1, <1>6, <2>1, MallocOwn
  <2>3. fault' = "none" => fault = "none"
    BY <1>6 DEF Malloc, AllocChunk
  <2> QED BY <1>1, <2>1, <2>2, <2>3 DEF OwnInv
<1>7. ASSUME NEW h \in Holders, Write(h) PROVE OwnInv'
  <2>1. /\ pool = "ready" /\ role[h] = "data" /\ UNCHANGED <<pool, heads, held, role, failed>>
        /\ areas' = areas \/ (held[h] \in Blocks /\ areas' = Written(held[h]))
    BY <1>7 DEF Write
  <2>2. Own => Own'
    BY <1>1, <2>1, WrittenOwn
  <2>3. fault' = "none" => fault = "none"
    BY <1>7 DEF Write
  <2> QED BY <1>1, <2>1, <2>2, <2>3 DEF OwnInv
<1>8. ASSUME NEW h \in Holders, Release(h) PROVE OwnInv'
  <2>1. CASE pool = "none"
    <3>1. pool' = "none"
      BY <1>8, <2>1 DEF Release
    <3> QED BY <1>1, <3>1 DEF OwnInv
  <2>2. CASE pool # "none"
    <3>1. /\ pool = "ready" /\ role[h] = "data" /\ UNCHANGED <<pool, areas, role, failed>>
          /\ heads' = IF held[h] \in Blocks THEN Returned(held[h]) ELSE heads
          /\ Nowhere \in NotBlocks /\ held' = [held EXCEPT ![h] = Nowhere]
          /\ fault' = "none" => fault = "none"
      BY <1>1, <1>8, <2>2 DEF Release, PoolInv, PoolTypeOK, NotBlocks
    <3>2. Own => Own'
      BY <1>1, <3>1, ReleaseOwn
    <3> QED BY <1>1, <3>1, <3>2 DEF OwnInv
  <2> QED BY <2>1, <2>2
<1>9. ASSUME NEW h \in Holders, NEW large \in BOOLEAN, NEW initialize \in BOOLEAN,
             Resize(h, large, initialize)
      PROVE  OwnInv'
  <2>1. /\ pool = "ready" /\ pool' = pool /\ (~failed' => ~failed)
        /\ fault' = "none" => fault = "none"
    BY <1>9 DEF Resize
  <2>2. Own /\ ~failed' => Own'
    BY <1>1, <1>9, ResizeOwn
  <2> QED BY <1>1, <2>1, <2>2 DEF OwnInv
<1>10. ASSUME NEW h \in Holders, NEW q \in Queues, Enqueue(h, q) PROVE OwnInv'
  <2>1. pool = "ready" /\ pool' = pool /\ failed' = failed
    BY <1>10 DEF Enqueue, AllocChunk
  <2>2. fault' = "none" => fault = "none"
    BY <1>10 DEF Enqueue, AllocChunk
  <2>3. Own /\ fault' = "none" => Own'
    BY <1>1, <1>10, EnqueueOwn
  <2> QED BY <1>1, <2>1, <2>2, <2>3 DEF OwnInv
<1>11. ASSUME NEW q \in Queues, Dequeue(q) PROVE OwnInv'
  <2>1. /\ pool = "ready" /\ pool' = pool /\ failed' = failed
        /\ fault' = "none" => fault = "none"
    BY <1>11 DEF Dequeue
  <2>2. Own => Own'
    BY <1>1, <1>11, DequeueOwn
  <2> QED BY <1>1, <2>1, <2>2 DEF OwnInv
<1> QED
  BY <1>2, <1>3, <1>4, <1>5, <1>6, <1>7, <1>8, <1>9, <1>10, <1>11 DEF PoolNext

\* While no block was lost by growing and nothing undefined was done, the two
\* lists of blocks are walks that come back to their sentinels, allocatedBlocks is
\* just what is held, and a queue is a walk of just what its client queued.
THEOREM BlocksAreOwned == PoolSpec => []OwnInv
<1> QED BY OwnInvInit, OwnInvNext, PTL DEF PoolSpec

\* No block has two holders, allocatedBlocks is what is held and freeBlocks the
\* rest of what initialize did not lose: gekkota_memory_alloc, free and realloc,
\* in any order, lose no block and give none twice.
THEOREM BlocksAreHeldOnce == PoolSpec => []HeldOnce
<1>1. OwnInv => HeldOnce
  <2> SUFFICES ASSUME OwnInv, ~failed, fault = "none", pool = "ready" PROVE HeldOnce
    BY DEF HeldOnce
  <2>1. Own
    BY DEF OwnInv
  <2>2. PICK free, used : HeapLists(heads, free, used) /\ used \ {Used} = TakenBlocks
    BY <2>1 DEF Own
  <2>3. /\ free \in SUBSET Headers /\ used \in SUBSET Headers /\ free \cap used = {}
        /\ ListIs(heads, Free, free) /\ ListIs(heads, Used, used)
        /\ Listed(heads, Headers) = free \union used /\ Free \in free /\ Used \in used
    BY <2>2 DEF HeapLists, ListIs
  <2>4. free \ {Free} \subseteq Blocks /\ used \ {Used} \subseteq Blocks
    BY <2>3, NamesDiffer
  <2>5. Members(heads, Used, Headers) = TakenBlocks
    BY <2>2, <2>3, <2>4, MembersAreList, NamesDiffer
  <2>6. Members(heads, Free, Headers) = free \ {Free}
    BY <2>3, <2>4, MembersAreList, NamesDiffer
  <2>7. Kept = (free \union used) \cap Blocks
    BY <2>3, NamesDiffer DEF Kept, Listed
  <2>8. free \ {Free} = Kept \ TakenBlocks
    <3>1. TakenBlocks \subseteq Blocks
      BY DEF TakenBlocks
    <3> QED BY <2>2, <2>3, <2>4, <2>7, <3>1, NamesDiffer
  <2> QED BY <2>1, <2>5, <2>6, <2>8 DEF HeldOnce, Own, HeldApart, TakenBlocks
<1> QED BY <1>1, BlocksAreOwned, PTL

\* A queue of a client holds only what its client queued, and every message it
\* queued, until it is sent: memory that was freed or given away is never met
\* in it, however the blocks were used before.
THEOREM QueuesStayTheirs == PoolSpec => []QueuesAreTheirs
<1>1. OwnInv => QueuesAreTheirs
  <2> SUFFICES ASSUME OwnInv, ~failed, fault = "none", pool = "ready" PROVE QueuesAreTheirs
    BY DEF QueuesAreTheirs
  <2>1. PICK acks, msgs : ClientQueues(areas, acks, msgs) /\ Owned(acks, msgs)
    BY DEF OwnInv, Own
  <2>2. /\ acks \in SUBSET Areas /\ msgs \in SUBSET Areas /\ acks \cap msgs = {}
        /\ ListIs(areas, Acks, acks) /\ ListIs(areas, Messages, msgs)
        /\ Acks \in acks /\ Messages \in msgs
    BY <2>1 DEF ClientQueues, ListIs
  <2>3. acks \ {Acks} \subseteq Blocks /\ msgs \ {Messages} \subseteq Blocks
    BY <2>2, NamesDiffer DEF Queues
  <2>4. Members(areas, Acks, Areas) = acks \ {Acks}
    BY <2>2, <2>3, MembersAreList, NamesDiffer
  <2>5. Members(areas, Messages, Areas) = msgs \ {Messages}
    BY <2>2, <2>3, MembersAreList, NamesDiffer
  <2>6. \A q \in Queues : \A b \in Members(areas, q, Areas) :
          \E h \in Holders : held[h] = b /\ role[h] = q
    BY <2>1, <2>4, <2>5 DEF Owned, Queues
  <2>7. \A h \in Holders : held[h] \in Blocks /\ role[h] = Messages
          => held[h] \in Members(areas, Messages, Areas)
    BY <2>1, <2>5, NamesDiffer DEF Owned
  <2> QED BY <2>6, <2>7 DEF QueuesAreTheirs
<1> QED BY <1>1, BlocksAreOwned, PTL
=============================================================================
