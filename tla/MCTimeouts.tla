----------------------------- MODULE MCTimeouts -----------------------------
(* What a host does as time goes by: the time-outs of what a client sends,   *)
(* the calls of poll(), and the passes that throttle the bandwidth.  part    *)
(* says which of the three modules lives.                                    *)
EXTENDS Transmission, Polling, Bandwidth

SomeTimeouts == {-1, 0, 1}

\* One peer that does not say how much it can receive, and one that does.
SomeRates == {<<0, 1>>, <<3, 5>>}

VARIABLE part

TimeInit == Init /\ PollInit /\ BandInit /\ part \in {"sending", "polling", "bandwidth"}

TimeNext ==
    /\ UNCHANGED part
    /\ \/ part = "sending" /\ Next /\ UNCHANGED <<pollVars, bandVars>>
       \/ part = "polling" /\ PollNext /\ UNCHANGED <<vars, bandVars>>
       \/ part = "bandwidth" /\ BandNext /\ UNCHANGED <<vars, pollVars>>

TimeSpec == TimeInit /\ [][TimeNext]_<<vars, pollVars, bandVars, part>>
=============================================================================
