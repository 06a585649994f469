----------------------------- MODULE MCPackets -----------------------------
(* A small host, and small texts for the two LZF algorithms: part says which *)
(* of the two modules lives.                                                 *)
EXTENDS Packets, Lzf, TLC

CONSTANTS fast, best             \* two levels of compression

\* Long packets to be compressed, which deflate makes shorter or does not.
MCKinds == [flags : {{"COMPRESSED"}}, length : {2}, shrinks : BOOLEAN]

\* Peers of a level that is not that of groups, whose messages hold half of such a packet.
MCLinks == [level : {best}, mtu : {1}]

\* Every text of two letters and up to 8 bytes.
MCShort == UNION {[1 .. n -> {0, 1}] : n \in 1 .. 8}

\* Texts of 20 bytes in four runs, so that references are long and far.
MCRuns ==
  {[k \in 1 .. 20 |-> IF k <= a \/ k \in a + b + 1 .. a + b + c THEN 0 ELSE 1] :
     a \in {0, 4, 10}, b \in 0 .. 3, c \in {0, 3, 6}}

MCTexts == MCShort \cup MCRuns

VARIABLE part

MCInit == Init /\ LzfInit /\ part \in {"packets", "texts"}

MCNext ==
    /\ UNCHANGED part
    /\ \/ part = "packets" /\ Next /\ UNCHANGED lvars
       \/ part = "texts" /\ LzfNext /\ UNCHANGED vars

MCSpec == MCInit /\ [][MCNext]_<<vars, lvars, part>>

MCSymmetry == Permutations(PacketIds)
=============================================================================
