----------------------------- MODULE MCFunctions -----------------------------
(***************************************************************************)
(* Instances of Segment, Checksum and Algorithm for TLC: lengths around    *)
(* every limit, all data of a few small bytes, every algorithm that can be *)
(* configured with small integers.                                         *)
(***************************************************************************)
EXTENDS Segment, Checksum, Algorithm

VARIABLE side       \* which of the three this behaviour is about

MCPackets ==
    [len : {19, 39, 40, 43, 44, 45, 47, 50}, version : {4, 6}, ihl : {0, 4, 5, 6, 15},
     proto : {6, 17}, frag : BOOLEAN, totalLen : {39, 40, 43, 44, 45, 46, 47, 50},
     doff : {4, 5, 6}, flags : {{"SYN"}, {"SYN", "ACK"}, {"SYN", "ACK", "RST"},
                                {"ACK", "PSH", "FIN"}},
     seq : {0, 14}, data : {0}]

\* They have nothing to do with each other: one of them runs, from any input it has,
\* and the others stay at a single one.
OnePacket == CHOOSE p \in Packets : Parsed(p)
OneByte == <<0>>
SidesInit ==
    /\ \/ side = "segment" /\ data = OneByte
       \/ side = "checksum" /\ pkt = OnePacket
       \/ side = "algorithm" /\ pkt = OnePacket /\ data = OneByte
    /\ Init /\ SumInit /\ AlgInit
Sides ==
    /\ \/ side = "segment" /\ Next /\ UNCHANGED <<sumVars, algVars>>
       \/ side = "checksum" /\ SumNext /\ UNCHANGED <<vars, algVars>>
       \/ side = "algorithm" /\ AlgNext /\ UNCHANGED <<vars, sumVars>>
    /\ UNCHANGED side
SidesSpec == SidesInit /\ [][Sides]_<<vars, sumVars, algVars, side>>
=============================================================================
