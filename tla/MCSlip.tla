------------------------------- MODULE MCSlip -------------------------------
(* Instance of Slip: payloads with every special byte, counters that put   *)
(* special bytes and version numbers into the header.                      *)
EXTENDS Slip

MCPacket ==
  {[ver |-> v, id |-> 2, counter |-> c, payload |-> p] :
     v \in {1, 3}, c \in {1, 43779},
     p \in {<<>>, <<171>>, <<205, 172>>, <<188, 0>>}}

MCNoise == {0, 171, 188, 205}
=============================================================================
