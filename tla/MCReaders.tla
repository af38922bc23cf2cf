----------------------------- MODULE MCReaders -----------------------------
(* A small instance of Readers: one filter entry, a packet that it admits   *)
(* and one that it does not, pages of one packet by default and of two at   *)
(* most, and clients that ask for all packets or only for one kind.         *)
EXTENDS Readers

CONSTANTS a1, a2

MCAddress == {a1, a2}
MCEntry == {"e1"}
MCCovers == [e \in MCEntry |-> {a1}]
Packet(addr) == [id |-> "ADV", ext |-> FALSE, addrs |-> {addr}]
MCBody == {Packet(a1), Packet(a2)}
MCRequest == {[query |-> MCBody, limit |-> 3, offset |-> 0],
              [query |-> {Packet(a2)}, limit |-> 0, offset |-> -1],
              [query |-> MCBody, limit |-> 0, offset |-> 1]}
=============================================================================
