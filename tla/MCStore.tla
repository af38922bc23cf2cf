------------------------------ MODULE MCStore ------------------------------
(* A small instance of Store: two addresses, one filter entry for each, and *)
(* one body of each kind the store distinguishes.                           *)
EXTENDS Store

CONSTANTS a1, a2

MCAddress == {a1, a2}
MCEntry == {"e1", "e2"}
MCCovers == [e \in MCEntry |-> IF e = "e1" THEN {a1} ELSE {a2}]
Packet(id, ext, addrs) == [id |-> id, ext |-> ext, addrs |-> addrs]
MCBody == { Packet("ADV", FALSE, {a1}), Packet("ADV", TRUE, {}),
            Packet("AUX", FALSE, {a2}), Packet("DATA", FALSE, {}),
            Packet("OTHER", FALSE, {}) }
=============================================================================
