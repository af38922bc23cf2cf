----------------------------- MODULE MCCapture -----------------------------
(* Small instances of Capture: two addresses and the filter entry that      *)
(* covers one of them, a plain and an extended packet of it, and the        *)
(* filters "accept all" and "that address".                                 *)
EXTENDS Capture

CONSTANTS a1, a2

MCAddress == {a1, a2}
MCEntry == {"e1"}
MCCovers == [e \in MCEntry |-> {a1}]
Packet(id, addrs) == [id |-> id, ext |-> FALSE, addrs |-> addrs]
MCBody == {Packet("ADV", {a1}), Packet("AUX", {a1})}
MCFilters == SUBSET MCEntry
NoFollow == {"none"}
AnyFollow == {"none", "valid", "invalid"}
OnlyValid == {"valid"}
OnlyEmpty == {"empty"}
=============================================================================
