----------------------------- MODULE MCSniffer -----------------------------
(* A small instance of Sniffer: two callers, one flag byte for each change  *)
(* the program makes, and one packet body.                                  *)
EXTENDS Sniffer

CONSTANTS c1, c2

MCCaller == {c1, c2}
MCFlagChoice == {{"SCAN_RSP"}, {"SCAN_RSP", "EXT_ADV"}}
MCBody == {"packet"}
=============================================================================
