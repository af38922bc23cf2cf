---------------------------- MODULE MCAddresses ----------------------------
(* The two ways in which an address enters the program, each exhaustively:  *)
(* every PDU of up to MaxLen bytes (BlePdu), and every text of up to        *)
(* MaxText characters as a filter and as an address to follow (AddrText).   *)
(* They share no state; a behaviour is one packet or one text. An address   *)
(* of two octets has all the cases of an address of six, and two digits,    *)
(* one of them in either case, make both public and random addresses.       *)
EXTENDS BlePdu, AddrText

MCDigit == [c \in {"0", "c", "C"} |-> IF c = "0" THEN 0 ELSE 12]
MCUpper == [c \in {"0", "c", "C"} |-> IF c = "0" THEN "0" ELSE "C"]

MCInit == Init /\ TextInit
MCNext == /\ pdu = NoPdu /\ text = Nothing
          /\ \/ Next /\ UNCHANGED textVars
             \/ TextNext /\ UNCHANGED vars
MCSpec == MCInit /\ [][MCNext]_<<vars, textVars>>
=============================================================================
