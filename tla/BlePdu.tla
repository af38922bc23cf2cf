------------------------------- MODULE BlePdu -------------------------------
(***************************************************************************)
(* Package blepdu: the addresses of a BLE advertising PDU and their roles, *)
(* as the store takes them when a packet arrives and as the printers label *)
(* them later.                                                             *)
(*                                                                         *)
(* A payload is its length and the fields that decide what is parsed. A    *)
(* byte of it is its offset, so an address is a sequence of six offsets,   *)
(* the most significant byte first.                                        *)
(***************************************************************************)
EXTENDS Integers, SequencesExt

CONSTANTS
  MaxLen,     \* bound on the length of a payload
  MaxHdrLen   \* bound on ExtHdrLen: 63 in the code

ASSUME PduAssumption == MaxLen \in Nat /\ MaxHdrLen \in 0..63

VARIABLES
  pdu,    \* the packet parsed last
  addrs,  \* the addresses stored with it
  roles   \* the labels of its addresses

vars == <<pdu, addrs, roles>>

Id == {"AdvPDU", "AdvAuxPDU", "DataPDU"}

(* type is the low half of payload[14], hdr and flags are payload[17] and  *)
(* payload[18] where these are an extended header.                         *)
Pdu == [id : Id, len : 0..MaxLen, type : 0..15, hdr : 0..MaxHdrLen, adva : BOOLEAN, target : BOOLEAN]

HasExtHeader(p) == p.id = "AdvAuxPDU" \/ (p.id = "AdvPDU" /\ p.type = 7)

(* Extended header fields of a legacy PDU are address bytes, which nothing *)
(* below looks at.                                                         *)
Received ==
  {p \in Pdu : /\ p.id = "AdvPDU" => p.type \in 0..8
               /\ p.id # "AdvPDU" => p.type = 7
               /\ ~HasExtHeader(p) => p.hdr = 0 /\ ~p.adva /\ ~p.target}

AddressAt(at) == [i \in 1..6 |-> at + 6 - i]

-----------------------------------------------------------------------------
(* Faulty variant: a header that ends before its address is not noticed.   *)
ParseExtAdvAddressesLoose(p) ==
  LET fits(at) == at + 6 <= p.len
      target == IF p.adva THEN 25 ELSE 19
  IN  IF p.len < 19 \/ p.hdr = 0 \/ (p.adva /\ ~fits(19)) THEN <<>>
      ELSE (IF p.adva THEN <<AddressAt(19)>> ELSE <<>>)
             \o (IF p.target /\ fits(target) THEN <<AddressAt(target)>> ELSE <<>>)

(* An address that does not fit into the header or the payload ends the    *)
(* parsing.                                                                *)
ParseExtAdvAddresses(p) ==
  LET fits(at) == at + 6 <= 18 + p.hdr /\ at + 6 <= p.len
      target == IF p.adva THEN 25 ELSE 19
  IN  IF p.len < 19 \/ p.hdr = 0 \/ (p.adva /\ ~fits(19)) THEN <<>>
      ELSE (IF p.adva THEN <<AddressAt(19)>> ELSE <<>>)
             \o (IF p.target /\ fits(target) THEN <<AddressAt(target)>> ELSE <<>>)

ParseLegacyAdvAddresses(p) ==
  CASE p.len < 23 -> <<>>
    [] p.len >= 23 /\ p.type = 7 -> ParseExtAdvAddresses(p)
    [] p.len >= 29 /\ p.type \in {1, 3, 5} -> <<AddressAt(17), AddressAt(23)>>
    [] OTHER -> <<AddressAt(17)>>

(* Faulty variant: an advertiser's address is taken for granted.           *)
ExtRolesBoth(p) == IF p.len < 19 THEN <<>> ELSE <<"AdvA", "TargetA">>

ExtRoles(p) ==
  IF p.len < 19 THEN <<>>
  ELSE (IF p.adva THEN <<"AdvA">> ELSE <<>>) \o (IF p.target THEN <<"TargetA">> ELSE <<>>)

LegacyRoles(p) ==
  CASE p.len < 15 -> <<>>
    [] p.len >= 15 /\ p.type \in {0, 2, 4, 6} -> <<"AdvA">>
    [] p.len >= 15 /\ p.type = 1 -> <<"AdvA", "TargetA">>
    [] p.len >= 15 /\ p.type = 3 -> <<"ScanA", "AdvA">>
    [] p.len >= 15 /\ p.type = 5 -> <<"InitA", "AdvA">>
    [] OTHER -> <<>>

AddressRoles(p) ==
  CASE p.id = "AdvPDU" -> LegacyRoles(p)
    [] p.id = "AdvAuxPDU" -> ExtRoles(p)
    [] OTHER -> <<>>

(* Store.process parses by packet id; a data PDU has no addresses. The     *)
(* printers ask for the roles of the stored payload.                       *)
Process(p) ==
  /\ pdu' = p
  /\ addrs' = CASE p.id = "AdvPDU" -> ParseLegacyAdvAddresses(p)
                [] p.id = "AdvAuxPDU" -> ParseExtAdvAddresses(p)
                [] OTHER -> <<>>
  /\ roles' = AddressRoles(p)

NoPdu == [id |-> "DataPDU", len |-> 0, type |-> 7, hdr |-> 0, adva |-> FALSE, target |-> FALSE]

Init == pdu = NoPdu /\ addrs = <<>> /\ roles = <<>>
Next == \E p \in Received : Process(p)
Spec == Init /\ [][Next]_vars

-----------------------------------------------------------------------------
(* The PDU formats, as a reference: where each address starts, its role,   *)
(* and where the room for it ends.                                         *)
Field(role, at) == [role |-> role, at |-> at]
Room(p) == IF HasExtHeader(p) THEN 18 + p.hdr ELSE p.len

Fields(p) ==
  CASE HasExtHeader(p) ->
         (IF p.adva THEN {Field("AdvA", 19)} ELSE {})
           \cup (IF p.target THEN {Field("TargetA", IF p.adva THEN 25 ELSE 19)} ELSE {})
    [] p.id = "AdvPDU" /\ p.type = 1 -> {Field("AdvA", 17), Field("TargetA", 23)}
    [] p.id = "AdvPDU" /\ p.type = 3 -> {Field("ScanA", 17), Field("AdvA", 23)}
    [] p.id = "AdvPDU" /\ p.type = 5 -> {Field("InitA", 17), Field("AdvA", 23)}
    [] p.id = "AdvPDU" /\ p.type \in {0, 2, 4, 6} -> {Field("AdvA", 17)}
    [] p.id = "AdvPDU" /\ p.type = 8 -> {Field("addr", 17)}
    [] OTHER -> {}

(* The addresses are those of the PDU format that arrived completely, and  *)
(* no others; a primary channel packet of fewer than 23 bytes has none.    *)
WholeFields ==
  ToSet(addrs) =
    {AddressAt(f.at) : f \in {g \in Fields(pdu) :
       /\ g.at + 6 <= Room(pdu) /\ g.at + 6 <= pdu.len
       /\ pdu.id = "AdvPDU" => pdu.len >= 23}}

(* An address gets the label of the field it was parsed from.              *)
Labelled(p) ==
  \A i \in DOMAIN addrs : \E f \in Fields(p) :
    addrs[i] = AddressAt(f.at) /\ i \in DOMAIN roles /\ roles[i] = f.role

(* Every address of a PDU of a known type is labelled with its role, also  *)
(* when the payload is cut short; ADV_EXT_IND is the exception.            *)
RolesOfMost == pdu.type # 8 /\ ~(pdu.id = "AdvPDU" /\ pdu.type = 7) => Labelled(pdu)
=============================================================================
