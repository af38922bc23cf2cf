--------------------------- MODULE AddressProofs ---------------------------
(***************************************************************************)
(* Proofs about the addresses of packets (BlePdu), for payloads and        *)
(* extended headers of every length, and about addresses as text           *)
(* (AddrText), for texts of every length, addresses of any number of       *)
(* octets and any set of digits.                                           *)
(***************************************************************************)
EXTENDS BlePdu, AddrText, SequenceTheorems, FiniteSetTheorems, WellFoundedInduction, TLAPS

(* The addresses that the store keeps of a packet.                         *)
Parsed(p) ==
  CASE p.id = "AdvPDU" -> ParseLegacyAdvAddresses(p)
    [] p.id = "AdvAuxPDU" -> ParseExtAdvAddresses(p)
    [] OTHER -> <<>>

Inv == pdu \in Received \cup {NoPdu} /\ addrs = Parsed(pdu) /\ roles = AddressRoles(pdu)

LEMMA Invariance == Spec => []Inv
<1>1. Init => Inv
  BY DEF Init, Inv, Parsed, AddressRoles, NoPdu
<1>2. Inv /\ [Next]_vars => Inv'
  BY DEF Inv, Next, Process, Parsed, vars
<1> QED
  BY <1>1, <1>2, PTL DEF Spec

(* The fields that a PDU has room for and that arrived completely.         *)
Arrived(p) ==
  {g \in Fields(p) : /\ g.at + 6 <= Room(p) /\ g.at + 6 <= p.len
                     /\ p.id = "AdvPDU" => p.len >= 23}

LEMMA Shape ==
  ASSUME NEW p \in Received \cup {NoPdu}
  PROVE  /\ p.len \in Nat /\ p.hdr \in Nat /\ p.adva \in BOOLEAN /\ p.target \in BOOLEAN
         /\ \/ p.id = "AdvPDU" /\ p.type \in 0 .. 8
            \/ p.id = "AdvAuxPDU" /\ p.type = 7
            \/ p.id = "DataPDU" /\ p.type = 7
<1>1. CASE p = NoPdu
  BY <1>1 DEF NoPdu
<1>2. CASE p \in Received
  <2>1. p \in Pdu
    BY <1>2 DEF Received
  <2>2. p.len \in 0 .. MaxLen /\ p.hdr \in 0 .. MaxHdrLen /\ p.id \in Id
        /\ p.adva \in BOOLEAN /\ p.target \in BOOLEAN
    BY <2>1 DEF Pdu
  <2> QED
    BY <1>2, <2>2, PduAssumption DEF Received, Id
<1> QED
  BY <1>1, <1>2

LEMMA Joined ==
  ASSUME NEW S, NEW a \in S, NEW b \in S
  PROVE  /\ <<>> \o <<>> = <<>> /\ <<a>> \o <<>> = <<a>> /\ <<>> \o <<a>> = <<a>>
         /\ <<a>> \o <<b>> = <<a, b>>
<1>1. <<>> \in Seq(S) /\ <<a>> \in Seq(S) /\ <<b>> \in Seq(S) /\ <<a, b>> \in Seq(S)
  OBVIOUS
<1>2. \A s \in Seq(S) : s \o <<>> = s /\ <<>> \o s = s
  OBVIOUS
<1>3. <<a>> \o <<b>> = <<a, b>>
  <2>1. Len(<<a>>) = 1 /\ <<a>>[1] = a /\ Len(<<b>>) = 1 /\ <<b>>[1] = b
    OBVIOUS
  <2>2. /\ <<a>> \o <<b>> \in Seq(S) /\ Len(<<a>> \o <<b>>) = 2
        /\ (<<a>> \o <<b>>)[1] = a /\ (<<a>> \o <<b>>)[2] = b
    BY <1>1, <2>1
  <2>3. /\ Len(<<a, b>>) = 2 /\ <<a, b>>[1] = a /\ <<a, b>>[2] = b
        /\ \A i \in 1 .. 2 : i = 1 \/ i = 2
    OBVIOUS
  <2> QED
    BY <1>1, <2>2, <2>3, SeqEqual
<1> QED
  BY <1>1, <1>2, <1>3

LEMMA SetOf ==
  /\ ToSet(<<>>) = {}
  /\ \A x : ToSet(<<x>>) = {x}
  /\ \A x, y : ToSet(<<x, y>>) = {x, y}
BY DEF ToSet

-----------------------------------------------------------------------------
(* An extended header holds the advertiser's address, the target's or both. *)
Fits(p, at) == at + 6 <= 18 + p.hdr /\ at + 6 <= p.len

LEMMA ExtParsed ==
  ASSUME NEW p \in Received \cup {NoPdu}, NEW s, s = ParseExtAdvAddresses(p)
  PROVE  /\ p.adva /\ p.target /\ Fits(p, 25) => s = <<AddressAt(19), AddressAt(25)>>
         /\ p.adva /\ Fits(p, 19) /\ ~(p.target /\ Fits(p, 25)) => s = <<AddressAt(19)>>
         /\ ~p.adva /\ p.target /\ Fits(p, 19) => s = <<AddressAt(19)>>
         /\ ~Fits(p, 19) => s = <<>>
         /\ ~p.adva /\ ~p.target => s = <<>>
<1> DEFINE a == AddressAt(19)
           b == AddressAt(25)
<1>1. /\ <<>> \o <<>> = <<>> /\ <<a>> \o <<>> = <<a>> /\ <<>> \o <<a>> = <<a>>
      /\ <<a>> \o <<b>> = <<a, b>>
  <2>1. \A x, y : /\ <<>> \o <<>> = <<>> /\ <<x>> \o <<>> = <<x>> /\ <<>> \o <<x>> = <<x>>
                  /\ <<x>> \o <<y>> = <<x, y>>
    <3> TAKE x, y
    <3> QED
      BY x \in {x, y}, y \in {x, y}, Joined
  <2> QED
    BY <2>1
<1> HIDE DEF a, b
<1>2. p.len \in Nat /\ p.hdr \in Nat /\ p.adva \in BOOLEAN /\ p.target \in BOOLEAN
  BY Shape
<1>3. CASE p.adva
  <2>1. CASE p.target
    <3> DEFINE rest == IF Fits(p, 25) THEN <<b>> ELSE <<>>
    <3>1. /\ ~Fits(p, 19) => s = <<>> /\ ~Fits(p, 25)
          /\ Fits(p, 19) => s = <<a>> \o rest
      BY <1>2, <1>3, <2>1 DEF ParseExtAdvAddresses, Fits, a, b
    <3>2. rest = IF Fits(p, 25) THEN <<b>> ELSE <<>>
      OBVIOUS
    <3> HIDE DEF rest
    <3> QED
      BY <1>1, <1>3, <2>1, <3>1, <3>2 DEF a, b
  <2>2. CASE ~p.target
    BY <1>1, <1>2, <1>3, <2>2 DEF ParseExtAdvAddresses, Fits, a, b
  <2> QED
    BY <2>1, <2>2
<1>4. CASE ~p.adva
  <2>1. CASE p.target
    BY <1>1, <1>2, <1>4, <2>1 DEF ParseExtAdvAddresses, Fits, a, b
  <2>2. CASE ~p.target
    BY <1>1, <1>2, <1>4, <2>2 DEF ParseExtAdvAddresses, Fits, a, b
  <2> QED
    BY <2>1, <2>2
<1> QED
  BY <1>3, <1>4

-----------------------------------------------------------------------------
(***************************************************************************)
(* The addresses parsed are those of the fields that arrived completely.   *)
(***************************************************************************)
Addresses(fields) == {AddressAt(f.at) : f \in fields}
Whole(p) == ToSet(Parsed(p)) = Addresses(Arrived(p))

(* The addresses of no field, of one and of two.                           *)
LEMMA Image ==
  /\ Addresses({}) = {}
  /\ \A r, x : Addresses({Field(r, x)}) = {AddressAt(x)}
  /\ \A r, x, q, y : Addresses({Field(r, x), Field(q, y)}) = {AddressAt(x), AddressAt(y)}
BY DEF Field, Addresses

LEMMA ExtWhole ==
  ASSUME NEW p \in Received \cup {NoPdu}, HasExtHeader(p), p.id = "AdvPDU" => p.len >= 23
  PROVE  ToSet(ParseExtAdvAddresses(p)) = Addresses(Arrived(p))
<1> DEFINE s == ParseExtAdvAddresses(p)
           T(x) == Field("TargetA", x)
           A == Field("AdvA", 19)
<1>1. p.len \in Nat /\ p.hdr \in Nat /\ p.adva \in BOOLEAN /\ p.target \in BOOLEAN
  BY Shape
<1>2. Arrived(p) = {f \in Fields(p) : Fits(p, f.at)}
  BY DEF Arrived, Fits, Room
<1>3. Fields(p) = (IF p.adva THEN {A} ELSE {})
                    \cup (IF p.target THEN {T(IF p.adva THEN 25 ELSE 19)} ELSE {})
  BY DEF Fields, HasExtHeader
<1>4. A.at = 19 /\ T(19).at = 19 /\ T(25).at = 25
  BY DEF Field
<1>5. Fits(p, 25) => Fits(p, 19)
  BY <1>1 DEF Fits
<1>6. /\ p.adva /\ p.target /\ Fits(p, 25) => s = <<AddressAt(19), AddressAt(25)>>
      /\ p.adva /\ Fits(p, 19) /\ ~(p.target /\ Fits(p, 25)) => s = <<AddressAt(19)>>
      /\ ~p.adva /\ p.target /\ Fits(p, 19) => s = <<AddressAt(19)>>
      /\ ~Fits(p, 19) => s = <<>>
      /\ ~p.adva /\ ~p.target => s = <<>>
  BY ExtParsed
<1>7. /\ Addresses({A}) = {AddressAt(19)} /\ Addresses({T(19)}) = {AddressAt(19)}
      /\ Addresses({A, T(25)}) = {AddressAt(19), AddressAt(25)}
  BY Image
<1>s. /\ ToSet(<<>>) = {} /\ Addresses({}) = {}
      /\ ToSet(<<AddressAt(19)>>) = {AddressAt(19)}
      /\ ToSet(<<AddressAt(19), AddressAt(25)>>) = {AddressAt(19), AddressAt(25)}
  BY SetOf, Image
<1> HIDE DEF s, T, A
<1>8. CASE p.adva /\ p.target /\ Fits(p, 25)
  <2>1. Arrived(p) = {A, T(25)}
    BY <1>2, <1>3, <1>4, <1>5, <1>8
  <2> QED
    BY <1>6, <1>7, <1>s, <1>8, <2>1 DEF s
<1>9. CASE p.adva /\ Fits(p, 19) /\ ~(p.target /\ Fits(p, 25))
  <2>1. Arrived(p) = {A}
    BY <1>2, <1>3, <1>4, <1>9
  <2> QED
    BY <1>6, <1>7, <1>s, <1>9, <2>1 DEF s
<1>10. CASE ~p.adva /\ p.target /\ Fits(p, 19)
  <2>1. Arrived(p) = {T(19)}
    BY <1>2, <1>3, <1>4, <1>10
  <2> QED
    BY <1>6, <1>7, <1>s, <1>10, <2>1 DEF s
<1>11. CASE ~Fits(p, 19) \/ (~p.adva /\ ~p.target)
  <2>1. Arrived(p) = {}
    BY <1>2, <1>3, <1>4, <1>5, <1>11
  <2> QED
    BY <1>6, <1>s, <1>11, <2>1 DEF s
<1> QED
  BY <1>1, <1>8, <1>9, <1>10, <1>11 DEF s

LEMMA LegacyWhole ==
  ASSUME NEW p \in Received \cup {NoPdu}, p.id = "AdvPDU", p.type # 7, p.len >= 23
  PROVE  Whole(p)
<1>1. p.len \in Nat /\ p.type \in 0 .. 8 /\ ~HasExtHeader(p)
  BY Shape DEF HasExtHeader
<1>2. Arrived(p) = {f \in Fields(p) : f.at + 6 <= p.len}
  BY <1>1 DEF Arrived, Room
<1>3. \A r, x : Field(r, x).at = x
  BY DEF Field
<1>a. /\ ToSet(<<AddressAt(17)>>) = {AddressAt(17)}
      /\ ToSet(<<AddressAt(17), AddressAt(23)>>) = {AddressAt(17), AddressAt(23)}
  BY SetOf
<1>b. \A r, q : /\ Addresses({Field(r, 17)}) = {AddressAt(17)}
               /\ Addresses({Field(r, 17), Field(q, 23)}) = {AddressAt(17), AddressAt(23)}
  BY Image
<1>4. CASE p.type \in {1, 3, 5}
  <2>1. PICK r, q : Fields(p) = {Field(r, 17), Field(q, 23)}
    BY <1>1, <1>4 DEF Fields
  <2>2. CASE p.len >= 29
    <3>1. Arrived(p) = {Field(r, 17), Field(q, 23)}
      BY <1>1, <1>2, <1>3, <2>1, <2>2
    <3>2. Parsed(p) = <<AddressAt(17), AddressAt(23)>>
      BY <1>1, <1>4, <2>2 DEF Parsed, ParseLegacyAdvAddresses
    <3> QED
      BY <1>a, <1>b, <3>1, <3>2 DEF Whole
  <2>3. CASE ~(p.len >= 29)
    <3>1. Arrived(p) = {Field(r, 17)}
      BY <1>1, <1>2, <1>3, <2>1, <2>3
    <3>2. Parsed(p) = <<AddressAt(17)>>
      BY <1>1, <1>4, <2>3 DEF Parsed, ParseLegacyAdvAddresses
    <3> QED
      BY <1>a, <1>b, <3>1, <3>2 DEF Whole
  <2> QED
    BY <2>2, <2>3
<1>5. CASE p.type \notin {1, 3, 5}
  <2>1. PICK r : Fields(p) = {Field(r, 17)}
    BY <1>1, <1>5 DEF Fields
  <2>2. Arrived(p) = {Field(r, 17)}
    BY <1>1, <1>2, <1>3, <2>1
  <2>3. Parsed(p) = <<AddressAt(17)>>
    BY <1>1, <1>5 DEF Parsed, ParseLegacyAdvAddresses
  <2> QED
    BY <1>a, <1>b, <2>2, <2>3 DEF Whole
<1> QED
  BY <1>4, <1>5

LEMMA AllWhole == \A p \in Received \cup {NoPdu} : Whole(p)
<1> SUFFICES ASSUME NEW p \in Received \cup {NoPdu} PROVE Whole(p)
  OBVIOUS
<1>1. /\ p.len \in Nat /\ p.type \in 0 .. 8
      /\ p.id \in {"AdvPDU", "AdvAuxPDU", "DataPDU"} /\ (p.id = "DataPDU" => ~HasExtHeader(p))
  BY Shape DEF HasExtHeader
<1>2. CASE p.id = "AdvPDU" /\ p.len < 23
  <2>1. Arrived(p) = {}
    BY <1>1, <1>2 DEF Arrived
  <2>2. Parsed(p) = <<>>
    BY <1>1, <1>2 DEF Parsed, ParseLegacyAdvAddresses
  <2> QED
    BY <2>1, <2>2, SetOf, Image DEF Whole
<1>3. CASE p.id = "AdvPDU" /\ p.len >= 23 /\ p.type = 7
  <2>1. Parsed(p) = ParseExtAdvAddresses(p)
    BY <1>1, <1>3 DEF Parsed, ParseLegacyAdvAddresses
  <2>2. HasExtHeader(p)
    BY <1>3 DEF HasExtHeader
  <2> QED
    BY <1>3, <2>1, <2>2, ExtWhole DEF Whole
<1>4. CASE p.id = "AdvPDU" /\ p.len >= 23 /\ p.type # 7
  BY <1>4, LegacyWhole
<1>5. CASE p.id = "AdvAuxPDU"
  <2>1. Parsed(p) = ParseExtAdvAddresses(p)
    BY <1>5 DEF Parsed
  <2>2. HasExtHeader(p)
    BY <1>5 DEF HasExtHeader
  <2> QED
    BY <1>5, <2>1, <2>2, ExtWhole DEF Whole
<1>6. CASE p.id = "DataPDU"
  <2>1. Fields(p) = {} /\ Parsed(p) = <<>>
    BY <1>1, <1>6 DEF Fields, Parsed
  <2>2. Arrived(p) = {}
    BY <2>1 DEF Arrived
  <2> QED
    BY <2>1, <2>2, SetOf, Image DEF Whole
<1> QED
  BY <1>1, <1>2, <1>3, <1>4, <1>5, <1>6

(* For every length of payload and of extended header, the store takes     *)
(* exactly the addresses that arrived completely: none is read past the    *)
(* end of the payload or of its header, and none is missed.                *)
THEOREM AddressesAreWhole == Spec => []WholeFields
<1>1. Inv => WholeFields
  BY AllWhole DEF Inv, Whole, WholeFields, Arrived, Addresses
<1> QED
  BY <1>1, Invariance, PTL

-----------------------------------------------------------------------------
(* Every address is labelled with the role of the field it was parsed      *)
(* from, whatever was cut off, but for ADV_EXT_IND and the type that the   *)
(* parser does not know.                                                   *)
THEOREM RolesMatch == Spec => []RolesOfMost
<1>1. Inv => RolesOfMost
  <2> SUFFICES ASSUME Inv, pdu.type # 8, ~(pdu.id = "AdvPDU" /\ pdu.type = 7)
               PROVE  Labelled(pdu)
    BY DEF RolesOfMost
  <2>1. /\ pdu \in Received \cup {NoPdu} /\ addrs = Parsed(pdu) /\ roles = AddressRoles(pdu)
    BY DEF Inv
  <2>2. /\ pdu.len \in Nat /\ pdu.hdr \in Nat /\ pdu.adva \in BOOLEAN /\ pdu.target \in BOOLEAN
        /\ pdu.type \in 0 .. 7 /\ pdu.id \in {"AdvPDU", "AdvAuxPDU", "DataPDU"}
    BY <2>1, Shape
  <2>3. \A r, x : Field(r, x).at = x /\ Field(r, x).role = r
    BY DEF Field
  <2>4. \A a, b : /\ DOMAIN <<a>> = {1} /\ <<a>>[1] = a
                  /\ DOMAIN <<a, b>> = {1, 2} /\ <<a, b>>[1] = a /\ <<a, b>>[2] = b
    OBVIOUS
  <2>5. CASE pdu.id = "DataPDU"
    BY <2>1, <2>5 DEF Parsed, Labelled
  <2>6. CASE pdu.id = "AdvPDU"
    <3>1. ~HasExtHeader(pdu)
      BY <2>6 DEF HasExtHeader
    <3>2. CASE pdu.len < 23
      <4>1. addrs = <<>>
        BY <2>1, <2>2, <2>6, <3>2 DEF Parsed, ParseLegacyAdvAddresses
      <4> QED
        BY <4>1 DEF Labelled
    <3>3. CASE pdu.len >= 23 /\ pdu.type \in {1, 3, 5}
      <4>1. addrs \in {<<AddressAt(17)>>, <<AddressAt(17), AddressAt(23)>>}
        BY <2>1, <2>2, <2>6, <3>3 DEF Parsed, ParseLegacyAdvAddresses
      <4>2. PICK r, q : /\ roles = <<r, q>>
                        /\ Fields(pdu) = {Field(r, 17), Field(q, 23)}
        <5>1. CASE pdu.type = 1
          BY <2>1, <2>2, <2>6, <3>1, <3>3, <5>1 DEF AddressRoles, LegacyRoles, Fields
        <5>2. CASE pdu.type = 3
          BY <2>1, <2>2, <2>6, <3>1, <3>3, <5>2 DEF AddressRoles, LegacyRoles, Fields
        <5>3. CASE pdu.type = 5
          BY <2>1, <2>2, <2>6, <3>1, <3>3, <5>3 DEF AddressRoles, LegacyRoles, Fields
        <5> QED
          BY <3>3, <5>1, <5>2, <5>3
      <4> QED
        BY <2>3, <2>4, <4>1, <4>2 DEF Labelled
    <3>4. CASE pdu.len >= 23 /\ pdu.type \in {0, 2, 4, 6}
      <4>1. addrs = <<AddressAt(17)>>
        BY <2>1, <2>2, <2>6, <3>4 DEF Parsed, ParseLegacyAdvAddresses
      <4>2. roles = <<"AdvA">> /\ Fields(pdu) = {Field("AdvA", 17)}
        BY <2>1, <2>2, <2>6, <3>1, <3>4 DEF AddressRoles, LegacyRoles, Fields
      <4> QED
        BY <2>3, <2>4, <4>1, <4>2 DEF Labelled
    <3> QED
      BY <2>2, <2>6, <3>2, <3>3, <3>4
  <2>7. CASE pdu.id = "AdvAuxPDU"
    <3>1. addrs = ParseExtAdvAddresses(pdu) /\ HasExtHeader(pdu)
      BY <2>1, <2>7 DEF Parsed, HasExtHeader
    <3>2. Fields(pdu) = (IF pdu.adva THEN {Field("AdvA", 19)} ELSE {})
             \cup (IF pdu.target THEN {Field("TargetA", IF pdu.adva THEN 25 ELSE 19)} ELSE {})
      BY <3>1, <2>7 DEF Fields, HasExtHeader
    <3>3. CASE addrs = <<>>
      BY <3>3 DEF Labelled
    <3>4. CASE addrs # <<>>
      <4>1. pdu.len >= 19
        BY <2>2, <3>1, <3>4 DEF ParseExtAdvAddresses
      <4>2. roles = (IF pdu.adva THEN <<"AdvA">> ELSE <<>>)
                      \o (IF pdu.target THEN <<"TargetA">> ELSE <<>>)
        BY <2>1, <2>2, <2>7, <4>1 DEF AddressRoles, ExtRoles
      <4>3. /\ <<"AdvA">> \o <<>> = <<"AdvA">> /\ <<>> \o <<"TargetA">> = <<"TargetA">>
            /\ <<"AdvA">> \o <<"TargetA">> = <<"AdvA", "TargetA">>
        BY "AdvA" \in {"AdvA", "TargetA"}, "TargetA" \in {"AdvA", "TargetA"}, Joined
      <4>4. CASE pdu.adva /\ pdu.target
        <5>1. roles = <<"AdvA", "TargetA">>
          BY <4>2, <4>3, <4>4
        <5>2. addrs \in {<<AddressAt(19)>>, <<AddressAt(19), AddressAt(25)>>}
          BY <2>1, <3>1, <3>4, <4>4, ExtParsed
        <5> QED
          BY <2>3, <2>4, <3>2, <4>4, <5>1, <5>2 DEF Labelled
      <4>5. CASE pdu.adva /\ ~pdu.target
        <5>1. roles = <<"AdvA">>
          BY <4>2, <4>3, <4>5
        <5>2. addrs = <<AddressAt(19)>>
          BY <2>1, <3>1, <3>4, <4>5, ExtParsed
        <5> QED
          BY <2>3, <2>4, <3>2, <4>5, <5>1, <5>2 DEF Labelled
      <4>6. CASE ~pdu.adva /\ pdu.target
        <5>1. roles = <<"TargetA">>
          BY <4>2, <4>3, <4>6
        <5>2. addrs = <<AddressAt(19)>>
          BY <2>1, <3>1, <3>4, <4>6, ExtParsed
        <5> QED
          BY <2>3, <2>4, <3>2, <4>6, <5>1, <5>2 DEF Labelled
      <4>7. CASE ~pdu.adva /\ ~pdu.target
        BY <2>1, <3>1, <3>4, <4>7, ExtParsed
      <4> QED
        BY <2>2, <4>4, <4>5, <4>6, <4>7
    <3> QED
      BY <3>3, <3>4
  <2> QED
    BY <2>2, <2>5, <2>6, <2>7
<1> QED
  BY <1>1, Invariance, PTL

-----------------------------------------------------------------------------
(***************************************************************************)
(* Numbers: the place of an element in a finite set, and induction from    *)
(* the fact that the natural numbers are well founded.                     *)
(***************************************************************************)
UpTo(S, i) == Cardinality({j \in S : j <= i})

(* In a finite set of numbers every element has a place of its own, and    *)
(* every place is taken.                                                   *)
LEMMA Places ==
  ASSUME NEW S, S \subseteq Nat, IsFiniteSet(S)
  PROVE  /\ Cardinality(S) \in Nat
         /\ \A i \in S : UpTo(S, i) \in 1..Cardinality(S)
         /\ \A i, j \in S : i < j => UpTo(S, i) < UpTo(S, j)
         /\ \A k \in 1..Cardinality(S) : \E i \in S : UpTo(S, i) = k
<1> DEFINE Below(i) == {j \in S : j <= i}
           n == Cardinality(S)
<1>1. n \in Nat
  BY FS_CardinalityType
<1>2. ASSUME NEW i \in Nat
      PROVE  /\ IsFiniteSet(Below(i)) /\ UpTo(S, i) = Cardinality(Below(i))
             /\ UpTo(S, i) \in Nat /\ UpTo(S, i) <= n
  <2>1. Below(i) \in SUBSET S /\ UpTo(S, i) = Cardinality(Below(i))
    BY DEF UpTo
  <2>2. IsFiniteSet(Below(i)) /\ Cardinality(Below(i)) <= n
    BY <2>1, FS_Subset
  <2> HIDE DEF Below
  <2> QED
    BY <2>1, <2>2, FS_CardinalityType
<1>3. ASSUME NEW i \in S, NEW j \in S, i < j
      PROVE  UpTo(S, i) < UpTo(S, j)
  <2>0. i \in Nat /\ j \in Nat /\ S \subseteq Nat
    OBVIOUS
  <2>1. Below(i) \in SUBSET Below(j)
    <3>1. \A x \in S : x <= i => x <= j
      BY <1>3, <2>0
    <3> QED
      BY <3>1
  <2>4. j \in Below(j) /\ j \notin Below(i)
    BY <1>3, <2>0
  <2>2. /\ IsFiniteSet(Below(j)) /\ UpTo(S, i) \in Nat /\ UpTo(S, j) \in Nat
        /\ UpTo(S, i) = Cardinality(Below(i)) /\ UpTo(S, j) = Cardinality(Below(j))
    BY <1>2, <2>0
  <2> HIDE DEF Below
  <2>3. Cardinality(Below(i)) <= Cardinality(Below(j))
        /\ Cardinality(Below(i)) # Cardinality(Below(j))
    BY <2>1, <2>2, <2>4, FS_Subset
  <2> QED
    BY <2>2, <2>3
<1>4. ASSUME NEW i \in S
      PROVE  UpTo(S, i) \in 1..n
  <2>1. i \in Below(i) /\ i \in Nat
    OBVIOUS
  <2>2. UpTo(S, i) \in Nat /\ UpTo(S, i) <= n /\ IsFiniteSet(Below(i))
        /\ UpTo(S, i) = Cardinality(Below(i))
    BY <1>2, <2>1
  <2> HIDE DEF Below, n
  <2>3. UpTo(S, i) # 0
    BY <2>1, <2>2, FS_EmptySet
  <2> QED
    BY <1>1, <2>2, <2>3
<1>5. \A k \in 1..n : \E i \in S : UpTo(S, i) = k
  <2> DEFINE f == [i \in S |-> UpTo(S, i)]
  <2>1. f \in [S -> 1..n]
    BY <1>4
  <2>2. \A i, j \in S : f[i] = f[j] => i = j
    <3> SUFFICES ASSUME NEW i \in S, NEW j \in S, i # j
                 PROVE  UpTo(S, i) # UpTo(S, j)
      OBVIOUS
    <3>1. i < j \/ j < i
      OBVIOUS
    <3>2. UpTo(S, i) \in 1..n /\ UpTo(S, j) \in 1..n
      BY <1>4
    <3>3. CASE i < j
      <4>1. UpTo(S, i) < UpTo(S, j)
        BY <1>3, <3>3
      <4> HIDE DEF n
      <4> QED
        BY <1>1, <3>2, <4>1
    <3>4. CASE j < i
      <4>1. UpTo(S, j) < UpTo(S, i)
        BY <1>3, <3>4
      <4> HIDE DEF n
      <4> QED
        BY <1>1, <3>2, <4>1
    <3> QED
      BY <3>1, <3>3, <3>4
  <2>3. f \in Injection(S, 1..n)
    BY <2>1, <2>2 DEF Injection, IsInjective
  <2>4. IsFiniteSet(1..n) /\ Cardinality(1..n) = n
    <3> HIDE DEF n
    <3>1. Cardinality(1..n) = IF 1 > n THEN 0 ELSE n - 1 + 1
      BY <1>1, FS_Interval
    <3> QED
      BY <1>1, <3>1, FS_Interval
  <2>5. f \in Surjection(S, 1..n)
    <3> HIDE DEF f
    <3> QED
      BY <2>3, <2>4, FS_Injection
  <2>6. \A k \in 1..n : \E i \in S : f[i] = k
    BY <2>5 DEF Surjection
  <2> QED
    BY <2>6
<1> QED
  BY <1>1, <1>3, <1>4, <1>5

(* A set of natural numbers that is not empty has a least element.         *)
LEMMA LeastNumber ==
  ASSUME NEW T, T \subseteq Nat, T # {}
  PROVE  \E m \in T : \A k \in T : m <= k
<1> DEFINE R == OpToRel(<, Nat)
<1>1. IsWellFoundedOn(R, Nat)
  BY NatLessThanWellFounded
<1>2. \A k, m \in Nat : k < m => <<k, m>> \in R
  BY DEF OpToRel
<1> HIDE DEF R
<1>3. PICK m \in T : \A k \in T : ~ (<<k, m>> \in R)
  BY <1>1, WFMin
<1>4. ASSUME NEW k \in T
      PROVE  m <= k
  <2>1. k \in Nat /\ m \in Nat
    OBVIOUS
  <2>2. ~ (k < m)
    BY <1>2, <1>3, <2>1
  <2> QED
    BY <2>1, <2>2
<1> QED
  BY <1>4

LEMMA Induction ==
  ASSUME NEW S, 0 \in S, \A n \in Nat : n \in S => n + 1 \in S
  PROVE  Nat \subseteq S
<1>1. SUFFICES ASSUME Nat \ S # {}
               PROVE  FALSE
  OBVIOUS
<1>2. PICK m \in Nat \ S : \A k \in Nat \ S : m <= k
  BY <1>1, LeastNumber
<1>3. m # 0 /\ m - 1 \in Nat /\ m - 1 \notin S
  BY <1>2
<1> QED
  BY <1>2, <1>3

-----------------------------------------------------------------------------
(* Where t is split: the n + 1 cuts in their order.                        *)
IsSplit(t, sep, n, cut) ==
  /\ n \in Nat \ {0} /\ cut \in [1 .. n + 1 -> 0 .. Len(t) + 1]
  /\ cut[1] = 0 /\ cut[n + 1] = Len(t) + 1
  /\ \A i, j \in 1 .. n + 1 : i < j => cut[i] < cut[j]
  /\ \A i \in 2 .. n : cut[i] \in 1 .. Len(t) /\ t[cut[i]] = sep
  /\ \A j \in 1 .. Len(t) : t[j] = sep => \E i \in 2 .. n : cut[i] = j
  /\ Split(t, sep) = [i \in 1 .. n |-> SubSeq(t, cut[i] + 1, cut[i + 1] - 1)]

(* The cuts have ranks 1 .. m, and Cut finds the one of each rank.         *)
LEMMA CutFacts ==
  ASSUME NEW S, NEW t \in Seq(S), NEW sep
  PROVE  LET C == Cuts(t, sep)
             m == Cardinality(C)
         IN  /\ C \subseteq 0 .. Len(t) + 1 /\ 0 \in C /\ Len(t) + 1 \in C
             /\ C \subseteq Nat /\ m \in Nat /\ m >= 2
             /\ \A i \in 1 .. m : Cut(t, sep, i) \in C /\ UpTo(C, Cut(t, sep, i)) = i
             /\ \A c \in C : UpTo(C, c) \in 1 .. m
             /\ \A c, d \in C : c < d => UpTo(C, c) < UpTo(C, d)
<1> DEFINE C == Cuts(t, sep)
           m == Cardinality(C)
<1>1. C \subseteq 0 .. Len(t) + 1 /\ 0 \in C /\ Len(t) + 1 \in C /\ Len(t) \in Nat
  BY DEF Cuts
<1>2. IsFiniteSet(C) /\ C \subseteq Nat
  <2> HIDE DEF C
  <2>1. IsFiniteSet(0 .. Len(t) + 1) /\ 0 .. Len(t) + 1 \subseteq Nat
    BY <1>1, FS_Interval
  <2> QED
    BY <1>1, <2>1, FS_Subset
<1>3. /\ m \in Nat
      /\ \A i \in C : UpTo(C, i) \in 1 .. m
      /\ \A i, j \in C : i < j => UpTo(C, i) < UpTo(C, j)
      /\ \A k \in 1 .. m : \E i \in C : UpTo(C, i) = k
  <2> HIDE DEF C
  <2> QED
    BY <1>2, Places DEF m
<1>4. m >= 2
  <2> HIDE DEF C, m
  <2>1. UpTo(C, 0) \in 1 .. m /\ UpTo(C, Len(t) + 1) \in 1 .. m
    BY <1>1, <1>3
  <2>2. 0 < Len(t) + 1
    BY <1>1
  <2>3. UpTo(C, 0) < UpTo(C, Len(t) + 1)
    BY <1>1, <1>3, <2>2
  <2> QED
    BY <1>3, <2>1, <2>3
<1>5. ASSUME NEW i \in 1 .. m
      PROVE  Cut(t, sep, i) \in C /\ UpTo(C, Cut(t, sep, i)) = i
  <2>1. Cut(t, sep, i) = CHOOSE c \in C : UpTo(C, c) = i
    BY DEF Cut, UpTo
  <2>2. \E c \in C : UpTo(C, c) = i
    BY <1>3
  <2> HIDE DEF C, m
  <2> QED
    BY <2>1, <2>2
<1> QED
  BY <1>1, <1>2, <1>3, <1>4, <1>5

(* So every text is split at its separators, in their order.               *)
LEMMA Splits ==
  ASSUME NEW S, NEW t \in Seq(S), NEW sep
  PROVE  \E n, cut : IsSplit(t, sep, n, cut)
<1> DEFINE C == Cuts(t, sep)
           m == Cardinality(C)
           n == m - 1
           cut == [i \in 1 .. n + 1 |-> Cut(t, sep, i)]
<1>1. /\ C \subseteq 0 .. Len(t) + 1 /\ 0 \in C /\ Len(t) + 1 \in C /\ Len(t) \in Nat
      /\ C \subseteq Nat /\ m \in Nat /\ m >= 2
      /\ \A i \in 1 .. m : Cut(t, sep, i) \in C /\ UpTo(C, Cut(t, sep, i)) = i
      /\ \A c \in C : UpTo(C, c) \in 1 .. m
      /\ \A c, d \in C : c < d => UpTo(C, c) < UpTo(C, d)
  BY CutFacts
<1>2. \A c \in C : c = 0 \/ c = Len(t) + 1 \/ (c \in 1 .. Len(t) /\ t[c] = sep)
  BY DEF Cuts
<1>3. \A j \in 1 .. Len(t) : t[j] = sep => j \in C
  BY DEF Cuts
<1>4. Split(t, sep) = [i \in 1 .. n |-> SubSeq(t, cut[i] + 1, cut[i + 1] - 1)]
  <2>1. \A i \in 1 .. n : cut[i] = Cut(t, sep, i) /\ cut[i + 1] = Cut(t, sep, i + 1)
    <3> HIDE DEF m
    <3> QED
      BY <1>1
  <2>2. Split(t, sep) = [i \in 1 .. n |-> SubSeq(t, Cut(t, sep, i) + 1, Cut(t, sep, i + 1) - 1)]
    BY DEF Split
  <2> HIDE DEF n, cut
  <2> QED
    BY <2>1, <2>2
<1>5. /\ n + 1 = m /\ n \in Nat \ {0}
      /\ \A i \in 1 .. m : cut[i] = Cut(t, sep, i) /\ cut[i] \in C /\ UpTo(C, cut[i]) = i
      /\ DOMAIN cut = 1 .. n + 1 /\ cut = [i \in DOMAIN cut |-> cut[i]]
  <2> HIDE DEF C, m
  <2> QED
    BY <1>1
<1> HIDE DEF C, m, n, cut
<1>6. \A i, j \in 1 .. m : i < j => cut[i] < cut[j]
  <2> SUFFICES ASSUME NEW i \in 1 .. m, NEW j \in 1 .. m, i < j, ~ (cut[i] < cut[j])
               PROVE  FALSE
    OBVIOUS
  <2>1. cut[i] \in C /\ cut[j] \in C /\ UpTo(C, cut[i]) = i /\ UpTo(C, cut[j]) = j
    BY <1>5
  <2>2. cut[i] \in Nat /\ cut[j] \in Nat
    BY <1>1, <2>1
  <2>3. cut[i] = cut[j] \/ cut[j] < cut[i]
    BY <2>2
  <2>4. cut[j] < cut[i] => j < i
    BY <1>1, <2>1
  <2>5. cut[j] = cut[i] => j = i
    BY <2>1
  <2>6. i \in Int /\ j \in Int
    BY <1>1
  <2> QED
    BY <2>3, <2>4, <2>5, <2>6
<1>7. \A c \in C : \E i \in 1 .. m : cut[i] = c
  <2> SUFFICES ASSUME NEW c \in C
               PROVE  \E i \in 1 .. m : cut[i] = c
    OBVIOUS
  <2>1. UpTo(C, c) \in 1 .. m
    BY <1>1
  <2>2. cut[UpTo(C, c)] \in C /\ UpTo(C, cut[UpTo(C, c)]) = UpTo(C, c)
    BY <1>5, <2>1
  <2>3. cut[UpTo(C, c)] \in Nat /\ c \in Nat
    BY <1>1, <2>2
  <2>4. \A d \in C : c < d \/ d < c => UpTo(C, d) # UpTo(C, c)
    BY <1>1
  <2>5. cut[UpTo(C, c)] = c
    BY <2>2, <2>3, <2>4
  <2> QED
    BY <2>1, <2>5
<1>8. cut[1] = 0 /\ cut[n + 1] = Len(t) + 1
  <2>1. PICK i \in 1 .. m : cut[i] = 0
    BY <1>1, <1>7
  <2>2. PICK j \in 1 .. m : cut[j] = Len(t) + 1
    BY <1>1, <1>7
  <2>3. 1 \in 1 .. m /\ m \in 1 .. m
    BY <1>1
  <2>4. cut[1] \in 0 .. Len(t) + 1 /\ cut[m] \in 0 .. Len(t) + 1
    BY <1>1, <1>5, <2>3
  <2>5. i = 1
    BY <1>1, <1>6, <2>1, <2>3, <2>4
  <2>6. j = m
    BY <1>1, <1>6, <2>2, <2>3, <2>4
  <2> QED
    BY <1>5, <2>1, <2>2, <2>5, <2>6
<1>9. \A i \in 2 .. n : cut[i] \in 1 .. Len(t) /\ t[cut[i]] = sep
  <2> SUFFICES ASSUME NEW i \in 2 .. n
               PROVE  cut[i] \in 1 .. Len(t) /\ t[cut[i]] = sep
    OBVIOUS
  <2>1. i \in 1 .. m /\ 1 \in 1 .. m /\ n + 1 \in 1 .. m /\ 1 < i /\ i < n + 1
    BY <1>1, <1>5
  <2>2. cut[i] \in C /\ cut[1] < cut[i] /\ cut[i] < cut[n + 1]
    BY <1>5, <1>6, <2>1
  <2>3. cut[i] # 0 /\ cut[i] # Len(t) + 1
    BY <1>1, <1>8, <2>2
  <2> QED
    BY <1>2, <2>2, <2>3
<1>10. \A j \in 1 .. Len(t) : t[j] = sep => \E i \in 2 .. n : cut[i] = j
  <2> SUFFICES ASSUME NEW j \in 1 .. Len(t), t[j] = sep
               PROVE  \E i \in 2 .. n : cut[i] = j
    OBVIOUS
  <2>1. PICK i \in 1 .. m : cut[i] = j
    BY <1>3, <1>7
  <2>2. i # 1 /\ i # n + 1
    BY <1>1, <1>8, <2>1
  <2>3. i \in 2 .. n
    BY <1>1, <1>5, <2>2
  <2> QED
    BY <2>1, <2>3
<1>11. cut \in [1 .. n + 1 -> 0 .. Len(t) + 1]
  BY <1>1, <1>5
<1>12. \A i, j \in 1 .. n + 1 : i < j => cut[i] < cut[j]
  BY <1>5, <1>6
<1>13. IsSplit(t, sep, n, cut)
  BY <1>4, <1>5, <1>8, <1>9, <1>10, <1>11, <1>12 DEF IsSplit
<1> QED
  BY <1>13

(* The parts of a text whose every third character, and no other, is the   *)
(* separator.                                                              *)
Pairs(t, sep, k) ==
  /\ k \in Nat \ {0} /\ Len(t) = 3 * k - 1
  /\ \A i \in 1 .. k - 1 : t[3 * i] = sep
  /\ \A i \in 1 .. k : t[3 * i - 2] # sep /\ t[3 * i - 1] # sep

(* Its cuts are the places before, between and after the pairs: by         *)
(* induction, the next separator is always three characters further on.    *)
LEMMA PairsApart ==
  ASSUME NEW S, NEW t \in Seq(S), NEW sep, NEW k, Pairs(t, sep, k), NEW n, NEW cut,
         IsSplit(t, sep, n, cut)
  PROVE  n = k /\ \A i \in 1 .. n + 1 : cut[i] = 3 * (i - 1)
<1>1. /\ k \in Nat \ {0} /\ Len(t) = 3 * k - 1
      /\ \A i \in 1 .. k - 1 : t[3 * i] = sep
      /\ \A i \in 1 .. k : t[3 * i - 2] # sep /\ t[3 * i - 1] # sep
  BY DEF Pairs
<1>2. /\ n \in Nat \ {0} /\ cut \in [1 .. n + 1 -> 0 .. Len(t) + 1]
      /\ cut[1] = 0 /\ cut[n + 1] = Len(t) + 1
      /\ \A i, j \in 1 .. n + 1 : i < j => cut[i] < cut[j]
      /\ \A i \in 2 .. n : cut[i] \in 1 .. Len(t) /\ t[cut[i]] = sep
      /\ \A j \in 1 .. Len(t) : t[j] = sep => \E i \in 2 .. n : cut[i] = j
  BY DEF IsSplit
<1>3. \A i \in 1 .. n + 1 : cut[i] \in Int
  BY <1>1, <1>2
<1>4. ASSUME NEW c \in Int, NEW i \in 1 .. k, 3 * (i - 1) < c, c \in 1 .. Len(t), t[c] = sep
      PROVE  3 * i <= c /\ i < k
  <2>1. c # 3 * i - 2 /\ c # 3 * i - 1
    BY <1>1, <1>4
  <2>2. 3 * i <= c
    BY <1>1, <1>4, <2>1
  <2>3. i < k
    BY <1>1, <1>4, <2>2
  <2> QED
    BY <2>2, <2>3
<1> DEFINE Q == {i \in Nat : i + 1 <= k => i + 1 <= n /\ cut[i + 1] = 3 * i}
<1>5. 0 \in Q
  BY <1>2
<1>6. ASSUME NEW i \in Nat, i \in Q
      PROVE  i + 1 \in Q
  <2> SUFFICES ASSUME i + 2 <= k
               PROVE  i + 2 <= n /\ cut[i + 2] = 3 * (i + 1)
    OBVIOUS
  <2>1. i + 1 \in 1 .. k - 1 /\ i + 1 \in 1 .. k /\ i + 1 \in 1 .. n + 1
        /\ i + 1 <= n /\ cut[i + 1] = 3 * i
    BY <1>1, <1>2, <1>6
  <2>2. 3 * (i + 1) \in 1 .. Len(t) /\ t[3 * (i + 1)] = sep
    <3>1. t[3 * (i + 1)] = sep
      BY <1>1, <2>1
    <3>2. 3 * (i + 1) \in 1 .. Len(t)
      BY <1>1
    <3> QED
      BY <3>1, <3>2
  <2>3. PICK j \in 2 .. n : cut[j] = 3 * (i + 1)
    BY <1>2, <2>2
  <2>4. j \in 1 .. n + 1 /\ j \in Int /\ n \in Int
    BY <1>2
  <2>5. i + 1 < j
    <3>1. ~ (j < i + 1)
      <4> SUFFICES ASSUME j < i + 1 PROVE FALSE
        OBVIOUS
      <4>1. cut[j] < cut[i + 1]
        BY <1>2, <2>1, <2>4
      <4> QED
        BY <2>1, <2>3, <4>1
    <3>2. j # i + 1
      BY <2>1, <2>3
    <3> QED
      BY <2>4, <3>1, <3>2
  <2>6. i + 2 \in 2 .. n /\ i + 2 \in 1 .. n + 1 /\ i + 1 < i + 2
    BY <2>4, <2>5
  <2>7. cut[i + 1] < cut[i + 2] /\ cut[i + 2] \in 1 .. Len(t) /\ t[cut[i + 2]] = sep
    BY <1>2, <2>1, <2>6
  <2>8. cut[i + 2] \in Int
    BY <1>3, <2>6
  <2>9. 3 * ((i + 1) - 1) < cut[i + 2]
    BY <2>1, <2>7, <2>8
  <2>10. 3 * (i + 1) <= cut[i + 2]
    BY <1>4, <2>1, <2>7, <2>8, <2>9
  <2>11. cut[i + 2] <= 3 * (i + 1)
    <3>1. i + 2 = j \/ i + 2 < j
      BY <2>4, <2>5
    <3>2. CASE i + 2 < j
      <4>1. cut[i + 2] < cut[j]
        BY <1>2, <2>4, <2>6, <3>2
      <4> QED
        BY <2>3, <2>8, <4>1
    <3> QED
      BY <2>3, <3>1, <3>2
  <2> QED
    BY <2>6, <2>8, <2>10, <2>11
<1>7. Nat \subseteq Q
  <2> HIDE DEF Q
  <2> QED
    BY <1>5, <1>6, Induction
<1>8. k - 1 \in Q /\ k - 1 \in Nat
  BY <1>1, <1>7
<1>9. k <= n /\ cut[k] = 3 * (k - 1)
  BY <1>1, <1>8
<1>10. n = k
  <2> SUFFICES ASSUME k < n
               PROVE  FALSE
    BY <1>1, <1>2, <1>9
  <2>1. k + 1 \in 2 .. n /\ k + 1 \in 1 .. n + 1 /\ k \in 1 .. n + 1 /\ k < k + 1 /\ k \in 1 .. k
    BY <1>1, <1>2
  <2>2. cut[k] < cut[k + 1] /\ cut[k + 1] \in 1 .. Len(t) /\ t[cut[k + 1]] = sep
    BY <1>2, <2>1
  <2>3. cut[k + 1] \in Int
    BY <1>3, <2>1
  <2> QED
    BY <1>1, <1>4, <1>9, <2>1, <2>2, <2>3
<1>11. ASSUME NEW i \in 1 .. n + 1
       PROVE  cut[i] = 3 * (i - 1)
  <2>1. CASE i = n + 1
    BY <1>1, <1>2, <1>10, <2>1
  <2>2. CASE i # n + 1
    <3>1. i - 1 \in Nat /\ i - 1 \in Q /\ (i - 1) + 1 = i
      BY <1>2, <1>7
    <3>2. i <= k
      BY <1>2, <1>10, <2>2
    <3> QED
      BY <3>1, <3>2
  <2> QED
    BY <2>1, <2>2
<1> QED
  BY <1>10, <1>11

(* A slice of a text that lies within it.                                  *)
LEMMA Slices ==
  ASSUME NEW S, NEW t \in Seq(S), NEW l \in Nat, NEW h \in Nat, l <= h + 1, h <= Len(t), l >= 1
  PROVE  /\ SubSeq(t, l, h) \in Seq(S) /\ Len(SubSeq(t, l, h)) = h - l + 1
         /\ \A i \in 1 .. h - l + 1 : SubSeq(t, l, h)[i] = t[l + i - 1]
OBVIOUS

(* The parts are the pairs.                                                *)
LEMMA EvenSplit ==
  ASSUME NEW S, NEW t \in Seq(S), NEW sep, NEW k, Pairs(t, sep, k)
  PROVE  /\ Len(Split(t, sep)) = k /\ DOMAIN Split(t, sep) = 1 .. k
         /\ \A i \in 1 .. k : Split(t, sep)[i] = <<t[3 * i - 2], t[3 * i - 1]>>
<1>1. PICK n, cut : IsSplit(t, sep, n, cut)
  BY Splits
<1>2. n = k /\ \A i \in 1 .. n + 1 : cut[i] = 3 * (i - 1)
  BY <1>1, PairsApart
<1>3. /\ k \in Nat \ {0} /\ Len(t) = 3 * k - 1
      /\ Split(t, sep) = [i \in 1 .. k |-> SubSeq(t, cut[i] + 1, cut[i + 1] - 1)]
  BY <1>1, <1>2 DEF IsSplit, Pairs
<1>4. ASSUME NEW i \in 1 .. k
      PROVE  Split(t, sep)[i] = <<t[3 * i - 2], t[3 * i - 1]>>
  <2>1. i \in 1 .. n + 1 /\ i + 1 \in 1 .. n + 1
    BY <1>2, <1>3
  <2>2. cut[i] + 1 = 3 * i - 2 /\ cut[i + 1] - 1 = 3 * i - 1
    BY <1>2, <2>1
  <2>3. Split(t, sep)[i] = SubSeq(t, 3 * i - 2, 3 * i - 1)
    BY <1>3, <2>2
  <2> DEFINE p == SubSeq(t, 3 * i - 2, 3 * i - 1)
             l == 3 * i - 2
             h == 3 * i - 1
  <2>4. /\ l \in Nat /\ h \in Nat /\ h - l + 1 = 2 /\ l <= h + 1 /\ h <= Len(t) /\ l >= 1
        /\ l + 1 - 1 = l /\ l + 2 - 1 = h
    BY <1>3
  <2>5. p \in Seq(S) /\ Len(p) = 2 /\ p[1] = t[l] /\ p[2] = t[h]
    <3> HIDE DEF l, h
    <3>1. SubSeq(t, l, h) \in Seq(S) /\ Len(SubSeq(t, l, h)) = 2
          /\ SubSeq(t, l, h)[1] = t[l + 1 - 1] /\ SubSeq(t, l, h)[2] = t[l + 2 - 1]
      BY <2>4, Slices
    <3> QED
      BY <2>4, <3>1 DEF l, h
  <2> HIDE DEF p, l, h
  <2>6. p = <<t[l], t[h]>>
    BY <2>5
  <2> QED
    BY <2>3, <2>6 DEF p, l, h
<1> QED
  BY <1>3, <1>4

(* Conversely, parts of two characters each are pairs.                     *)
LEMMA PairSplit ==
  ASSUME NEW S, NEW t \in Seq(S), NEW sep, \A p \in ToSet(Split(t, sep)) : Len(p) = 2
  PROVE  \E k : Pairs(t, sep, k)
<1>1. PICK n, cut : IsSplit(t, sep, n, cut)
  BY Splits
<1>2. /\ n \in Nat \ {0} /\ cut \in [1 .. n + 1 -> 0 .. Len(t) + 1]
      /\ cut[1] = 0 /\ cut[n + 1] = Len(t) + 1
      /\ \A i, j \in 1 .. n + 1 : i < j => cut[i] < cut[j]
      /\ \A i \in 2 .. n : cut[i] \in 1 .. Len(t) /\ t[cut[i]] = sep
      /\ \A j \in 1 .. Len(t) : t[j] = sep => \E i \in 2 .. n : cut[i] = j
      /\ Split(t, sep) = [i \in 1 .. n |-> SubSeq(t, cut[i] + 1, cut[i + 1] - 1)]
  BY <1>1 DEF IsSplit
<1>l. Len(t) \in Nat
  OBVIOUS
<1>3. ASSUME NEW i \in 1 .. n
      PROVE  cut[i + 1] = cut[i] + 3 /\ cut[i] \in Int
  <2>1. i \in 1 .. n + 1 /\ i + 1 \in 1 .. n + 1 /\ i < i + 1
    BY <1>2
  <2>2. cut[i] < cut[i + 1] /\ cut[i] \in 0 .. Len(t) + 1 /\ cut[i + 1] \in 0 .. Len(t) + 1
    BY <1>2, <2>1
  <2>3. SubSeq(t, cut[i] + 1, cut[i + 1] - 1) \in ToSet(Split(t, sep))
    BY <1>2 DEF ToSet
  <2>4. Len(SubSeq(t, cut[i] + 1, cut[i + 1] - 1)) = 2
    BY <2>3
  <2> DEFINE l == cut[i] + 1
             h == cut[i + 1] - 1
  <2>5. l \in Nat /\ h \in Nat /\ l <= h + 1 /\ h <= Len(t) /\ l >= 1
    BY <1>l, <2>2
  <2>6. h - l + 1 = 2
    <3> HIDE DEF l, h
    <3>1. Len(SubSeq(t, l, h)) = h - l + 1
      BY <2>5, Slices
    <3> QED
      BY <2>4, <3>1 DEF l, h
  <2> QED
    BY <2>2, <2>6
<1> DEFINE Q == {i \in Nat : i <= n => cut[i + 1] = 3 * i}
<1>4. Nat \subseteq Q
  <2>1. 0 \in Q
    BY <1>2
  <2>2. ASSUME NEW i \in Nat, i \in Q
        PROVE  i + 1 \in Q
    <3> SUFFICES ASSUME i + 1 <= n
                 PROVE  cut[i + 2] = 3 * (i + 1)
      OBVIOUS
    <3>1. i + 1 \in 1 .. n /\ (i + 1) + 1 = i + 2 /\ cut[i + 1] = 3 * i
      BY <1>2, <2>2
    <3>2. cut[(i + 1) + 1] = cut[i + 1] + 3
      BY <1>3, <3>1
    <3> QED
      BY <3>1, <3>2
  <2> HIDE DEF Q
  <2> QED
    BY <2>1, <2>2, Induction
<1>5. ASSUME NEW i \in 1 .. n + 1
      PROVE  cut[i] = 3 * (i - 1)
  <2>1. i - 1 \in Nat /\ i - 1 <= n /\ (i - 1) + 1 = i
    BY <1>2
  <2>2. i - 1 \in Q
    BY <1>4, <2>1
  <2> QED
    BY <2>1, <2>2
<1>6. Len(t) = 3 * n - 1
  <2>1. n + 1 \in 1 .. n + 1
    BY <1>2
  <2>2. Len(t) + 1 = 3 * ((n + 1) - 1)
    BY <1>2, <1>5, <2>1
  <2> QED
    BY <1>2, <1>l, <2>2
<1>7. ASSUME NEW i \in 1 .. n - 1
      PROVE  t[3 * i] = sep
  <2>1. i + 1 \in 2 .. n /\ i + 1 \in 1 .. n + 1
    BY <1>2
  <2>2. cut[i + 1] = 3 * i
    BY <1>5, <2>1
  <2> QED
    BY <1>2, <2>1, <2>2
<1>8. ASSUME NEW j \in 1 .. Len(t), t[j] = sep
      PROVE  \E i \in Int : j = 3 * i
  <2>1. PICK i \in 2 .. n : cut[i] = j
    BY <1>2, <1>8
  <2>2. i \in 1 .. n + 1 /\ i - 1 \in Int
    BY <1>2
  <2>3. j = 3 * (i - 1)
    BY <1>5, <2>1, <2>2
  <2> QED
    BY <2>2, <2>3
<1>9. ASSUME NEW i \in 1 .. n
      PROVE  t[3 * i - 2] # sep /\ t[3 * i - 1] # sep
  <2>1. 3 * i - 2 \in 1 .. Len(t) /\ 3 * i - 1 \in 1 .. Len(t) /\ i \in Int
    BY <1>2, <1>6
  <2>2. \A j \in Int : 3 * i - 2 # 3 * j /\ 3 * i - 1 # 3 * j
    BY <2>1
  <2> QED
    BY <1>8, <2>1, <2>2
<1>10. Pairs(t, sep, n)
  BY <1>2, <1>6, <1>7, <1>9 DEF Pairs
<1> QED
  BY <1>10

(* The parts of a text are texts.                                          *)
LEMMA PartTypes ==
  ASSUME NEW S, NEW t \in Seq(S), NEW sep, NEW p \in ToSet(Split(t, sep))
  PROVE  p \in Seq(S)
<1>1. PICK n, cut : IsSplit(t, sep, n, cut)
  BY Splits
<1>2. /\ n \in Nat \ {0} /\ cut \in [1 .. n + 1 -> 0 .. Len(t) + 1]
      /\ \A i, j \in 1 .. n + 1 : i < j => cut[i] < cut[j]
      /\ Split(t, sep) = [i \in 1 .. n |-> SubSeq(t, cut[i] + 1, cut[i + 1] - 1)]
  BY <1>1 DEF IsSplit
<1>3. Len(t) \in Nat
  OBVIOUS
<1>4. PICK i \in 1 .. n : p = SubSeq(t, cut[i] + 1, cut[i + 1] - 1)
  BY <1>2 DEF ToSet
<1>5. i \in 1 .. n + 1 /\ i + 1 \in 1 .. n + 1 /\ i < i + 1
  <2>1. n \in Nat
    BY <1>2
  <2> QED
    BY <2>1
<1>6. cut[i] < cut[i + 1] /\ cut[i] \in 0 .. Len(t) + 1 /\ cut[i + 1] \in 0 .. Len(t) + 1
  BY <1>2, <1>5
<1> DEFINE l == cut[i] + 1
           h == cut[i + 1] - 1
<1>7. l \in Nat /\ h \in Nat /\ l <= h + 1 /\ h <= Len(t) /\ l >= 1
  BY <1>3, <1>6
<1>8. p = SubSeq(t, l, h)
  BY <1>4
<1> HIDE DEF l, h
<1> QED
  BY <1>7, <1>8, Slices

(* A text without the separator is its only part.                          *)
LEMMA WholeSplit ==
  ASSUME NEW S, NEW t \in Seq(S), NEW sep, \A i \in 1 .. Len(t) : t[i] # sep
  PROVE  ToSet(Split(t, sep)) = {t}
<1>1. PICK n, cut : IsSplit(t, sep, n, cut)
  BY Splits
<1>2. /\ n \in Nat \ {0} /\ cut[1] = 0 /\ cut[n + 1] = Len(t) + 1
      /\ \A i \in 2 .. n : cut[i] \in 1 .. Len(t) /\ t[cut[i]] = sep
      /\ Split(t, sep) = [i \in 1 .. n |-> SubSeq(t, cut[i] + 1, cut[i + 1] - 1)]
      /\ Len(t) \in Nat
  BY <1>1 DEF IsSplit
<1>3. n = 1
  <2>1. 2 \notin 2 .. n
    BY <1>2
  <2> QED
    BY <1>2, <2>1
<1>4. SubSeq(t, 1, Len(t)) = t
  OBVIOUS
<1>5. cut[1] + 1 = 1 /\ cut[1 + 1] - 1 = Len(t)
  BY <1>2, <1>3
<1>6. Split(t, sep) = [i \in 1 .. 1 |-> SubSeq(t, cut[i] + 1, cut[i + 1] - 1)]
  BY <1>2, <1>3
<1>7. DOMAIN Split(t, sep) = 1 .. 1 /\ Split(t, sep)[1] = t
  BY <1>4, <1>5, <1>6
<1>8. \A i : i \in 1 .. 1 <=> i = 1
  OBVIOUS
<1> QED
  BY <1>7, <1>8 DEF ToSet

(* A character that is no separator lies in one of the parts.              *)
LEMMA InSomePart ==
  ASSUME NEW S, NEW t \in Seq(S), NEW sep, NEW j \in 1 .. Len(t), t[j] # sep
  PROVE  \E p \in ToSet(Split(t, sep)) : t[j] \in ToSet(p)
<1>1. PICK n, cut : IsSplit(t, sep, n, cut)
  BY Splits
<1>2. /\ n \in Nat \ {0} /\ cut \in [1 .. n + 1 -> 0 .. Len(t) + 1]
      /\ cut[1] = 0 /\ cut[n + 1] = Len(t) + 1
      /\ \A i \in 2 .. n : cut[i] \in 1 .. Len(t) /\ t[cut[i]] = sep
      /\ Split(t, sep) = [i \in 1 .. n |-> SubSeq(t, cut[i] + 1, cut[i + 1] - 1)]
  BY <1>1 DEF IsSplit
<1>l. Len(t) \in Nat /\ j \in 1 .. Len(t)
  OBVIOUS
<1> DEFINE After == {i \in Nat : i \in 1 .. n + 1 /\ cut[i] > j}
<1>3. n + 1 \in After
  BY <1>2
<1>4. PICK m \in After : \A i \in After : m <= i
  <2> HIDE DEF After
  <2>1. After \subseteq Nat
    BY DEF After
  <2> QED
    BY <1>3, <2>1, LeastNumber
<1>5. m \in 1 .. n + 1 /\ cut[m] > j /\ m # 1
  BY <1>2, <1>4
<1>6. m - 1 \in 1 .. n /\ m - 1 \in 1 .. n + 1 /\ (m - 1) + 1 = m
  BY <1>2, <1>5
<1>7. cut[m - 1] \in 0 .. Len(t) + 1 /\ cut[m] \in 0 .. Len(t) + 1
  BY <1>2, <1>5, <1>6
<1>8. cut[m - 1] <= j
  <2>1. m - 1 \notin After
    BY <1>4, <1>6
  <2> QED
    BY <1>2, <1>6, <1>7, <2>1
<1>9. cut[m - 1] # j
  <2>1. CASE m - 1 = 1
    BY <1>2, <2>1
  <2>2. CASE m - 1 # 1
    <3>1. m - 1 \in 2 .. n
      BY <1>2, <1>6, <2>2
    <3> QED
      BY <1>2, <3>1
  <2> QED
    BY <2>1, <2>2
<1> DEFINE l == cut[m - 1] + 1
           h == cut[m] - 1
           p == SubSeq(t, l, h)
<1>10. /\ l \in Nat /\ h \in Nat /\ l <= h + 1 /\ h <= Len(t) /\ l >= 1
       /\ j - l + 1 \in 1 .. h - l + 1 /\ l + (j - l + 1) - 1 = j
  <2>1. /\ cut[m - 1] \in Nat /\ cut[m] \in Nat /\ j \in Nat /\ cut[m] <= Len(t) + 1
        /\ cut[m - 1] < j /\ j < cut[m]
    BY <1>l, <1>5, <1>7, <1>8, <1>9
  <2>2. /\ l \in Nat /\ h \in Nat /\ l <= h + 1 /\ h <= Len(t) /\ l >= 1
        /\ l <= j /\ j <= h
    BY <1>l, <2>1
  <2> HIDE DEF l, h
  <2> QED
    BY <2>1, <2>2
<1>11. p \in ToSet(Split(t, sep))
  <2>1. DOMAIN Split(t, sep) = 1 .. n /\ Split(t, sep)[m - 1] = p
    BY <1>2, <1>6
  <2> QED
    BY <1>6, <2>1 DEF ToSet
<1> HIDE DEF l, h
<1>12. Len(p) = h - l + 1 /\ p \in Seq(S) /\ p[j - l + 1] = t[l + (j - l + 1) - 1]
  BY <1>10, Slices
<1> HIDE DEF p
<1>13. j - l + 1 \in DOMAIN p /\ p[j - l + 1] = t[j]
  BY <1>10, <1>12
<1> QED
  BY <1>11, <1>13 DEF ToSet

-----------------------------------------------------------------------------
(***************************************************************************)
(* Characters and the texts made of them.                                  *)
(***************************************************************************)
Hexits == DOMAIN Digit

(* What the assumption says of a single character.                         *)
LEMMA Characters ==
  /\ ":" \notin Hexits /\ "-" \notin Hexits /\ "," \notin Hexits /\ " " \notin Hexits
  /\ Other # ":" /\ Other # "-" /\ Char = Hexits \cup {":", "-", ",", " ", Other}
  /\ \A c \in Hexits : /\ Digit[c] \in 0 .. 15 /\ Upper[c] \in Hexits
                       /\ Upper[Upper[c]] = Upper[c] /\ Digit[Upper[c]] = Digit[c]
  /\ \A c, d \in Hexits : Digit[c] = Digit[d] => Upper[c] = Upper[d]
  /\ NumOctets \in Nat \ {0}
<1>1. /\ Digit \in [Hexits -> 0..15] /\ Upper \in [Hexits -> Hexits]
      /\ \A c, d \in Hexits : Upper[c] = Upper[d] <=> Digit[c] = Digit[d]
      /\ \A c \in Hexits : Upper[Upper[c]] = Upper[c]
      /\ {":", "-", ",", " ", Other} \cap Hexits = {} /\ Other \notin {":", "-", ",", " "}
      /\ NumOctets \in Nat \ {0}
  BY TextAssumption DEF Hexits
<1>2. \A c \in Hexits : Digit[c] \in 0 .. 15 /\ Upper[c] \in Hexits
  BY <1>1
<1>3. \A c \in Hexits : Digit[Upper[c]] = Digit[c]
  BY <1>1, <1>2
<1>4. Char = Hexits \cup {":", "-", ",", " ", Other}
  BY DEF Char, Hexits
<1> QED
  BY <1>1, <1>2, <1>3, <1>4

(* normaliseAddr, character by character.                                  *)
LEMMA Normal ==
  ASSUME NEW t \in Seq(Char)
  PROVE  /\ normaliseAddr(t) \in Seq(Char) /\ Len(normaliseAddr(t)) = Len(t)
         /\ \A i \in 1 .. Len(t) :
              /\ normaliseAddr(t)[i] = ":" <=> t[i] \in {":", "-"}
              /\ normaliseAddr(t)[i] \in Hexits <=> t[i] \in Hexits
              /\ t[i] \in Hexits => normaliseAddr(t)[i] = Upper[t[i]]
<1> DEFINE u(c) == CASE c = "-" -> ":" [] c \in Hexits -> Upper[c] [] OTHER -> c
           s == normaliseAddr(t)
<1>1. ASSUME NEW c \in Char
      PROVE  /\ u(c) \in Char /\ (u(c) = ":" <=> c \in {":", "-"})
             /\ (u(c) \in Hexits <=> c \in Hexits) /\ (c \in Hexits => u(c) = Upper[c])
  <2>1. CASE c = "-"
    BY <2>1, Characters
  <2>2. CASE c \in Hexits
    <3>1. u(c) = Upper[c]
      BY <2>2, Characters
    <3> QED
      BY <2>2, <3>1, Characters
  <2>3. CASE c # "-" /\ c \notin Hexits
    <3>1. u(c) = c
      BY <2>3
    <3> QED
      BY <2>3, <3>1
  <2> QED
    BY <2>1, <2>2, <2>3
<1>2. s = [i \in 1 .. Len(t) |-> u(t[i])]
  BY DEF normaliseAddr, Hexits
<1>3. Len(t) \in Nat /\ \A i \in 1 .. Len(t) : t[i] \in Char
  OBVIOUS
<1> HIDE DEF u, s
<1>4. s \in [1 .. Len(t) -> Char]
  BY <1>1, <1>2, <1>3
<1>5. s \in Seq(Char) /\ Len(s) = Len(t)
  BY <1>3, <1>4
<1>6. ASSUME NEW i \in 1 .. Len(t)
      PROVE  /\ s[i] = ":" <=> t[i] \in {":", "-"}
             /\ s[i] \in Hexits <=> t[i] \in Hexits
             /\ t[i] \in Hexits => s[i] = Upper[t[i]]
  BY <1>1, <1>2, <1>3
<1> QED
  BY <1>5, <1>6 DEF s

-----------------------------------------------------------------------------
(* Digits in pairs with colons between them.                               *)
DigitPairs(s, k) ==
  /\ Pairs(s, ":", k)
  /\ \A i \in 1 .. k : s[3 * i - 2] \in Hexits /\ s[3 * i - 1] \in Hexits

(* They are the upper case digits of these octets.                         *)
Plain(s, o, k) ==
  /\ DigitPairs(s, k)
  /\ \A i \in 1 .. k : /\ 16 * Digit[s[3 * i - 2]] + Digit[s[3 * i - 1]] = o[i]
                       /\ Upper[s[3 * i - 2]] = s[3 * i - 2]
                       /\ Upper[s[3 * i - 1]] = s[3 * i - 1]

(* The places of a text of k pairs.                                        *)
LEMMA Columns ==
  ASSUME NEW k \in Nat \ {0}
  PROVE  /\ \A i \in 1 .. k : 3 * i - 2 \in 1 .. 3 * k - 1 /\ 3 * i - 1 \in 1 .. 3 * k - 1
         /\ \A i \in 1 .. k - 1 : 3 * i \in 1 .. 3 * k - 1
         /\ \A j \in 1 .. 3 * k - 1 : \/ \E i \in 1 .. k : j = 3 * i - 2 \/ j = 3 * i - 1
                                      \/ \E i \in 1 .. k - 1 : j = 3 * i
<1>1. ASSUME NEW j \in 1 .. 3 * k - 1
      PROVE  \/ \E i \in 1 .. k : j = 3 * i - 2 \/ j = 3 * i - 1
             \/ \E i \in 1 .. k - 1 : j = 3 * i
  <2>1. PICK q \in Nat : j = 3 * q \/ j = 3 * q + 1 \/ j = 3 * q + 2
    <3>1. j = 3 * (j \div 3) + (j % 3) /\ j % 3 \in 0 .. 2 /\ j \div 3 \in Nat
      OBVIOUS
    <3> QED
      BY <3>1
  <2>2. CASE j = 3 * q
    <3>1. q \in 1 .. k - 1
      BY <2>2
    <3> QED
      BY <2>2, <3>1
  <2>3. CASE j = 3 * q + 1
    <3>1. q + 1 \in 1 .. k /\ j = 3 * (q + 1) - 2
      BY <2>3
    <3> QED
      BY <3>1
  <2>4. CASE j = 3 * q + 2
    <3>1. q + 1 \in 1 .. k /\ j = 3 * (q + 1) - 1
      BY <2>4
    <3> QED
      BY <3>1
  <2> QED
    BY <2>1, <2>2, <2>3, <2>4
<1> QED
  BY <1>1

(* The entries that validFilterEntry accepts.                              *)
LEMMA ValidEntry ==
  ASSUME NEW s \in Seq(Char)
  PROVE  validFilterEntry(s) <=> \E k \in 1 .. NumOctets : DigitPairs(s, k)
<1>0. \A x, y : /\ Len(<<x, y>>) = 2
               /\ AllHex(<<x, y>>) <=> x \in Hexits /\ y \in Hexits
  <2>1. \A x, y : ToSet(<<x, y>>) = {x, y}
    BY SetOf
  <2> QED
    BY <2>1 DEF AllHex, Hexits
<1>1. ASSUME validFilterEntry(s)
      PROVE  \E k \in 1 .. NumOctets : DigitPairs(s, k)
  <2>1. PICK k \in 1 .. NumOctets : Len(s) = 3 * k - 1
    BY <1>1 DEF validFilterEntry
  <2>2. \A p \in ToSet(Split(s, ":")) : Len(p) = 2 /\ AllHex(p)
    BY <1>1 DEF validFilterEntry
  <2>3. PICK q : Pairs(s, ":", q)
    BY <2>2, PairSplit
  <2>4. q = k
    <3>1. q \in Nat /\ Len(s) = 3 * q - 1
      BY <2>3 DEF Pairs
    <3>2. k \in Int
      <4>1. NumOctets \in Nat
        BY Characters
      <4> QED
        BY <4>1
    <3>3. 3 * q - 1 = 3 * k - 1
      BY <2>1, <3>1
    <3> QED
      BY <3>1, <3>2, <3>3
  <2>5. ASSUME NEW i \in 1 .. k
        PROVE  s[3 * i - 2] \in Hexits /\ s[3 * i - 1] \in Hexits
    <3>1. /\ DOMAIN Split(s, ":") = 1 .. k
          /\ Split(s, ":")[i] = <<s[3 * i - 2], s[3 * i - 1]>>
      BY <2>3, <2>4, EvenSplit
    <3>2. Split(s, ":")[i] \in ToSet(Split(s, ":"))
      BY <3>1 DEF ToSet
    <3> QED
      BY <1>0, <2>2, <3>1, <3>2
  <2> QED
    BY <2>3, <2>4, <2>5 DEF DigitPairs
<1>2. ASSUME NEW k \in 1 .. NumOctets, DigitPairs(s, k)
      PROVE  validFilterEntry(s)
  <2>1. Pairs(s, ":", k)
    BY <1>2 DEF DigitPairs
  <2>2. Len(s) = 3 * k - 1
    BY <2>1 DEF Pairs
  <2>3. ASSUME NEW p \in ToSet(Split(s, ":"))
        PROVE  Len(p) = 2 /\ AllHex(p)
    <3>1. /\ DOMAIN Split(s, ":") = 1 .. k
          /\ \A i \in 1 .. k : Split(s, ":")[i] = <<s[3 * i - 2], s[3 * i - 1]>>
      BY <2>1, EvenSplit
    <3>2. PICK i \in 1 .. k : p = <<s[3 * i - 2], s[3 * i - 1]>>
      BY <3>1 DEF ToSet
    <3>3. s[3 * i - 2] \in Hexits /\ s[3 * i - 1] \in Hexits
      BY <1>2 DEF DigitPairs
    <3> QED
      BY <1>0, <3>2, <3>3
  <2> QED
    BY <2>2, <2>3 DEF validFilterEntry
<1> QED
  BY <1>1, <1>2

(* Spelling is plain once a text is normalised.                            *)
LEMMA SpellsPlain ==
  ASSUME NEW t \in Seq(Char), NEW k \in Nat \ {0}, NEW o \in [1 .. k -> Octet]
  PROVE  Spells(t, o) <=> Plain(normaliseAddr(t), o, k)
<1> DEFINE s == normaliseAddr(t)
<1>1. /\ s \in Seq(Char) /\ Len(s) = Len(t)
      /\ \A i \in 1 .. Len(t) : /\ s[i] = ":" <=> t[i] \in {":", "-"}
                                /\ s[i] \in Hexits <=> t[i] \in Hexits
                                /\ t[i] \in Hexits => s[i] = Upper[t[i]]
  BY Normal
<1>2. Len(o) = k /\ DOMAIN o = 1 .. k
  <2>1. DOMAIN o = 1 .. k /\ o \in Seq(Octet)
    OBVIOUS
  <2> QED
    BY <2>1
<1> HIDE DEF s
<1>3. ASSUME NEW i \in 1 .. Len(t), t[i] \in Hexits
      PROVE  s[i] \in Hexits /\ Digit[s[i]] = Digit[t[i]] /\ Upper[s[i]] = s[i] /\ s[i] # ":"
  <2>1. s[i] = Upper[t[i]] /\ s[i] \in Hexits
    BY <1>1, <1>3
  <2>2. Digit[Upper[t[i]]] = Digit[t[i]] /\ Upper[Upper[t[i]]] = Upper[t[i]]
    BY <1>3, Characters
  <2>3. s[i] # ":"
    BY <2>1, Characters
  <2> QED
    BY <2>1, <2>2, <2>3
<1>4. ASSUME Spells(t, o)
      PROVE  Plain(s, o, k)
  <2>1. Len(t) = 3 * k - 1
    BY <1>2, <1>4 DEF Spells
  <2>2. ASSUME NEW i \in 1 .. k
        PROVE  /\ 3 * i - 2 \in 1 .. Len(t) /\ 3 * i - 1 \in 1 .. Len(t)
               /\ t[3 * i - 2] \in Hexits /\ t[3 * i - 1] \in Hexits
               /\ 16 * Digit[t[3 * i - 2]] + Digit[t[3 * i - 1]] = o[i]
    <3>1. 3 * i - 2 \in 1 .. Len(t) /\ 3 * i - 1 \in 1 .. Len(t)
      BY <2>1, Columns
    <3> QED
      BY <1>2, <1>4, <3>1 DEF Spells, Hexits
  <2>3. ASSUME NEW i \in 1 .. k - 1
        PROVE  3 * i \in 1 .. Len(t) /\ t[3 * i] \in {":", "-"}
    <3>1. 3 * i \in 1 .. Len(t)
      BY <2>1, Columns
    <3>2. i \in 1 .. k /\ i < k
      OBVIOUS
    <3> QED
      BY <1>2, <1>4, <3>1, <3>2 DEF Spells
  <2>4. Pairs(s, ":", k)
    <3>1. \A i \in 1 .. k - 1 : s[3 * i] = ":"
      BY <1>1, <2>3
    <3>2. \A i \in 1 .. k : s[3 * i - 2] # ":" /\ s[3 * i - 1] # ":"
      BY <1>3, <2>2
    <3> QED
      BY <1>1, <2>1, <3>1, <3>2 DEF Pairs
  <2>5. ASSUME NEW i \in 1 .. k
        PROVE  /\ s[3 * i - 2] \in Hexits /\ s[3 * i - 1] \in Hexits
               /\ 16 * Digit[s[3 * i - 2]] + Digit[s[3 * i - 1]] = o[i]
               /\ Upper[s[3 * i - 2]] = s[3 * i - 2] /\ Upper[s[3 * i - 1]] = s[3 * i - 1]
    <3>1. /\ s[3 * i - 2] \in Hexits /\ Digit[s[3 * i - 2]] = Digit[t[3 * i - 2]]
          /\ Upper[s[3 * i - 2]] = s[3 * i - 2]
      BY <1>3, <2>2
    <3>2. /\ s[3 * i - 1] \in Hexits /\ Digit[s[3 * i - 1]] = Digit[t[3 * i - 1]]
          /\ Upper[s[3 * i - 1]] = s[3 * i - 1]
      BY <1>3, <2>2
    <3> QED
      BY <2>2, <3>1, <3>2
  <2> QED
    BY <2>4, <2>5 DEF Plain, DigitPairs
<1>5. ASSUME Plain(s, o, k)
      PROVE  Spells(t, o)
  <2>1. Len(t) = 3 * k - 1 /\ \A i \in 1 .. k - 1 : s[3 * i] = ":"
    BY <1>1, <1>5 DEF Plain, DigitPairs, Pairs
  <2>2. ASSUME NEW i \in 1 .. k
        PROVE  /\ t[3 * i - 2] \in Hexits /\ t[3 * i - 1] \in Hexits
               /\ 16 * Digit[t[3 * i - 2]] + Digit[t[3 * i - 1]] = o[i]
    <3>1. 3 * i - 2 \in 1 .. Len(t) /\ 3 * i - 1 \in 1 .. Len(t)
      BY <2>1, Columns
    <3>2. /\ s[3 * i - 2] \in Hexits /\ s[3 * i - 1] \in Hexits
          /\ 16 * Digit[s[3 * i - 2]] + Digit[s[3 * i - 1]] = o[i]
      BY <1>5 DEF Plain, DigitPairs
    <3>3. t[3 * i - 2] \in Hexits /\ t[3 * i - 1] \in Hexits
      BY <1>1, <3>1, <3>2
    <3>4. Digit[s[3 * i - 2]] = Digit[t[3 * i - 2]] /\ Digit[s[3 * i - 1]] = Digit[t[3 * i - 1]]
      BY <1>3, <3>1, <3>3
    <3> QED
      BY <3>2, <3>3, <3>4
  <2>3. ASSUME NEW i \in 1 .. k, i < k
        PROVE  t[3 * i] \in {":", "-"}
    <3>1. i \in 1 .. k - 1
      BY <2>3
    <3>2. 3 * i \in 1 .. Len(t)
      BY <2>1, <3>1, Columns
    <3> QED
      BY <1>1, <2>1, <3>1, <3>2
  <2> QED
    BY <1>2, <2>1, <2>2, <2>3 DEF Spells, Hexits
<1> QED
  BY <1>4, <1>5 DEF s

(* A prefix agrees with the whole as far as it goes.                       *)
LEMMA PrefixMeaning ==
  ASSUME NEW S, NEW s \in Seq(S), NEW t \in Seq(S)
  PROVE  IsPrefix(s, t) <=> Len(s) <= Len(t) /\ \A i \in 1 .. Len(s) : s[i] = t[i]
<1>1. SubSeq(s, 1, Len(s)) = s /\ Len(s) \in Nat /\ Len(t) \in Nat
  OBVIOUS
<1>2. ASSUME Len(s) <= Len(t)
      PROVE  /\ SubSeq(t, 1, Len(s)) \in Seq(S) /\ Len(SubSeq(t, 1, Len(s))) = Len(s)
             /\ \A i \in 1 .. Len(s) : SubSeq(t, 1, Len(s))[i] = t[i]
  BY <1>1, <1>2
<1>3. ASSUME Len(s) <= Len(t)
      PROVE  s = SubSeq(t, 1, Len(s)) <=> \A i \in 1 .. Len(s) : s[i] = t[i]
  <2> DEFINE u == SubSeq(t, 1, Len(s))
  <2>1. u \in Seq(S) /\ Len(u) = Len(s) /\ \A i \in 1 .. Len(s) : u[i] = t[i]
    BY <1>2, <1>3
  <2> HIDE DEF u
  <2>2. (\A i \in 1 .. Len(s) : s[i] = u[i]) => s = u
    BY <2>1, SeqEqual
  <2> QED
    BY <2>1, <2>2 DEF u
<1> QED
  BY <1>1, <1>3 DEF IsPrefix

(* Two plain texts are alike as far as their octets are.                   *)
LEMMA PlainPrefix ==
  ASSUME NEW s \in Seq(Char), NEW f \in Seq(Char), NEW k \in Nat \ {0}, NEW n \in Nat, k <= n,
         NEW o \in [1 .. k -> Octet], NEW a \in [1 .. n -> Octet],
         Plain(s, o, k), Plain(f, a, n)
  PROVE  IsPrefix(s, f) <=> IsPrefix(o, a)
<1>1. /\ Len(s) = 3 * k - 1 /\ Len(f) = 3 * n - 1 /\ Len(s) <= Len(f)
      /\ Len(o) = k /\ Len(a) = n /\ o \in Seq(Octet) /\ a \in Seq(Octet)
  <2>1. Len(s) = 3 * k - 1 /\ Len(f) = 3 * n - 1
    BY DEF Plain, DigitPairs, Pairs
  <2>2. o \in Seq(Octet) /\ a \in Seq(Octet) /\ DOMAIN o = 1 .. k /\ DOMAIN a = 1 .. n
    OBVIOUS
  <2>3. Len(o) = k /\ Len(a) = n
    BY <2>2
  <2> QED
    BY <2>1, <2>2, <2>3
<1>2. ASSUME NEW i \in 1 .. k
      PROVE  s[3 * i - 2] = f[3 * i - 2] /\ s[3 * i - 1] = f[3 * i - 1] <=> o[i] = a[i]
  <2> DEFINE c == s[3 * i - 2]
             d == s[3 * i - 1]
             x == f[3 * i - 2]
             y == f[3 * i - 1]
  <2>1. i \in 1 .. n
    OBVIOUS
  <2>2. /\ c \in Hexits /\ d \in Hexits /\ Upper[c] = c /\ Upper[d] = d
        /\ 16 * Digit[c] + Digit[d] = o[i]
    BY DEF Plain, DigitPairs
  <2>3. /\ x \in Hexits /\ y \in Hexits /\ Upper[x] = x /\ Upper[y] = y
        /\ 16 * Digit[x] + Digit[y] = a[i]
    BY <2>1 DEF Plain, DigitPairs
  <2> HIDE DEF c, d, x, y
  <2>4. Digit[c] \in 0 .. 15 /\ Digit[d] \in 0 .. 15 /\ Digit[x] \in 0 .. 15 /\ Digit[y] \in 0 .. 15
    BY <2>2, <2>3, Characters
  <2>5. o[i] = a[i] => Digit[c] = Digit[x] /\ Digit[d] = Digit[y]
    <3>1. o[i] = a[i] => 16 * Digit[c] + Digit[d] = 16 * Digit[x] + Digit[y]
      BY <2>2, <2>3
    <3> DEFINE p == Digit[c]
               q == Digit[d]
               v == Digit[x]
               w == Digit[y]
    <3>2. p \in 0 .. 15 /\ q \in 0 .. 15 /\ v \in 0 .. 15 /\ w \in 0 .. 15
      BY <2>4
    <3> HIDE DEF p, q, v, w
    <3>3. 16 * p + q = 16 * v + w => p = v /\ q = w
      BY <3>2
    <3> QED
      BY <3>1, <3>3 DEF p, q, v, w
  <2>6. o[i] = a[i] => c = x /\ d = y
    BY <2>2, <2>3, <2>5, Characters
  <2>7. c = x /\ d = y <=> o[i] = a[i]
    BY <2>2, <2>3, <2>6
  <2> QED
    BY <2>7 DEF c, d, x, y
<1>3. ASSUME NEW i \in 1 .. k - 1
      PROVE  s[3 * i] = f[3 * i]
  <2>1. i \in 1 .. n - 1
    OBVIOUS
  <2> QED
    BY <2>1 DEF Plain, DigitPairs, Pairs
<1>4. (\A j \in 1 .. 3 * k - 1 : s[j] = f[j]) <=> \A i \in 1 .. k : o[i] = a[i]
  <2>1. ASSUME \A j \in 1 .. 3 * k - 1 : s[j] = f[j]
        PROVE  \A i \in 1 .. k : o[i] = a[i]
    BY <1>2, <2>1, Columns
  <2>2. ASSUME \A i \in 1 .. k : o[i] = a[i]
        PROVE  \A j \in 1 .. 3 * k - 1 : s[j] = f[j]
    BY <1>2, <1>3, <2>2, Columns
  <2> QED
    BY <2>1, <2>2
<1>5. IsPrefix(s, f) <=> Len(s) <= Len(f) /\ \A j \in 1 .. Len(s) : s[j] = f[j]
  BY PrefixMeaning
<1>6. IsPrefix(o, a) <=> Len(o) <= Len(a) /\ \A i \in 1 .. Len(o) : o[i] = a[i]
  <2>1. o \in Seq(Octet) /\ a \in Seq(Octet)
    OBVIOUS
  <2>2. \A x, y \in Seq(Octet) :
          IsPrefix(x, y) <=> Len(x) <= Len(y) /\ \A i \in 1 .. Len(x) : x[i] = y[i]
    BY PrefixMeaning
  <2> QED
    BY <2>1, <2>2
<1> QED
  BY <1>1, <1>4, <1>5, <1>6

(* The value of a text that is being parsed after each character.          *)
Value(t) ==
  CHOOSE v : v = [n \in 0..Len(t) |-> IF n = 0 THEN 0 ELSE 16 * v[n - 1] + Digit[t[n]]]

(* Two digits are parsed to the byte that they spell.                      *)
LEMMA TwoDigits ==
  ASSUME NEW c \in Hexits, NEW d \in Hexits
  PROVE  ParseUint(<<c, d>>) = 16 * Digit[c] + Digit[d]
<1> DEFINE t == <<c, d>>
           w == [n \in 0 .. 2 |-> CASE n = 0 -> 0 [] n = 1 -> Digit[c]
                                    [] OTHER -> 16 * Digit[c] + Digit[d]]
<1>1. Len(t) = 2 /\ t[1] = c /\ t[2] = d
  OBVIOUS
<1>2. ParseUint(t) = Value(t)[Len(t)]
  BY DEF ParseUint, Value
<1>3. w[0] = 0 /\ w[1] = Digit[c] /\ w[2] = 16 * Digit[c] + Digit[d]
  OBVIOUS
<1>4. Digit[c] \in 0 .. 15 /\ Digit[d] \in 0 .. 15
  BY Characters
<1> HIDE DEF t
<1>5. \A n \in 0 .. 2 : w[n] = IF n = 0 THEN 0 ELSE 16 * w[n - 1] + Digit[t[n]]
  <2> SUFFICES ASSUME NEW n \in 0 .. 2
               PROVE  w[n] = IF n = 0 THEN 0 ELSE 16 * w[n - 1] + Digit[t[n]]
    OBVIOUS
  <2>1. CASE n = 0
    BY <1>3, <2>1
  <2>2. CASE n = 1
    <3> HIDE DEF w
    <3>1. w[n - 1] = 0 /\ t[n] = c /\ w[n] = Digit[c]
      BY <1>1, <1>3, <2>2
    <3> QED
      BY <1>4, <2>2, <3>1
  <2>3. CASE n = 2
    <3> HIDE DEF w
    <3>1. w[n - 1] = Digit[c] /\ t[n] = d /\ w[n] = 16 * Digit[c] + Digit[d]
      BY <1>1, <1>3, <2>3
    <3> QED
      BY <1>4, <2>3, <3>1
  <2> QED
    BY <2>1, <2>2, <2>3
<1>6. DOMAIN w = 0 .. 2 /\ w = [n \in DOMAIN w |-> w[n]]
  OBVIOUS
<1> HIDE DEF w
<1>7. w = [n \in 0 .. Len(t) |-> IF n = 0 THEN 0 ELSE 16 * w[n - 1] + Digit[t[n]]]
  BY <1>1, <1>5, <1>6
<1>8. Value(t) = [n \in 0 .. Len(t) |-> IF n = 0 THEN 0 ELSE 16 * Value(t)[n - 1] + Digit[t[n]]]
  BY <1>7 DEF Value
<1> DEFINE v == Value(t)
<1>9. \A n \in 0 .. 2 : v[n] = IF n = 0 THEN 0 ELSE 16 * v[n - 1] + Digit[t[n]]
  <2> HIDE DEF v
  <2> QED
    BY <1>1, <1>8 DEF v
<1> HIDE DEF v
<1>10. v[0] = 0
  BY <1>9
<1>11. v[1] = Digit[c]
  <2>1. v[1] = 16 * v[1 - 1] + Digit[t[1]] /\ 1 - 1 = 0
    BY <1>9
  <2> QED
    BY <1>1, <1>4, <1>10, <2>1
<1>12. v[2] = 16 * Digit[c] + Digit[d]
  <2>1. v[2] = 16 * v[2 - 1] + Digit[t[2]] /\ 2 - 1 = 1
    BY <1>9
  <2> QED
    BY <1>1, <1>4, <1>11, <2>1
<1> QED
  BY <1>1, <1>2, <1>12 DEF t, v

-----------------------------------------------------------------------------
(* The upper case digit of a value, as FormatAddr chooses it.              *)
HexDigit(v) == CHOOSE c \in DOMAIN Digit : Digit[c] = v /\ Upper[c] = c

(* An octet is a byte, and the digits of its halves spell it.              *)
LEMMA Octets ==
  ASSUME NEW v \in Octet
  PROVE  /\ v \in Nat /\ v < 256
         /\ HexDigit(v \div 16) \in Hexits /\ HexDigit(v % 16) \in Hexits
         /\ 16 * Digit[HexDigit(v \div 16)] + Digit[HexDigit(v % 16)] = v
<1>1. PICK c \in Hexits, d \in Hexits : v = 16 * Digit[c] + Digit[d]
  BY DEF Octet, Hexits
<1> DEFINE p == Digit[c]
           q == Digit[d]
<1>2. p \in 0 .. 15 /\ q \in 0 .. 15 /\ v = 16 * p + q
  BY <1>1, Characters
<1>3. \A x \in Hexits : HexDigit(Digit[x]) \in Hexits /\ Digit[HexDigit(Digit[x])] = Digit[x]
  <2> SUFFICES ASSUME NEW x \in Hexits
               PROVE  HexDigit(Digit[x]) \in Hexits /\ Digit[HexDigit(Digit[x])] = Digit[x]
    OBVIOUS
  <2>1. \E y \in Hexits : Digit[y] = Digit[x] /\ Upper[y] = y
    BY Characters
  <2> QED
    BY <2>1 DEF HexDigit, Hexits
<1>4. HexDigit(p) \in Hexits /\ HexDigit(q) \in Hexits
      /\ Digit[HexDigit(p)] = p /\ Digit[HexDigit(q)] = q
  BY <1>3
<1> HIDE DEF p, q
<1>5. v \div 16 = p /\ v % 16 = q /\ v \in Nat /\ v < 256
  BY <1>2
<1> QED
  BY <1>2, <1>4, <1>5

(* An address is formatted as it is spelled.                               *)
LEMMA Formatted ==
  ASSUME NEW a \in Addr
  PROVE  FormatAddr(a) \in Seq(Char) /\ Spells(FormatAddr(a), a)
<1> DEFINE f == FormatAddr(a)
           N == NumOctets
           g(i) == CASE i % 3 = 1 -> HexDigit(a[(i + 2) \div 3] \div 16)
                     [] i % 3 = 2 -> HexDigit(a[(i + 1) \div 3] % 16)
                     [] OTHER -> ":"
<1>1. f = [i \in 1 .. 3 * N - 1 |-> g(i)]
  BY DEF FormatAddr, HexDigit
<1>2. N \in Nat \ {0}
  BY Characters
<1>3. a \in [1 .. N -> Octet]
  BY DEF Addr
<1>4. ASSUME NEW i \in 1 .. N
      PROVE  /\ g(3 * i - 2) = HexDigit(a[i] \div 16) /\ g(3 * i - 1) = HexDigit(a[i] % 16)
             /\ g(3 * i) = ":"
  <2>1. /\ (3 * i - 2) % 3 = 1 /\ ((3 * i - 2) + 2) \div 3 = i
        /\ (3 * i - 1) % 3 = 2 /\ ((3 * i - 1) + 1) \div 3 = i /\ (3 * i) % 3 = 0
    BY <1>2
  <2>2. g(3 * i - 2) = HexDigit(a[((3 * i - 2) + 2) \div 3] \div 16)
    BY <2>1
  <2>3. g(3 * i - 1) = HexDigit(a[((3 * i - 1) + 1) \div 3] % 16)
    BY <2>1
  <2>4. g(3 * i) = ":"
    BY <2>1
  <2> QED
    BY <2>1, <2>2, <2>3, <2>4
<1> HIDE DEF f, g, N
<1>5. ASSUME NEW i \in 1 .. N
      PROVE  /\ g(3 * i - 2) \in Hexits /\ g(3 * i - 1) \in Hexits
             /\ 16 * Digit[g(3 * i - 2)] + Digit[g(3 * i - 1)] = a[i]
  <2>1. a[i] \in Octet
    BY <1>3
  <2> QED
    BY <1>4, <2>1, Octets
<1>6. ASSUME NEW j \in 1 .. 3 * N - 1
      PROVE  g(j) \in Char
  <2>1. CASE \E i \in 1 .. N : j = 3 * i - 2 \/ j = 3 * i - 1
    BY <1>5, <2>1, Characters
  <2>2. CASE \E i \in 1 .. N - 1 : j = 3 * i
    <3>1. PICK i \in 1 .. N - 1 : j = 3 * i
      BY <2>2
    <3>2. i \in 1 .. N
      BY <1>2
    <3>3. g(j) = ":"
      BY <1>4, <3>1, <3>2
    <3> QED
      BY <3>3, Characters
  <2> QED
    BY <1>2, <2>1, <2>2, Columns
<1>7. f \in [1 .. 3 * N - 1 -> Char]
  BY <1>1, <1>6
<1>8. 3 * N - 1 \in Nat
  BY <1>2
<1>9. f \in Seq(Char) /\ Len(f) = 3 * N - 1
  BY <1>7, <1>8
<1>10. Len(a) = N /\ DOMAIN a = 1 .. N
  BY <1>2, <1>3
<1>11. ASSUME NEW i \in 1 .. N
       PROVE  /\ f[3 * i - 2] \in Hexits /\ f[3 * i - 1] \in Hexits
              /\ 16 * Digit[f[3 * i - 2]] + Digit[f[3 * i - 1]] = a[i]
  <2>1. 3 * i - 2 \in 1 .. 3 * N - 1 /\ 3 * i - 1 \in 1 .. 3 * N - 1
    BY <1>2, Columns
  <2>2. f[3 * i - 2] = g(3 * i - 2) /\ f[3 * i - 1] = g(3 * i - 1)
    BY <1>1, <2>1
  <2> QED
    BY <1>5, <2>2
<1>12. ASSUME NEW i \in 1 .. N, i < N
       PROVE  f[3 * i] \in {":", "-"}
  <2>1. i \in 1 .. N - 1
    BY <1>2, <1>12
  <2>2. 3 * i \in 1 .. 3 * N - 1
    BY <1>2, <2>1, Columns
  <2> QED
    BY <1>1, <1>4, <2>2
<1>13. Spells(f, a)
  BY <1>9, <1>10, <1>11, <1>12 DEF Spells, Hexits
<1> QED
  BY <1>9, <1>13 DEF f

(* parseAddr gives the octets that a text of full length spells.           *)
LEMMA ParsePlain ==
  ASSUME NEW t \in Seq(Char), NEW o \in Addr, Plain(normaliseAddr(t), o, NumOctets)
  PROVE  parseAddr(t) = [octets |-> o, random |-> o[1] >= 192]
<1> DEFINE s == normaliseAddr(t)
           parts == Split(s, ":")
           N == NumOctets
<1>1. s \in Seq(Char) /\ Pairs(s, ":", N) /\ N \in Nat \ {0} /\ o \in [1 .. N -> Octet]
  BY Normal, Characters DEF Plain, DigitPairs, Addr
<1>2. /\ Len(parts) = N /\ DOMAIN parts = 1 .. N
      /\ \A i \in 1 .. N : parts[i] = <<s[3 * i - 2], s[3 * i - 1]>>
  BY <1>1, EvenSplit
<1>3. ASSUME NEW i \in 1 .. N
      PROVE  /\ s[3 * i - 2] \in Hexits /\ s[3 * i - 1] \in Hexits
             /\ 16 * Digit[s[3 * i - 2]] + Digit[s[3 * i - 1]] = o[i]
  BY DEF Plain, DigitPairs
<1>4. parseAddr(t) =
        IF /\ Len(parts) = N
           /\ \A p \in ToSet(parts) : p # <<>> /\ AllHex(p) /\ ParseUint(p) < 256
        THEN [octets |-> [i \in 1 .. N |-> ParseUint(parts[i])],
              random |-> [i \in 1 .. N |-> ParseUint(parts[i])][1] >= 192]
        ELSE Nothing
  BY DEF parseAddr
<1> HIDE DEF s, parts, N
<1>5. ASSUME NEW i \in 1 .. N
      PROVE  /\ parts[i] # <<>> /\ AllHex(parts[i])
             /\ ParseUint(parts[i]) = o[i] /\ ParseUint(parts[i]) < 256
  <2> DEFINE c == s[3 * i - 2]
             d == s[3 * i - 1]
  <2>1. c \in Hexits /\ d \in Hexits /\ 16 * Digit[c] + Digit[d] = o[i] /\ parts[i] = <<c, d>>
    BY <1>2, <1>3
  <2> HIDE DEF c, d
  <2>2. ParseUint(parts[i]) = o[i]
    BY <2>1, TwoDigits
  <2>3. parts[i] # <<>>
    BY <2>1
  <2>4. AllHex(parts[i])
    <3>1. ToSet(parts[i]) = {c, d}
      BY <2>1, SetOf
    <3> QED
      BY <2>1, <3>1 DEF AllHex, Hexits
  <2>5. o[i] < 256
    <3>1. o[i] \in Octet
      BY <1>1
    <3> QED
      BY <3>1, Octets
  <2>6. ParseUint(parts[i]) < 256
    BY <2>2, <2>5
  <2> QED
    BY <2>2, <2>3, <2>4, <2>6
<1>6. \A p \in ToSet(parts) : p # <<>> /\ AllHex(p) /\ ParseUint(p) < 256
  BY <1>2, <1>5 DEF ToSet
<1>7. [i \in 1 .. N |-> ParseUint(parts[i])] = o
  BY <1>1, <1>5
<1> QED
  BY <1>2, <1>4, <1>6, <1>7

(* What can be parsed has no characters but digits, colons and dashes.     *)
LEMMA ParsedText ==
  ASSUME NEW t \in Seq(Char), parseAddr(t) # Nothing
  PROVE  /\ Len(Split(normaliseAddr(t), ":")) = NumOctets /\ t # <<>>
         /\ \A j \in 1 .. Len(t) : t[j] \in Hexits \cup {":", "-"}
<1> DEFINE s == normaliseAddr(t)
           parts == Split(s, ":")
<1>1. Len(parts) = NumOctets /\ \A p \in ToSet(parts) : p # <<>> /\ AllHex(p)
  BY DEF parseAddr
<1>2. /\ s \in Seq(Char) /\ Len(s) = Len(t)
      /\ \A i \in 1 .. Len(t) : /\ s[i] = ":" <=> t[i] \in {":", "-"}
                                /\ s[i] \in Hexits <=> t[i] \in Hexits
  BY Normal
<1> HIDE DEF s
<1>3. t # <<>>
  <2> SUFFICES ASSUME t = <<>> PROVE FALSE
    OBVIOUS
  <2>1. Len(s) = 0
    BY <1>2
  <2>2. s = <<>> /\ \A i \in 1 .. Len(s) : s[i] # ":"
    BY <1>2, <2>1
  <2>3. ToSet(parts) = {s}
    BY <1>2, <2>2, WholeSplit
  <2> QED
    BY <1>1, <2>2, <2>3
<1>4. ASSUME NEW j \in 1 .. Len(t), s[j] # ":"
      PROVE  s[j] \in Hexits
  <2>1. j \in 1 .. Len(s)
    BY <1>2
  <2>2. PICK p \in ToSet(parts) : s[j] \in ToSet(p)
    BY <1>2, <1>4, <2>1, InSomePart
  <2> QED
    BY <1>1, <2>2 DEF AllHex, Hexits
<1> QED
  BY <1>1, <1>2, <1>3, <1>4 DEF s

(* Min and Max of a set of places.                                         *)
LEMMA Ends ==
  ASSUME NEW n \in Nat, NEW P \in SUBSET (1 .. n), P # {}
  PROVE  /\ Min(P) \in P /\ \A i \in P : Min(P) <= i
         /\ Max(P) \in P /\ \A i \in P : i <= Max(P)
<1>1. P \subseteq Nat /\ \A i \in P : i <= n
  OBVIOUS
<1>2. \E m \in P : \A i \in P : m <= i
  BY <1>1, LeastNumber
<1>3. \E m \in P : \A i \in P : m >= i
  <2> DEFINE T == {n - i : i \in P}
  <2>1. T \subseteq Nat /\ T # {}
    <3>1. \A i \in P : n - i \in Nat
      BY <1>1
    <3> QED
      BY <3>1
  <2>2. PICK x \in T : \A y \in T : x <= y
    <3> HIDE DEF T
    <3> QED
      BY <2>1, LeastNumber
  <2>3. PICK m \in P : x = n - m
    BY <2>2
  <2>4. ASSUME NEW i \in P
        PROVE  m >= i
    <3>1. n - m <= n - i
      BY <2>2, <2>3
    <3>2. m \in Nat /\ i \in Nat
      BY <1>1
    <3> HIDE DEF T
    <3> QED
      BY <3>1, <3>2
  <2> QED
    BY <2>4
<1>4. Min(P) \in P /\ \A i \in P : Min(P) <= i
  BY <1>2 DEF Min
<1>5. Max(P) \in P /\ \A i \in P : Max(P) >= i
  BY <1>3 DEF Max
<1> QED
  BY <1>1, <1>4, <1>5

(* The first and the last place of a text.                                 *)
LEMMA NotEmpty ==
  ASSUME NEW S, NEW t \in Seq(S), t # <<>>
  PROVE  1 \in DOMAIN t /\ Len(t) \in DOMAIN t
<1>1. Len(t) \in Nat /\ DOMAIN t = 1 .. Len(t)
  OBVIOUS
<1>2. Len(t) # 0
  OBVIOUS
<1> DEFINE n == Len(t)
<1> HIDE DEF n
<1>3. 1 \in 1 .. n /\ n \in 1 .. n
  BY <1>1, <1>2 DEF n
<1> QED
  BY <1>1, <1>3 DEF n

(* Trimming gives a text, and the same text where nothing is blank.        *)
LEMMA Trimmed ==
  ASSUME NEW t \in Seq(Char)
  PROVE  /\ TrimSpace(t) \in Seq(Char)
         /\ t # <<>> /\ (\A i \in 1 .. Len(t) : t[i] # " ") => TrimSpace(t) = t
<1> DEFINE P == {i \in DOMAIN t : t[i] # " "}
<1>1. TrimSpace(t) = IF P = {} THEN <<>> ELSE SubSeq(t, Min(P), Max(P))
  BY DEF TrimSpace
<1>2. P \in SUBSET (1 .. Len(t)) /\ Len(t) \in Nat /\ DOMAIN t = 1 .. Len(t)
  <2>1. Len(t) \in Nat /\ DOMAIN t = 1 .. Len(t)
    OBVIOUS
  <2> QED
    BY <2>1
<1>3. t # <<>> /\ (\A i \in 1 .. Len(t) : t[i] # " ") => P # {} /\ 1 \in P /\ Len(t) \in P
  <2> SUFFICES ASSUME t # <<>>, \A i \in 1 .. Len(t) : t[i] # " "
               PROVE  1 \in P /\ Len(t) \in P
    OBVIOUS
  <2>1. 1 \in DOMAIN t /\ Len(t) \in DOMAIN t
    BY NotEmpty
  <2> QED
    BY <1>2, <2>1
<1> HIDE DEF P
<1>4. CASE P = {}
  <2>1. TrimSpace(t) = <<>>
    BY <1>1, <1>4
  <2>2. <<>> \in Seq(Char)
    OBVIOUS
  <2>3. ~ (t # <<>> /\ \A i \in 1 .. Len(t) : t[i] # " ")
    BY <1>3, <1>4
  <2> QED
    BY <2>1, <2>2, <2>3
<1>5. CASE P # {}
  <2>1. /\ Min(P) \in P /\ \A i \in P : Min(P) <= i
        /\ Max(P) \in P /\ \A i \in P : i <= Max(P)
    BY <1>2, <1>5, Ends
  <2> DEFINE l == Min(P)
             h == Max(P)
  <2>2. l \in 1 .. Len(t) /\ h \in 1 .. Len(t)
    BY <1>2, <2>1
  <2>3. 1 \in P /\ Len(t) \in P => l = 1 /\ h = Len(t)
    <3>1. 1 \in P /\ Len(t) \in P => l <= 1 /\ Len(t) <= h
      BY <2>1
    <3> HIDE DEF l, h
    <3>2. l <= 1 => l = 1
      BY <2>2
    <3>3. Len(t) <= h => h = Len(t)
      <4>1. Len(t) \in Int
        OBVIOUS
      <4>2. h \in Int /\ h <= Len(t)
        BY <2>2, <4>1
      <4> QED
        BY <4>1, <4>2
    <3> QED
      BY <3>1, <3>2, <3>3
  <2>4. TrimSpace(t) = SubSeq(t, l, h)
    BY <1>1, <1>5
  <2> HIDE DEF l, h
  <2>5. SubSeq(t, l, h) \in Seq(Char) /\ SubSeq(t, 1, Len(t)) = t
    <3>1. SubSeq(t, 1, Len(t)) = t
      OBVIOUS
    <3>2. SubSeq(t, l, h) \in Seq(Char)
      BY <2>2
    <3> QED
      BY <3>1, <3>2
  <2> QED
    BY <1>3, <2>3, <2>4, <2>5
<1> QED
  BY <1>4, <1>5

(* The entries of a filter are texts; a text of digits, colons and dashes  *)
(* is its only entry.                                                      *)
LEMMA Parts ==
  ASSUME NEW t \in Seq(Char)
  PROVE  /\ splitFilter(t) \subseteq Seq(Char)
         /\ t # <<>> /\ (\A j \in 1 .. Len(t) : t[j] \in Hexits \cup {":", "-"})
              => splitFilter(t) = {t}
<1>1. \A p \in ToSet(Split(t, ",")) : p \in Seq(Char)
  BY PartTypes
<1>2. splitFilter(t) \subseteq Seq(Char)
  BY <1>1, Trimmed DEF splitFilter
<1>3. ASSUME t # <<>>, \A j \in 1 .. Len(t) : t[j] \in Hexits \cup {":", "-"}
      PROVE  splitFilter(t) = {t}
  <2>1. \A j \in 1 .. Len(t) : t[j] # "," /\ t[j] # " "
    BY <1>3, Characters
  <2>2. ToSet(Split(t, ",")) = {t}
    BY <2>1, WholeSplit
  <2>3. TrimSpace(t) = t
    BY <1>3, <2>1, Trimmed
  <2> QED
    BY <1>3, <2>2, <2>3 DEF splitFilter
<1> QED
  BY <1>2, <1>3

-----------------------------------------------------------------------------
(* Both ways of reading are functions of the text that was given.          *)
TextInv ==
  \/ text = Nothing /\ target = Nothing
  \/ /\ text \in Text
     /\ filter = normaliseFilter(splitFilter(text)) /\ target = parseAddr(text)

LEMMA TextInvariance == TextSpec => []TextInv
<1>1. TextInit => TextInv
  BY DEF TextInit, TextInv
<1>2. TextInv /\ [TextNext]_textVars => TextInv'
  BY DEF TextInv, TextNext, Give, textVars
<1> QED
  BY <1>1, <1>2, PTL DEF TextSpec

(* The bound on the length of a text plays no part in what follows.        *)
LEMMA Texts == Text \subseteq Seq(Char)
<1> SUFFICES ASSUME NEW t \in Text PROVE t \in Seq(Char)
  OBVIOUS
<1>1. PICK n \in 0 .. MaxText : t \in [1 .. n -> Char]
  BY DEF Text
<1>2. n \in Nat
  <2>1. MaxText \in Nat
    BY TextAssumption
  <2> QED
    BY <2>1
<1> QED
  BY <1>1, <1>2

(* What a filter admits, entry by entry.                                   *)
LEMMA EntryMeans ==
  ASSUME NEW p \in Seq(Char), NEW a \in Addr, NEW k \in 1 .. NumOctets,
         NEW o \in [1 .. k -> Octet], Spells(p, o)
  PROVE  IsPrefix(normaliseAddr(p), normaliseAddr(FormatAddr(a))) <=> IsPrefix(o, a)
<1>1. /\ k \in Nat \ {0} /\ NumOctets \in Nat \ {0} /\ k <= NumOctets
  <2>1. NumOctets \in Nat \ {0}
    BY Characters
  <2> QED
    BY <2>1
<1>2. a \in [1 .. NumOctets -> Octet]
  BY DEF Addr
<1>3. Plain(normaliseAddr(p), o, k)
  BY <1>1, SpellsPlain
<1>4. Plain(normaliseAddr(FormatAddr(a)), a, NumOctets)
  BY <1>1, <1>2, Formatted, SpellsPlain
<1>5. normaliseAddr(p) \in Seq(Char) /\ normaliseAddr(FormatAddr(a)) \in Seq(Char)
  BY Normal, Formatted
<1> QED
  BY <1>1, <1>2, <1>3, <1>4, <1>5, PlainPrefix

(* A valid entry spells octets, and nothing else is valid.                 *)
LEMMA ValidSpells ==
  ASSUME NEW p \in Seq(Char)
  PROVE  validFilterEntry(normaliseAddr(p))
           <=> \E k \in 1 .. NumOctets : \E o \in [1 .. k -> Octet] : Spells(p, o)
<1> DEFINE s == normaliseAddr(p)
<1>1. s \in Seq(Char) /\ NumOctets \in Nat
  BY Normal, Characters
<1>2. \A k \in 1 .. NumOctets : k \in Nat \ {0}
  BY <1>1
<1>3. ASSUME NEW k \in 1 .. NumOctets, DigitPairs(s, k)
      PROVE  \E o \in [1 .. k -> Octet] : Spells(p, o)
  <2> DEFINE o == [i \in 1 .. k |-> 16 * Digit[s[3 * i - 2]] + Digit[s[3 * i - 1]]]
  <2>1. \A i \in 1 .. k : s[3 * i - 2] \in Hexits /\ s[3 * i - 1] \in Hexits
    BY <1>3 DEF DigitPairs
  <2>2. o \in [1 .. k -> Octet]
    <3>1. \A c, d \in Hexits : 16 * Digit[c] + Digit[d] \in Octet
      BY DEF Octet, Hexits
    <3> HIDE DEF s
    <3> QED
      BY <2>1, <3>1
  <2>3. \A i \in 1 .. k : o[i] = 16 * Digit[s[3 * i - 2]] + Digit[s[3 * i - 1]]
    OBVIOUS
  <2> HIDE DEF o
  <2>4. ASSUME NEW j \in 1 .. Len(p), s[j] \in Hexits
        PROVE  Upper[s[j]] = s[j]
    <3>1. p[j] \in Hexits /\ s[j] = Upper[p[j]]
      BY <2>4, Normal
    <3> QED
      BY <3>1, Characters
  <2>5. Len(p) = 3 * k - 1
    BY <1>3, Normal DEF DigitPairs, Pairs
  <2>6. \A i \in 1 .. k : 3 * i - 2 \in 1 .. Len(p) /\ 3 * i - 1 \in 1 .. Len(p)
    BY <1>2, <2>5, Columns
  <2>7. Plain(s, o, k)
    <3> HIDE DEF s
    <3>1. \A i \in 1 .. k : /\ 16 * Digit[s[3 * i - 2]] + Digit[s[3 * i - 1]] = o[i]
                            /\ Upper[s[3 * i - 2]] = s[3 * i - 2]
                            /\ Upper[s[3 * i - 1]] = s[3 * i - 1]
      BY <2>1, <2>3, <2>4, <2>6
    <3> QED
      BY <1>3, <3>1 DEF Plain
  <2>8. Spells(p, o)
    BY <1>2, <2>2, <2>7, SpellsPlain
  <2> QED
    BY <2>2, <2>8
<1>4. ASSUME NEW k \in 1 .. NumOctets, NEW o \in [1 .. k -> Octet], Spells(p, o)
      PROVE  DigitPairs(s, k)
  BY <1>2, <1>4, SpellsPlain DEF Plain
<1>5. validFilterEntry(s) <=> \E k \in 1 .. NumOctets : DigitPairs(s, k)
  BY <1>1, ValidEntry
<1> HIDE DEF s
<1>6. validFilterEntry(s)
        <=> \E k \in 1 .. NumOctets : \E o \in [1 .. k -> Octet] : Spells(p, o)
  BY <1>3, <1>4, <1>5
<1> QED
  BY <1>6 DEF s

(* An entry spells octets that the filter means if it spells any.          *)
LEMMA MeantOf ==
  ASSUME NEW parts, NEW p \in parts
  PROVE  /\ (\E o \in Meant(parts) : Spells(p, o))
              <=> \E k \in 1 .. NumOctets : \E o \in [1 .. k -> Octet] : Spells(p, o)
BY DEF Meant

(* For addresses of every length, texts of every length and every set of   *)
(* characters, a filter is accepted if and only if each of its entries     *)
(* spells octets, and it admits the addresses that begin with these.       *)
THEOREM FiltersMeanOctets == TextSpec => []FilterMeansOctets
<1>1. ASSUME TextInv, text # Nothing
      PROVE  LET parts == splitFilter(text)
                 meant == Meant(parts)
             IN  /\ ~filter.error <=> \A p \in parts : \E o \in meant : Spells(p, o)
                 /\ ~filter.error => \A a \in Addr :
                      matchFilter(filter.entries, FormatAddr(a)) <=> \E o \in meant : IsPrefix(o, a)
  <2> DEFINE parts == splitFilter(text)
             meant == Meant(parts)
  <2>1. parts \subseteq Seq(Char) /\ filter = normaliseFilter(parts)
    BY <1>1, Texts, Parts DEF TextInv
  <2> HIDE DEF parts
  <2>2. /\ filter.error = ~ \A p \in parts : validFilterEntry(normaliseAddr(p))
        /\ ~filter.error => filter.entries = {normaliseAddr(p) : p \in parts}
    BY <2>1 DEF normaliseFilter
  <2>3. ASSUME NEW p \in parts
        PROVE  validFilterEntry(normaliseAddr(p)) <=> \E o \in meant : Spells(p, o)
    BY <2>1, ValidSpells, MeantOf
  <2>4. ~filter.error <=> \A p \in parts : \E o \in meant : Spells(p, o)
    BY <2>2, <2>3
  <2>5. ASSUME ~filter.error, NEW a \in Addr
        PROVE  matchFilter(filter.entries, FormatAddr(a)) <=> \E o \in meant : IsPrefix(o, a)
    <3> DEFINE f == normaliseAddr(FormatAddr(a))
    <3>1. matchFilter(filter.entries, FormatAddr(a))
            <=> \E p \in parts : IsPrefix(normaliseAddr(p), f)
      BY <2>2, <2>5 DEF matchFilter
    <3>2. ASSUME NEW p \in parts, NEW o \in meant, Spells(p, o)
          PROVE  IsPrefix(normaliseAddr(p), f) <=> IsPrefix(o, a)
      <4>1. PICK k \in 1 .. NumOctets : o \in [1 .. k -> Octet]
        BY DEF Meant
      <4>2. p \in Seq(Char)
        BY <2>1
      <4> QED
        BY <3>2, <4>1, <4>2, EntryMeans
    <3>3. \A o \in meant : \E p \in parts : Spells(p, o)
      BY DEF Meant
    <3> HIDE DEF meant, f
    <3> QED
      BY <2>4, <2>5, <3>1, <3>2, <3>3
  <2> QED
    BY <2>4, <2>5 DEF parts
<1>2. TextInv => FilterMeansOctets
  BY <1>1 DEF FilterMeansOctets
<1> QED
  BY <1>2, TextInvariance, PTL

-----------------------------------------------------------------------------
(* Among full addresses, a prefix is the whole.                            *)
LEMMA PrefixOfFull ==
  ASSUME NEW a \in Addr, NEW b \in Addr
  PROVE  IsPrefix(b, a) <=> a = b
<1>1. NumOctets \in Nat
  BY Characters
<1>2. a \in [1 .. NumOctets -> Octet] /\ b \in [1 .. NumOctets -> Octet]
  BY DEF Addr
<1>3. a \in Seq(Octet) /\ b \in Seq(Octet)
  BY <1>1, <1>2
<1>4. Len(a) = NumOctets /\ Len(b) = NumOctets
  BY <1>1, <1>2, <1>3
<1>5. IsPrefix(b, a) <=> Len(b) <= Len(a) /\ \A i \in 1 .. Len(b) : b[i] = a[i]
  BY <1>3, PrefixMeaning
<1>6. (\A i \in 1 .. NumOctets : b[i] = a[i]) <=> a = b
  <2>1. /\ a = [i \in 1 .. NumOctets |-> a[i]]
        /\ b = [i \in 1 .. NumOctets |-> b[i]]
    BY <1>2
  <2> QED
    BY <2>1
<1> QED
  BY <1>1, <1>4, <1>5, <1>6

(* The text of a full address gives the same device to follow and to       *)
(* filter on, with the type that its top bits say; and a text that is good *)
(* for both never means two devices.                                       *)
THEOREM FollowAgrees == TextSpec => []FollowMeansFilter
<1>0. NumOctets \in Nat \ {0} /\ NumOctets \in 1 .. NumOctets
  <2>1. NumOctets \in Nat \ {0}
    BY Characters
  <2> QED
    BY <2>1
<1>1. ASSUME TextInv, NEW a \in Addr, text # Nothing, Spells(text, a)
      PROVE  target = [octets |-> a, random |-> a[1] \div 64 = 3]
  <2>1. text \in Seq(Char) /\ target = parseAddr(text)
    BY <1>1, Texts DEF TextInv
  <2>2. a \in [1 .. NumOctets -> Octet]
    BY DEF Addr
  <2>3. Plain(normaliseAddr(text), a, NumOctets)
    BY <1>0, <1>1, <2>1, <2>2, SpellsPlain
  <2>4. parseAddr(text) = [octets |-> a, random |-> a[1] >= 192]
    BY <2>1, <2>3, ParsePlain
  <2>5. a[1] \in Nat /\ a[1] < 256
    <3>1. a[1] \in Octet
      BY <1>0, <2>2
    <3> QED
      BY <3>1, Octets
  <2>6. a[1] >= 192 <=> a[1] \div 64 = 3
    BY <2>5
  <2> QED
    BY <2>1, <2>4, <2>6
<1>2. ASSUME TextInv, target # Nothing, ~filter.error, NEW a \in Addr
      PROVE  matchFilter(filter.entries, FormatAddr(a)) <=> a = target.octets
  <2> DEFINE s == normaliseAddr(text)
             f == normaliseAddr(FormatAddr(a))
  <2>1. /\ text \in Seq(Char) /\ target = parseAddr(text)
        /\ filter = normaliseFilter(splitFilter(text))
    BY <1>2, Texts DEF TextInv
  <2>2. /\ Len(Split(s, ":")) = NumOctets /\ text # <<>>
        /\ \A j \in 1 .. Len(text) : text[j] \in Hexits \cup {":", "-"}
    BY <1>2, <2>1, ParsedText
  <2>3. splitFilter(text) = {text}
    BY <2>1, <2>2, Parts
  <2>4. validFilterEntry(s) /\ filter.entries = {s}
    BY <1>2, <2>1, <2>3 DEF normaliseFilter
  <2>5. PICK k \in 1 .. NumOctets : \E o \in [1 .. k -> Octet] : Spells(text, o)
    BY <2>1, <2>4, ValidSpells
  <2>6. PICK o \in [1 .. k -> Octet] : Spells(text, o)
    BY <2>5
  <2>7. k \in Nat \ {0}
    BY <1>0
  <2>8. Plain(s, o, k) /\ s \in Seq(Char)
    BY <2>1, <2>6, <2>7, SpellsPlain, Normal
  <2>9. k = NumOctets
    <3>1. Pairs(s, ":", k)
      BY <2>8 DEF Plain, DigitPairs
    <3> QED
      BY <2>2, <2>8, <3>1, EvenSplit
  <2>10. o \in Addr
    BY <2>9 DEF Addr
  <2>11. target.octets = o
    <3>1. parseAddr(text) = [octets |-> o, random |-> o[1] >= 192]
      BY <2>1, <2>8, <2>9, <2>10, ParsePlain
    <3> QED
      BY <2>1, <3>1
  <2>12. IsPrefix(s, f) <=> IsPrefix(o, a)
    BY <2>1, <2>6, EntryMeans
  <2>13. IsPrefix(o, a) <=> a = o
    BY <2>10, PrefixOfFull
  <2>14. matchFilter(filter.entries, FormatAddr(a)) <=> IsPrefix(s, f)
    BY <2>4 DEF matchFilter
  <2> QED
    BY <2>11, <2>12, <2>13, <2>14
<1>3. TextInv => FollowMeansFilter
  BY <1>1, <1>2 DEF FollowMeansFilter
<1> QED
  BY <1>3, TextInvariance, PTL
=============================================================================
