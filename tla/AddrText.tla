------------------------------ MODULE AddrText ------------------------------
(***************************************************************************)
(* Addresses as text. The same text may be given as a filter (the -filter  *)
(* flag and the tools' lists of addresses and prefixes, packages main,     *)
(* mcpserver and bledata) and as an address to follow (package sniffer).   *)
(* Both must mean the devices whose packets blepdu.FormatAddr spells.      *)
(*                                                                         *)
(* A text is a sequence of characters of which Digit gives the hexadecimal *)
(* value. Besides digits it has separators, commas, blanks and characters  *)
(* that are none of these. An address has NumOctets octets: 6 in the code. *)
(* A filter is the set of its entries: neither their order nor one that is *)
(* given twice makes a difference.                                         *)
(***************************************************************************)
EXTENDS Integers, SequencesExt

CONSTANTS
  Digit,      \* hexadecimal value of the characters that are digits
  Upper,      \* the upper case digit of each digit
  Other,      \* a character without meaning
  NumOctets,  \* octets of an address
  MaxText,    \* bound on the characters of a text
  Nothing     \* no text was given, or no address follows from it

VARIABLES
  text,     \* the text given
  filter,   \* the filter it makes, or an error
  target    \* the octets and type of the address to follow

textVars == <<text, filter, target>>

Char == DOMAIN Digit \cup {":", "-", ",", " ", Other}
Text == UNION {[1..n -> Char] : n \in 0..MaxText}
Octet == {16 * Digit[c] + Digit[d] : c, d \in DOMAIN Digit}
Addr == [1..NumOctets -> Octet]

(* A digit has one upper case form, and a value two forms at most.         *)
ASSUME TextAssumption ==
  /\ Digit \in [DOMAIN Digit -> 0..15] /\ Upper \in [DOMAIN Digit -> DOMAIN Digit]
  /\ \A c, d \in DOMAIN Digit : Upper[c] = Upper[d] <=> Digit[c] = Digit[d]
  /\ \A c \in DOMAIN Digit : Upper[Upper[c]] = Upper[c]
  /\ {":", "-", ",", " ", Other} \cap DOMAIN Digit = {} /\ Other \notin {":", "-", ",", " "}
  /\ NumOctets \in Nat \ {0} /\ MaxText \in Nat

-----------------------------------------------------------------------------
(* The packages strings and strconv.                                       *)

(* Where the parts of t end: before its first character, at each separator *)
(* and after its last character. Cut is the i-th of these places.          *)
Cuts(t, sep) == {0, Len(t) + 1} \cup {i \in DOMAIN t : t[i] = sep}
Cut(t, sep, i) == CHOOSE c \in Cuts(t, sep) : Cardinality({d \in Cuts(t, sep) : d <= c}) = i

Split(t, sep) ==
  [i \in 1 .. Cardinality(Cuts(t, sep)) - 1 |->
     SubSeq(t, Cut(t, sep, i) + 1, Cut(t, sep, i + 1) - 1)]

TrimSpace(t) ==
  LET solid == {i \in DOMAIN t : t[i] # " "}
  IN  IF solid = {} THEN <<>> ELSE SubSeq(t, Min(solid), Max(solid))

AllHex(t) == ToSet(t) \subseteq DOMAIN Digit
ParseUint(t) ==
  LET v[n \in 0..Len(t)] == IF n = 0 THEN 0 ELSE 16 * v[n - 1] + Digit[t[n]]
  IN  v[Len(t)]

-----------------------------------------------------------------------------
(* Blank parts of a list are dropped.                                      *)
splitFilter(t) == {TrimSpace(part) : part \in ToSet(Split(t, ","))} \ {<<>>}

normaliseAddr(t) ==
  [i \in DOMAIN t |-> CASE t[i] = "-" -> ":"
                        [] t[i] \in DOMAIN Digit -> Upper[t[i]]
                        [] OTHER -> t[i]]

(* Faulty variant: the length of the whole is all that is checked.         *)
validFilterEntryLoose(t) ==
  /\ \E k \in 1..NumOctets : Len(t) = 3 * k - 1
  /\ \A part \in ToSet(Split(t, ":")) : AllHex(part)

validFilterEntry(t) ==
  /\ \E k \in 1..NumOctets : Len(t) = 3 * k - 1
  /\ \A part \in ToSet(Split(t, ":")) : Len(part) = 2 /\ AllHex(part)

(* One entry that is not valid makes an error of the whole list.           *)
normaliseFilter(entries) ==
  LET norm == {normaliseAddr(e) : e \in entries}
      valid == \A e \in norm : validFilterEntry(e)
  IN  [entries |-> IF valid THEN norm ELSE {}, error |-> ~valid]

matchFilter(entries, t) == \E e \in entries : IsPrefix(e, normaliseAddr(t))

(* Faulty variant: dashes are not taken, and the type is always public.    *)
parseAddrColons(t) ==
  LET parts == Split(t, ":")
  IN  IF Len(parts) # NumOctets \/ \E p \in ToSet(parts) : Len(p) # 2 \/ ~AllHex(p)
      THEN Nothing
      ELSE [octets |-> [i \in 1..NumOctets |-> ParseUint(parts[i])], random |-> FALSE]

(* ParseUint takes one digit as well as three, up to the value of a byte.  *)
(* The two top bits of the first octet mark a static random address.       *)
parseAddr(t) ==
  LET parts == Split(normaliseAddr(t), ":")
      valid == /\ Len(parts) = NumOctets
               /\ \A p \in ToSet(parts) : p # <<>> /\ AllHex(p) /\ ParseUint(p) < 256
      octets == [i \in 1..NumOctets |-> ParseUint(parts[i])]
  IN  IF valid THEN [octets |-> octets, random |-> octets[1] >= 192] ELSE Nothing

(* Two upper case digits an octet, with colons between them.               *)
FormatAddr(a) ==
  LET Hex(v) == CHOOSE c \in DOMAIN Digit : Digit[c] = v /\ Upper[c] = c
  IN  [i \in 1 .. 3 * NumOctets - 1 |->
         CASE i % 3 = 1 -> Hex(a[(i + 2) \div 3] \div 16)
           [] i % 3 = 2 -> Hex(a[(i + 1) \div 3] % 16)
           [] OTHER -> ":"]

-----------------------------------------------------------------------------
(* SetFilter and Follow, given the same text.                              *)
Give ==
  /\ text = Nothing /\ text' \in Text
  /\ filter' = normaliseFilter(splitFilter(text'))
  /\ target' = parseAddr(text')

TextInit == text = Nothing /\ filter = [entries |-> {}, error |-> FALSE] /\ target = Nothing
TextNext == Give
TextSpec == TextInit /\ [][TextNext]_textVars

-----------------------------------------------------------------------------
(* The reference: a text spells octets with two digits each and a colon or *)
(* a dash between two of them.                                             *)
Spells(t, octets) ==
  /\ Len(t) = 3 * Len(octets) - 1
  /\ \A i \in DOMAIN octets :
       /\ {t[3 * i - 2], t[3 * i - 1]} \subseteq DOMAIN Digit
       /\ 16 * Digit[t[3 * i - 2]] + Digit[t[3 * i - 1]] = octets[i]
       /\ i < Len(octets) => t[3 * i] \in {":", "-"}

(* The octets that the parts of a list spell.                              *)
Meant(parts) ==
  {o \in UNION {[1..k -> Octet] : k \in 1..NumOctets} : \E p \in parts : Spells(p, o)}

(* A filter is accepted if and only if each part spells one octet or more, *)
(* and it admits the addresses of which a part spells the first octets.    *)
FilterMeansOctets ==
  text # Nothing =>
    LET parts == splitFilter(text)
        meant == Meant(parts)
    IN  /\ ~filter.error <=> \A p \in parts : \E o \in meant : Spells(p, o)
        /\ ~filter.error => \A a \in Addr :
             matchFilter(filter.entries, FormatAddr(a)) <=> \E o \in meant : IsPrefix(o, a)

(* The device of a full address is the one device that the same text as a  *)
(* filter admits, and its type follows from its first octet.               *)
FollowMeansFilter ==
  /\ \A a \in Addr : text # Nothing /\ Spells(text, a) =>
       target = [octets |-> a, random |-> a[1] \div 64 = 3]
  /\ target # Nothing /\ ~filter.error => \A a \in Addr :
       matchFilter(filter.entries, FormatAddr(a)) <=> a = target.octets
=============================================================================
