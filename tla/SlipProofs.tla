----------------------------- MODULE SlipProofs -----------------------------
(***************************************************************************)
(* Proofs about Slip, for packets with payloads of every length.           *)
(***************************************************************************)
EXTENDS Slip, WellFoundedInduction, SequenceTheorems, TLAPS

-----------------------------------------------------------------------------
(***************************************************************************)
(* Induction on natural numbers, from the fact that they are well founded. *)
(***************************************************************************)
LEMMA LeastNumber ==
  ASSUME NEW T, T \subseteq Nat, T # {}
  PROVE  \E m \in T : \A k \in T : m <= k
<1> DEFINE R == OpToRel(<, Nat)
<1>1. IsWellFoundedOn(R, Nat)
  BY NatLessThanWellFounded
<1>2. \A k, m \in Nat : k < m => <<k, m>> \in R
  BY DEF OpToRel
<1> HIDE DEF R
<1>3. PICK m \in T : \A k \in T : ~ (<<k, m>> \in R)
  BY <1>1, WFMin
<1>4. ASSUME NEW k \in T
      PROVE  m <= k
  <2>1. k \in Nat /\ m \in Nat
    OBVIOUS
  <2>2. ~ (k < m)
    BY <1>2, <1>3, <2>1
  <2> QED
    BY <2>1, <2>2
<1> QED
  BY <1>4

LEMMA Induction ==
  ASSUME NEW S, 0 \in S, \A n \in Nat : n \in S => n + 1 \in S
  PROVE  Nat \subseteq S
<1>1. SUFFICES ASSUME Nat \ S # {}
               PROVE  FALSE
  OBVIOUS
<1>2. PICK m \in Nat \ S : \A k \in Nat \ S : m <= k
  BY <1>1, LeastNumber
<1>3. m # 0 /\ m - 1 \in Nat /\ m - 1 \notin S
  BY <1>2
<1> QED
  BY <1>2, <1>3

(* Induction over an initial segment.                                      *)
LEMMA SegmentInduction ==
  ASSUME NEW N \in Nat, NEW S, 0 \in S, \A n \in 1..N : n - 1 \in S => n \in S
  PROVE  0..N \subseteq S
<1> DEFINE G == {n \in Nat : n <= N => n \in S}
<1>1. ASSUME NEW n \in Nat, n \in G
      PROVE  n + 1 \in G
  <2>1. CASE n + 1 <= N
    <3>1. n + 1 \in 1..N /\ n <= N /\ n = (n + 1) - 1
      BY <2>1
    <3> QED
      BY <1>1, <3>1
  <2> QED
    BY <2>1
<1>2. Nat \subseteq G
  BY <1>1, Induction
<1> QED
  BY <1>2

(* Two functions that start alike and go on alike are alike.               *)
LEMMA SameLoop ==
  ASSUME NEW N \in Nat, NEW f, NEW g, f[0] = g[0],
         \A n \in 1..N : f[n - 1] = g[n - 1] => f[n] = g[n]
  PROVE  \A n \in 0..N : f[n] = g[n]
<1> DEFINE S == {n \in 0..N : f[n] = g[n]}
<1>1. 0 \in S /\ \A n \in 1..N : n - 1 \in S => n \in S
  OBVIOUS
<1>2. 0..N \subseteq S
  <2> HIDE DEF S
  <2> QED
    BY <1>1, SegmentInduction
<1> QED
  BY <1>2

(* A loop over a sequence has a result at every step: the recursion that   *)
(* defines it has a solution.                                              *)
IsLoop(e, S, base, step, d) ==
  /\ e \in [0..Len(d) -> S]
  /\ e[0] = base /\ \A n \in 1..Len(d) : e[n] = step[e[n - 1]][d[n]]

LEMMA LoopDefined ==
  ASSUME NEW S, NEW T, NEW base \in S, NEW step \in [S -> [T -> S]], NEW d \in Seq(T)
  PROVE  \E e : IsLoop(e, S, base, step, d)
<1> DEFINE Solves(e, k) == e[0] = base /\ \A n \in 1..k : e[n] = step[e[n - 1]][d[n]]
           G == {k \in 0..Len(d) : \E e \in [0..k -> S] : Solves(e, k)}
<1>1. 0 \in G
  <2>1. [n \in 0..0 |-> base] \in [0..0 -> S] /\ Solves([n \in 0..0 |-> base], 0)
    OBVIOUS
  <2> HIDE DEF Solves
  <2>2. \E e \in [0..0 -> S] : Solves(e, 0)
    BY <2>1
  <2> QED
    BY <2>2
<1>2. ASSUME NEW k \in 1..Len(d), k - 1 \in G
      PROVE  k \in G
  <2>1. PICK e \in [0..k - 1 -> S] : Solves(e, k - 1)
    BY <1>2
  <2> DEFINE f == [n \in 0..k |-> IF n = k THEN step[e[k - 1]][d[k]] ELSE e[n]]
  <2>2. step[e[k - 1]][d[k]] \in S
    <3>1. e[k - 1] \in S /\ d[k] \in T
      <4>1. k - 1 \in 0..k - 1 /\ k \in 1..Len(d)
        OBVIOUS
      <4> QED
        BY <2>1, <4>1
    <3> QED
      BY <3>1
  <2>3. f \in [0..k -> S]
    BY <2>2
  <2>4. ASSUME NEW n \in 1..k
        PROVE  f[n] = step[f[n - 1]][d[n]]
    <3>1. n - 1 \in 0..k - 1 /\ f[n - 1] = e[n - 1]
      OBVIOUS
    <3>2. CASE n = k
      BY <3>1, <3>2
    <3>3. CASE n # k
      <4>1. n \in 1..k - 1 /\ f[n] = e[n]
        BY <3>3
      <4> QED
        BY <2>1, <3>1, <4>1
    <3> QED
      BY <3>2, <3>3
  <2>5. f[0] = base
    BY <2>1
  <2>6. Solves(f, k)
    BY <2>4, <2>5
  <2> HIDE DEF f, Solves
  <2>7. \E g \in [0..k -> S] : Solves(g, k)
    BY <2>3, <2>6
  <2> QED
    BY <2>7
<1>3. 0..Len(d) \subseteq G
  <2> HIDE DEF G
  <2>1. Len(d) \in Nat
    OBVIOUS
  <2> QED
    BY <1>1, <1>2, <2>1, SegmentInduction
<1>4. Len(d) \in 0..Len(d)
  OBVIOUS
<1>5. PICK e \in [0..Len(d) -> S] : Solves(e, Len(d))
  BY <1>3, <1>4
<1>6. IsLoop(e, S, base, step, d)
  BY <1>5 DEF IsLoop
<1> QED
  BY <1>6

-----------------------------------------------------------------------------
(***************************************************************************)
(* The decoder.                                                            *)
(***************************************************************************)
State == [esc : BOOLEAN, out : Seq(Byte)]
Start == [esc |-> FALSE, out |-> <<>>]

(* The three escaped bytes and what stands for them.                       *)
LEMMA Escapes ==
  /\ DOMAIN slipEscape = {171, 188, 205}
  /\ slipEscape[171] = 172 /\ slipEscape[188] = 189 /\ slipEscape[205] = 206
  BY DEF slipEscape, slipStart, slipEnd, slipEsc

Meaning(b) == CASE b = 172 -> 171 [] b = 189 -> 188 [] b = 206 -> 205

LEMMA AfterEscCases ==
  ASSUME NEW b \in Byte
  PROVE  AfterEsc(b) = IF b \in {172, 189, 206} THEN <<Meaning(b)>> ELSE <<205, b>>
<1>1. CASE b \in {172, 189, 206}
  <2>1. EscapedBy(b) = {Meaning(b)}
    BY <1>1, Escapes DEF Meaning, EscapedBy
  <2>2. (CHOOSE m \in {Meaning(b)} : TRUE) = Meaning(b)
    OBVIOUS
  <2> QED
    BY <1>1, <2>1, <2>2 DEF AfterEsc
<1>2. CASE b \notin {172, 189, 206}
  <2>1. EscapedBy(b) = {}
    BY <1>2, Escapes DEF EscapedBy
  <2> QED
    BY <1>2, <2>1 DEF AfterEsc, slipEsc
<1> QED
  BY <1>1, <1>2

LEMMA AfterEscType ==
  ASSUME NEW b \in Byte
  PROVE  AfterEsc(b) \in Seq(Byte) /\ Len(AfterEsc(b)) \in {1, 2}
<1>1. CASE b \in {172, 189, 206}
  <2>1. Meaning(b) \in Byte
    BY <1>1 DEF Meaning, Byte
  <2>2. AfterEsc(b) = <<Meaning(b)>>
    BY <1>1, AfterEscCases
  <2> QED
    BY <2>1, <2>2
<1>2. CASE b \notin {172, 189, 206}
  <2>1. 205 \in Byte
    BY DEF Byte
  <2>2. AfterEsc(b) = <<205, b>>
    BY <1>2, AfterEscCases
  <2> QED
    BY <2>1, <2>2
<1> QED
  BY <1>1, <1>2

LEMMA StepType ==
  ASSUME NEW u \in State, NEW b \in Byte
  PROVE  UnescapeByte(u, b) \in State
<1>1. u.out \in Seq(Byte) /\ u.esc \in BOOLEAN
  BY DEF State
<1>2. u.out \o AfterEsc(b) \in Seq(Byte) /\ Append(u.out, b) \in Seq(Byte)
  BY <1>1, AfterEscType
<1> QED
  BY <1>1, <1>2 DEF UnescapeByte, State

(* The decoder over a sequence of bytes is a loop, byte after byte.        *)
Decoding(d) ==
  CHOOSE u : u = [n \in 0..Len(d) |-> IF n = 0 THEN [esc |-> FALSE, out |-> <<>>]
                                      ELSE UnescapeByte(u[n - 1], d[n])]

LEMMA DecodingFacts ==
  ASSUME NEW d \in Seq(Byte)
  PROVE  /\ Unescape(d) = Decoding(d)[Len(d)]
         /\ Decoding(d)[0] = Start
         /\ \A n \in 1..Len(d) : Decoding(d)[n] = UnescapeByte(Decoding(d)[n - 1], d[n])
         /\ \A n \in 0..Len(d) : Decoding(d)[n] \in State
<1> DEFINE step == [u \in State |-> [b \in Byte |-> UnescapeByte(u, b)]]
<1>1. Start \in State /\ step \in [State -> [Byte -> State]]
  BY StepType DEF Start, State
<1> HIDE DEF step
<1>9. PICK e : IsLoop(e, State, Start, step, d)
  BY <1>1, LoopDefined
<1>2. /\ e \in [0..Len(d) -> State]
      /\ e[0] = Start /\ \A n \in 1..Len(d) : e[n] = step[e[n - 1]][d[n]]
  BY <1>9 DEF IsLoop
<1>3. \A n \in 1..Len(d) : e[n] = UnescapeByte(e[n - 1], d[n])
  <2> SUFFICES ASSUME NEW n \in 1..Len(d)
               PROVE  e[n] = UnescapeByte(e[n - 1], d[n])
    OBVIOUS
  <2>1. n - 1 \in 0..Len(d) /\ d[n] \in Byte
    OBVIOUS
  <2>2. e[n - 1] \in State
    BY <1>2, <2>1
  <2> QED
    BY <1>2, <2>1, <2>2 DEF step
<1>4. e = [n \in 0..Len(d) |-> IF n = 0 THEN [esc |-> FALSE, out |-> <<>>]
                                 ELSE UnescapeByte(e[n - 1], d[n])]
  BY <1>2, <1>3 DEF Start
<1>5. Decoding(d) = [n \in 0..Len(d) |-> IF n = 0 THEN [esc |-> FALSE, out |-> <<>>]
                                 ELSE UnescapeByte(Decoding(d)[n - 1], d[n])]
  BY <1>4 DEF Decoding
<1>6. Unescape(d) = Decoding(d)[Len(d)]
  BY DEF Unescape, Decoding
<1> DEFINE u == Decoding(d)
<1>7. u[0] = Start /\ \A n \in 1..Len(d) : u[n] = UnescapeByte(u[n - 1], d[n])
  <2>1. u = [n \in 0..Len(d) |-> IF n = 0 THEN [esc |-> FALSE, out |-> <<>>]
                                ELSE UnescapeByte(u[n - 1], d[n])]
    BY <1>5
  <2> HIDE DEF u
  <2>2. 0 \in 0..Len(d) /\ \A n \in 1..Len(d) : n \in 0..Len(d) /\ n # 0
    OBVIOUS
  <2> QED
    BY <2>1, <2>2 DEF Start
<1>8. \A n \in 0..Len(d) : u[n] = e[n]
  <2> HIDE DEF u
  <2>1. u[0] = e[0] /\ \A n \in 1..Len(d) : u[n - 1] = e[n - 1] => u[n] = e[n]
    BY <1>2, <1>3, <1>7
  <2>2. Len(d) \in Nat
    OBVIOUS
  <2> QED
    BY <2>1, <2>2, SameLoop
<1> QED
  BY <1>2, <1>6, <1>7, <1>8

LEMMA UnescapeType ==
  ASSUME NEW d \in Seq(Byte)
  PROVE  Unescape(d) \in State
<1>1. Len(d) \in 0..Len(d)
  OBVIOUS
<1> QED
  BY <1>1, DecodingFacts

LEMMA UnescapeEmpty == Unescape(<<>>) = Start
<1>1. <<>> \in Seq(Byte) /\ Len(<<>>) = 0
  OBVIOUS
<1> QED
  BY <1>1, DecodingFacts

LEMMA UnescapeAppend ==
  ASSUME NEW d \in Seq(Byte), NEW b \in Byte
  PROVE  Unescape(Append(d, b)) = UnescapeByte(Unescape(d), b)
<1> DEFINE db == Append(d, b)
           u == Decoding(d)
           v == Decoding(db)
<1>1. /\ db \in Seq(Byte) /\ Len(db) = Len(d) + 1 /\ db[Len(d) + 1] = b
      /\ \A n \in 1..Len(d) : db[n] = d[n]
      /\ Len(d) \in Nat
  OBVIOUS
<1>2. /\ u[0] = Start /\ Unescape(d) = u[Len(d)]
      /\ \A n \in 1..Len(d) : u[n] = UnescapeByte(u[n - 1], d[n])
  BY DecodingFacts
<1>3. /\ v[0] = Start /\ Unescape(db) = v[Len(d) + 1]
      /\ \A n \in 1..Len(d) + 1 : v[n] = UnescapeByte(v[n - 1], db[n])
  <2> HIDE DEF db
  <2> QED
    BY <1>1, DecodingFacts
<1> HIDE DEF u, v, db
<1>4. \A n \in 0..Len(d) : u[n] = v[n]
  <2>1. u[0] = v[0] /\ \A n \in 1..Len(d) : u[n - 1] = v[n - 1] => u[n] = v[n]
    BY <1>1, <1>2, <1>3
  <2>2. Len(d) \in Nat
    BY <1>1
  <2> QED
    BY <2>1, <2>2, SameLoop
<1>5. v[Len(d) + 1] = UnescapeByte(v[Len(d)], b)
  BY <1>1, <1>3
<1>6. Len(d) \in 0..Len(d)
  BY <1>1
<1>7. Unescape(db) = UnescapeByte(Unescape(d), b)
  BY <1>2, <1>3, <1>4, <1>5, <1>6
<1> QED
  BY <1>7 DEF db

-----------------------------------------------------------------------------
(***************************************************************************)
(* The encoder, and that the decoder undoes it.                            *)
(***************************************************************************)
Plain == Byte \ {171, 188}

LEMMA EscapeByteCases ==
  ASSUME NEW b \in Byte
  PROVE  EscapeByte(b) = CASE b = 171 -> <<205, 172>>
                           [] b = 188 -> <<205, 189>>
                           [] b = 205 -> <<205, 206>>
                           [] OTHER -> <<b>>
  BY Escapes DEF EscapeByte, slipEsc

LEMMA EscapeByteType ==
  ASSUME NEW b \in Byte
  PROVE  EscapeByte(b) \in Seq(Plain)
<1>1. {205, 172, 189, 206} \subseteq Plain
  BY DEF Plain, Byte
<1>2. CASE b \in {171, 188, 205}
  <2>1. PICK c \in Plain : EscapeByte(b) = <<205, c>>
    BY <1>1, <1>2, EscapeByteCases
  <2>2. 205 \in Plain
    BY <1>1
  <2> QED
    BY <2>1, <2>2
<1>3. CASE b \notin {171, 188, 205}
  <2>1. b \in Plain /\ EscapeByte(b) = <<b>>
    BY <1>3, EscapeByteCases DEF Plain
  <2> QED
    BY <2>1
<1> QED
  BY <1>2, <1>3

(* What is encoded is decoded, in any state between two bytes.             *)
LEMMA UnescapeEscapeByte ==
  ASSUME NEW s \in Seq(Byte), NEW b \in Byte, Unescape(s).esc = FALSE
  PROVE  Unescape(s \o EscapeByte(b)) =
           [esc |-> FALSE, out |-> Append(Unescape(s).out, b)]
<1> DEFINE u == Unescape(s)
<1>1. u \in State /\ ~u.esc
  BY UnescapeType
<1> HIDE DEF u
<1>2. CASE b \in {171, 188, 205}
  <2> DEFINE c == CASE b = 171 -> 172 [] b = 188 -> 189 [] b = 205 -> 206
  <2>1. c \in {172, 189, 206} /\ c \in Byte /\ 205 \in Byte /\ Meaning(c) = b
    BY <1>2 DEF Byte, Meaning
  <2>2. EscapeByte(b) = <<205, c>>
    BY <1>2, EscapeByteCases
  <2> HIDE DEF c
  <2>3. s \o <<205, c>> = Append(Append(s, 205), c) /\ Append(s, 205) \in Seq(Byte)
    BY <2>1
  <2>4. Unescape(Append(s, 205)) = [esc |-> TRUE, out |-> u.out]
    <3>1. UnescapeByte(u, 205) = [esc |-> TRUE, out |-> u.out]
      BY <1>1 DEF UnescapeByte, slipEsc
    <3> QED
      BY <2>1, <3>1, UnescapeAppend DEF u
  <2>5. UnescapeByte([esc |-> TRUE, out |-> u.out], c) =
          [esc |-> FALSE, out |-> u.out \o <<b>>]
    BY <2>1, AfterEscCases DEF UnescapeByte
  <2>6. u.out \o <<b>> = Append(u.out, b)
    BY <1>1 DEF State
  <2>7. Unescape(Append(Append(s, 205), c)) =
          UnescapeByte(Unescape(Append(s, 205)), c)
    <3> DEFINE t == Append(s, 205)
    <3>1. t \in Seq(Byte) /\ c \in Byte
      BY <2>1, <2>3
    <3> HIDE DEF t
    <3>2. Unescape(Append(t, c)) = UnescapeByte(Unescape(t), c)
      BY <3>1, UnescapeAppend
    <3> QED
      BY <3>2 DEF t
  <2> QED
    BY <2>2, <2>3, <2>4, <2>5, <2>6, <2>7 DEF u
<1>3. CASE b \notin {171, 188, 205}
  <2>1. EscapeByte(b) = <<b>> /\ s \o <<b>> = Append(s, b)
    BY <1>3, EscapeByteCases
  <2>2. UnescapeByte(u, b) = [esc |-> FALSE, out |-> Append(u.out, b)]
    BY <1>1, <1>3 DEF UnescapeByte, slipEsc
  <2> QED
    BY <2>1, <2>2, UnescapeAppend DEF u
<1> QED
  BY <1>2, <1>3

Encoding(d) ==
  CHOOSE out : out = [n \in 0..Len(d) |-> IF n = 0 THEN <<>>
                                          ELSE out[n - 1] \o EscapeByte(d[n])]

LEMMA EncodingFacts ==
  ASSUME NEW d \in Seq(Byte)
  PROVE  /\ Escape(d) = Encoding(d)[Len(d)]
         /\ Encoding(d)[0] = <<>>
         /\ \A n \in 1..Len(d) : Encoding(d)[n] = Encoding(d)[n - 1] \o EscapeByte(d[n])
         /\ \A n \in 0..Len(d) : Encoding(d)[n] \in Seq(Plain)
<1> DEFINE step == [s \in Seq(Plain) |-> [b \in Byte |-> s \o EscapeByte(b)]]
<1>1. <<>> \in Seq(Plain) /\ step \in [Seq(Plain) -> [Byte -> Seq(Plain)]]
  BY EscapeByteType
<1> HIDE DEF step
<1>2. PICK e : IsLoop(e, Seq(Plain), <<>>, step, d)
  BY <1>1, LoopDefined
<1>3. /\ e \in [0..Len(d) -> Seq(Plain)]
      /\ e[0] = <<>> /\ \A n \in 1..Len(d) : e[n] = step[e[n - 1]][d[n]]
  BY <1>2 DEF IsLoop
<1>4. ASSUME NEW n \in 1..Len(d)
      PROVE  e[n] = e[n - 1] \o EscapeByte(d[n])
  <2>1. n - 1 \in 0..Len(d) /\ d[n] \in Byte
    OBVIOUS
  <2>2. e[n - 1] \in Seq(Plain)
    BY <1>3, <2>1
  <2> QED
    BY <1>3, <2>1, <2>2 DEF step
<1>5. e = [n \in 0..Len(d) |-> IF n = 0 THEN <<>> ELSE e[n - 1] \o EscapeByte(d[n])]
  <2>1. ASSUME NEW n \in 0..Len(d)
        PROVE  e[n] = IF n = 0 THEN <<>> ELSE e[n - 1] \o EscapeByte(d[n])
    <3>1. CASE n = 0
      BY <1>3, <3>1
    <3>2. CASE n # 0
      <4>1. n \in 1..Len(d)
        BY <3>2
      <4>2. e[n] = e[n - 1] \o EscapeByte(d[n])
        BY <1>4, <4>1
      <4> QED
        BY <3>2, <4>2
    <3> QED
      BY <3>1, <3>2
  <2>2. e = [n \in 0..Len(d) |-> e[n]]
    BY <1>3
  <2> QED
    BY <2>1, <2>2
<1> DEFINE o == Encoding(d)
<1>6. o = [n \in 0..Len(d) |-> IF n = 0 THEN <<>> ELSE o[n - 1] \o EscapeByte(d[n])]
  BY <1>5 DEF Encoding
<1>7. Escape(d) = o[Len(d)]
  BY DEF Escape, Encoding
<1> HIDE DEF o
<1>8. o[0] = <<>> /\ \A n \in 1..Len(d) : o[n] = o[n - 1] \o EscapeByte(d[n])
  <2>1. 0 \in 0..Len(d) /\ \A n \in 1..Len(d) : n \in 0..Len(d) /\ n # 0
    OBVIOUS
  <2> QED
    BY <1>6, <2>1
<1>9. \A n \in 0..Len(d) : o[n] = e[n]
  <2>1. o[0] = e[0] /\ \A n \in 1..Len(d) : o[n - 1] = e[n - 1] => o[n] = e[n]
    BY <1>3, <1>4, <1>8
  <2>2. Len(d) \in Nat
    OBVIOUS
  <2> QED
    BY <2>1, <2>2, SameLoop
<1>10. \A n \in 0..Len(d) : o[n] \in Seq(Plain)
  BY <1>3, <1>9
<1> QED
  BY <1>7, <1>8, <1>10 DEF o

(* An encoded frame has neither start nor end byte in it.                  *)
LEMMA EscapeType ==
  ASSUME NEW d \in Seq(Byte)
  PROVE  Escape(d) \in Seq(Plain)
<1>1. Len(d) \in 0..Len(d)
  OBVIOUS
<1> QED
  BY <1>1, EncodingFacts

(* slipUnescape undoes the escapes of slipEncode, whatever the bytes.      *)
THEOREM RoundTrip ==
  ASSUME NEW d \in Seq(Byte)
  PROVE  Unescape(Escape(d)) = [esc |-> FALSE, out |-> d]
<1> DEFINE o == Encoding(d)
           G == {n \in 0..Len(d) : Unescape(o[n]) = [esc |-> FALSE, out |-> SubSeq(d, 1, n)]}
<1>1. /\ o[0] = <<>> /\ Escape(d) = o[Len(d)]
      /\ \A n \in 1..Len(d) : o[n] = o[n - 1] \o EscapeByte(d[n])
      /\ \A n \in 0..Len(d) : o[n] \in Seq(Byte)
  <2>1. \A n \in 0..Len(d) : o[n] \in Seq(Plain)
    BY EncodingFacts
  <2>2. Seq(Plain) \subseteq Seq(Byte)
    BY DEF Plain
  <2> QED
    BY <2>1, <2>2, EncodingFacts
<1> HIDE DEF o
<1>2. 0 \in G
  <2>1. SubSeq(d, 1, 0) = <<>> /\ 0 \in 0..Len(d)
    OBVIOUS
  <2>2. Unescape(o[0]) = [esc |-> FALSE, out |-> <<>>]
    BY <1>1, UnescapeEmpty DEF Start
  <2> QED
    BY <2>1, <2>2
<1>3. ASSUME NEW n \in 1..Len(d), n - 1 \in G
      PROVE  n \in G
  <2>1. n - 1 \in 0..Len(d) /\ d[n] \in Byte /\ o[n - 1] \in Seq(Byte)
    BY <1>1
  <2>2. Unescape(o[n - 1]) = [esc |-> FALSE, out |-> SubSeq(d, 1, n - 1)]
    BY <1>3
  <2>3. Unescape(o[n]) = [esc |-> FALSE, out |-> Append(SubSeq(d, 1, n - 1), d[n])]
    <3> DEFINE s == o[n - 1]
               b == d[n]
    <3>1. s \in Seq(Byte) /\ b \in Byte /\ Unescape(s).esc = FALSE
      BY <2>1, <2>2
    <3>2. Unescape(s \o EscapeByte(b)) = [esc |-> FALSE, out |-> Append(Unescape(s).out, b)]
      <4> HIDE DEF s, b
      <4> QED
        BY <3>1, UnescapeEscapeByte
    <3>3. o[n] = s \o EscapeByte(b)
      BY <1>1
    <3> QED
      BY <2>2, <3>2, <3>3
  <2>4. Append(SubSeq(d, 1, n - 1), d[n]) = SubSeq(d, 1, n)
    OBVIOUS
  <2>5. n \in 0..Len(d)
    OBVIOUS
  <2>6. Unescape(o[n]) = [esc |-> FALSE, out |-> SubSeq(d, 1, n)]
    BY <2>3, <2>4
  <2> QED
    BY <2>5, <2>6
<1>4. Len(d) \in G
  <2>1. Len(d) \in Nat
    OBVIOUS
  <2> HIDE DEF G
  <2>2. 0..Len(d) \subseteq G
    BY <1>2, <1>3, <2>1, SegmentInduction
  <2> QED
    BY <2>1, <2>2
<1>5. SubSeq(d, 1, Len(d)) = d
  OBVIOUS
<1> QED
  BY <1>1, <1>4, <1>5

-----------------------------------------------------------------------------
(***************************************************************************)
(* Headers. parsePacket undoes what the dongle builds, also when more      *)
(* bytes follow, and takes nothing that is shorter than it says.           *)
(***************************************************************************)
LEMMA Concat ==
  ASSUME NEW s \in Seq(Byte), NEW t \in Seq(Byte)
  PROVE  /\ s \o t \in Seq(Byte) /\ Len(s \o t) = Len(s) + Len(t)
         /\ \A i \in 1..Len(s) : (s \o t)[i] = s[i]
         /\ \A i \in 1..Len(t) : (s \o t)[Len(s) + i] = t[i]
  OBVIOUS

LEMMA ConcatThree ==
  ASSUME NEW h \in Seq(Byte), NEW y \in Seq(Byte), NEW r \in Seq(Byte)
  PROVE  LET d == (h \o y) \o r IN
           /\ d \in Seq(Byte) /\ Len(d) = Len(h) + Len(y) + Len(r)
           /\ \A i \in 1..Len(h) : d[i] = h[i]
           /\ \A i \in 1..Len(y) : d[Len(h) + i] = y[i]
<1> DEFINE hy == h \o y
<1>1. hy \in Seq(Byte)
  OBVIOUS
<1>2. /\ Len(hy) = Len(h) + Len(y)
      /\ \A i \in 1..Len(h) : hy[i] = h[i]
      /\ \A i \in 1..Len(y) : hy[Len(h) + i] = y[i]
  OBVIOUS
<1> HIDE DEF hy
<1> DEFINE d == hy \o r
<1>3. d \in Seq(Byte) /\ Len(d) = Len(hy) + Len(r)
         /\ \A i \in 1..Len(hy) : d[i] = hy[i]
  BY <1>1
<1>4. d = (h \o y) \o r
  BY DEF hy
<1> HIDE DEF d
<1>5. Len(d) = Len(h) + Len(y) + Len(r)
  BY <1>2, <1>3
<1>6. /\ \A i \in 1..Len(h) : d[i] = h[i]
      /\ \A i \in 1..Len(y) : d[Len(h) + i] = y[i]
  BY <1>2, <1>3
<1> QED
  BY <1>3, <1>4, <1>5, <1>6

LEMMA AfterHeader ==
  ASSUME NEW d \in Seq(Byte), NEW y \in Seq(Byte), Len(d) >= 6 + Len(y),
         \A i \in 1..Len(y) : d[6 + i] = y[i]
  PROVE  SubSeq(d, 7, 6 + Len(y)) = y
  OBVIOUS

LEMMA Quotient ==
  ASSUME NEW n \in Int, n >= 0, n <= 65535
  PROVE  /\ n % 256 \in Int /\ n \div 256 \in Int
         /\ 0 <= n % 256 /\ n % 256 <= 255 /\ 0 <= n \div 256 /\ n \div 256 <= 255
         /\ n = (n % 256) + 256 * (n \div 256)
         /\ n <= 255 => n % 256 = n
<1>1. /\ n = 256 * (n \div 256) + (n % 256) /\ n \div 256 \in Int /\ n % 256 \in Int
      /\ 0 <= n % 256 /\ n % 256 <= 255
  BY SMT
<1>2. ASSUME NEW q \in Int, NEW r \in Int, n = 256 * q + r, r >= 0, r <= 255
      PROVE  q >= 0 /\ q <= 255 /\ (n <= 255 => r = n)
  BY <1>2, SMT
<1>3. 0 <= n \div 256 /\ n \div 256 <= 255 /\ (n <= 255 => n % 256 = n)
  BY <1>1, <1>2, SMT
<1>4. n = (n % 256) + 256 * (n \div 256)
  BY SMT
<1> QED
  BY <1>1, <1>3, <1>4, SMT

LEMMA SmallRemainder ==
  ASSUME NEW q \in Int, q >= 0, q <= 255
  PROVE  q % 256 = q
  BY SMT

LEMMA Bytes ==
  ASSUME NEW n \in Word
  PROVE  /\ Low(n) \in Byte /\ High(n) \in Byte /\ n = Low(n) + 256 * High(n)
         /\ n <= 255 => Low(n) = n
<1>1. n \in Int /\ n >= 0 /\ n <= 65535
  BY SMT DEF Word
<1>2. Low(n) = n % 256
  BY DEF Low
<1>3. High(n) = n \div 256
  BY <1>1, Quotient, SmallRemainder, SMT DEF High
<1>4. Low(n) \in Byte
  BY Quotient, <1>1, <1>2, SMT DEF Byte
<1>5. High(n) \in Byte
  BY Quotient, <1>1, <1>3, SMT DEF Byte
<1> QED
  BY Quotient, <1>1, <1>2, <1>3, <1>4, <1>5, SMT

LEMMA PacketFacts ==
  ASSUME NEW p \in Packet
  PROVE  /\ p.ver \in {1, 3} /\ p.id \in Byte /\ p.counter \in Word
         /\ p.payload \in Seq(Byte) /\ Len(p.payload) \in Word
         /\ p.ver = 1 => Len(p.payload) <= 255
         /\ p = [ver |-> p.ver, counter |-> p.counter, id |-> p.id, payload |-> p.payload]
<1>1. p \in [ver : {1, 3}, id : Byte, counter : Word, payload : Seq(Byte)]
  <2>1. p \in [ver : {protoVerV1, protoVerV3}, id : Byte, counter : Word, payload : Seq(Byte)]
    BY SlipAssumption
  <2> QED
    BY <2>1 DEF protoVerV1, protoVerV3
<1>2. /\ p.ver \in {1, 3} /\ p.id \in Byte /\ p.counter \in Word /\ p.payload \in Seq(Byte)
      /\ p = [ver |-> p.ver, counter |-> p.counter, id |-> p.id, payload |-> p.payload]
  BY <1>1
<1>3. Len(p.payload) \in IF p.ver = protoVerV1 THEN Byte ELSE Word
  BY SlipAssumption
<1>4. ASSUME NEW n \in Byte
      PROVE  n \in Word /\ n <= 255
  <2>1. n \in Word
    BY SMT DEF Byte, Word
  <2>2. n <= 255
    BY SMT DEF Byte
  <2> QED
    BY <2>1, <2>2
<1>5. Len(p.payload) \in Word /\ (p.ver = 1 => Len(p.payload) <= 255)
  BY <1>3, <1>4 DEF protoVerV1
<1> QED
  BY <1>2, <1>5

First(p) == IF p.ver = 1 THEN 6 ELSE Low(Len(p.payload))
Second(p) == IF p.ver = 1 THEN Low(Len(p.payload)) ELSE High(Len(p.payload))

LEMMA HeaderFacts ==
  ASSUME NEW p \in Packet
  PROVE  /\ Header(p) \in Seq(Byte) /\ Len(Header(p)) = 6
         /\ Header(p)[1] = First(p) /\ Header(p)[2] = Second(p) /\ Header(p)[3] = p.ver
         /\ Header(p)[4] = Low(p.counter) /\ Header(p)[5] = High(p.counter)
         /\ Header(p)[6] = p.id
<1> DEFINE n == Len(p.payload)
           a == First(p)
           b == Second(p)
           c == p.ver
           d == Low(p.counter)
           e == High(p.counter)
           f == p.id
<1>1. a \in Byte /\ b \in Byte /\ c \in Byte /\ d \in Byte /\ e \in Byte /\ f \in Byte
  <2>1. 6 \in Byte /\ 1 \in Byte /\ 3 \in Byte
    BY DEF Byte
  <2>2. Low(n) \in Byte /\ High(n) \in Byte
    BY PacketFacts, Bytes
  <2>3. Low(p.counter) \in Byte /\ High(p.counter) \in Byte
    BY PacketFacts, Bytes
  <2> QED
    BY <2>1, <2>2, <2>3, PacketFacts DEF First, Second
<1>2. Header(p) = <<a, b>> \o <<c, d, e, f>>
  <2>1. CASE p.ver = 1
    <3>1. Header(p) = <<6, Low(n)>> \o <<c, d, e, f>>
      BY <2>1 DEF Header, protoVerV1, headerLen
    <3>2. First(p) = 6 /\ Second(p) = Low(n)
      BY <2>1 DEF First, Second
    <3> QED
      BY <3>1, <3>2
  <2>2. CASE p.ver # 1
    <3>1. Header(p) = <<Low(n), High(n)>> \o <<c, d, e, f>>
      BY <2>2 DEF Header, protoVerV1
    <3>2. First(p) = Low(n) /\ Second(p) = High(n)
      BY <2>2 DEF First, Second
    <3> QED
      BY <3>1, <3>2
  <2> QED
    BY <2>1, <2>2
<1> HIDE DEF a, b, c, d, e, f
<1>3. /\ <<a, b>> \in Seq(Byte) /\ Len(<<a, b>>) = 2
      /\ <<c, d, e, f>> \in Seq(Byte) /\ Len(<<c, d, e, f>>) = 4
  BY <1>1
<1> DEFINE h == <<a, b>> \o <<c, d, e, f>>
<1>4. /\ h \in Seq(Byte) /\ Len(h) = 6
      /\ h[1] = a /\ h[2] = b /\ h[3] = c /\ h[4] = d /\ h[5] = e /\ h[6] = f
  BY <1>3
<1>5. h = Header(p)
  BY <1>2
<1> HIDE DEF h
<1> QED
  BY <1>4, <1>5 DEF a, b, c, d, e, f

LEMMA BuildType ==
  ASSUME NEW p \in Packet
  PROVE  Build(p) \in Seq(Byte) /\ Len(Build(p)) = 6 + Len(p.payload)
<1>1. Header(p) \in Seq(Byte) /\ p.payload \in Seq(Byte)
  BY HeaderFacts, PacketFacts
<1>2. Build(p) \in Seq(Byte) /\ Len(Build(p)) = Len(Header(p)) + Len(p.payload)
  BY <1>1, Concat DEF Build
<1> QED
  BY <1>2, HeaderFacts

(* Where the bytes of a packet are once others follow it.                  *)
LEMMA BuiltBytes ==
  ASSUME NEW p \in Packet, NEW r \in Seq(Byte), NEW d, d = Build(p) \o r
  PROVE  /\ d \in Seq(Byte) /\ Len(d) = 6 + Len(p.payload) + Len(r)
         /\ d[1] = First(p) /\ d[2] = Second(p) /\ d[3] = p.ver
         /\ d[4] = Low(p.counter) /\ d[5] = High(p.counter) /\ d[6] = p.id
         /\ SubSeq(d, 7, 6 + Len(p.payload)) = p.payload
<1> DEFINE h == Header(p)
           y == p.payload
<1>1. h \in Seq(Byte) /\ y \in Seq(Byte) /\ d = (h \o y) \o r
  BY HeaderFacts, PacketFacts DEF Build
<1>2. /\ h[1] = First(p) /\ h[2] = Second(p) /\ h[3] = p.ver
      /\ h[4] = Low(p.counter) /\ h[5] = High(p.counter) /\ h[6] = p.id
      /\ Len(h) = 6
  BY HeaderFacts
<1>3. y = p.payload
  OBVIOUS
<1> HIDE DEF h, y
<1>4. /\ d \in Seq(Byte) /\ Len(d) = Len(h) + Len(y) + Len(r)
      /\ \A i \in 1..Len(h) : d[i] = h[i]
      /\ \A i \in 1..Len(y) : d[Len(h) + i] = y[i]
  BY <1>1, ConcatThree
<1>5. /\ Len(d) = 6 + Len(y) + Len(r)
      /\ \A i \in 1..6 : d[i] = h[i]
      /\ \A i \in 1..Len(y) : d[6 + i] = y[i]
  BY <1>2, <1>4
<1>6. Len(d) >= 6 + Len(y)
  <2>1. Len(y) \in Nat /\ Len(r) \in Nat
    BY <1>1
  <2> QED
    BY <1>5, <2>1
<1>7. SubSeq(d, 7, 6 + Len(y)) = y
  BY <1>1, <1>4, <1>5, <1>6, AfterHeader
<1>8. /\ d[1] = h[1] /\ d[2] = h[2] /\ d[3] = h[3]
      /\ d[4] = h[4] /\ d[5] = h[5] /\ d[6] = h[6]
  <2>1. 1 \in 1..6 /\ 2 \in 1..6 /\ 3 \in 1..6 /\ 4 \in 1..6 /\ 5 \in 1..6 /\ 6 \in 1..6
    OBVIOUS
  <2> QED
    BY <1>5, <2>1
<1> QED
  BY <1>2, <1>3, <1>4, <1>5, <1>7, <1>8

(* The payload length that the decoder reads is the one that was built in. *)
LEMMA PayloadLenFacts ==
  ASSUME NEW p \in Packet, NEW d, d[1] = First(p), d[2] = Second(p), d[3] = p.ver
  PROVE  PayloadLen(d) = Len(p.payload)
<1> DEFINE n == Len(p.payload)
<1>1. n \in Word /\ (p.ver = 1 => n <= 255)
  BY PacketFacts
<1> HIDE DEF n
<1>2. n = Low(n) + 256 * High(n) /\ (n <= 255 => Low(n) = n)
  BY <1>1, Bytes
<1>3. CASE p.ver = 1
  <2>1. PayloadLen(d) = d[2] /\ d[2] = Low(n)
    BY <1>3 DEF PayloadLen, protoVerV3, Second, n
  <2> QED
    BY <1>1, <1>2, <1>3, <2>1 DEF n
<1>4. CASE p.ver = 3
  <2>1. PayloadLen(d) = d[1] + 256 * d[2] /\ d[1] = Low(n) /\ d[2] = High(n)
    BY <1>4 DEF PayloadLen, protoVerV3, First, Second, n
  <2> QED
    BY <1>2, <2>1 DEF n
<1> QED
  BY <1>3, <1>4, PacketFacts

LEMMA ParseBuilt ==
  ASSUME NEW p \in Packet, NEW r \in Seq(Byte), NEW d, d = Build(p) \o r
  PROVE  Parses(d) /\ parsePacket(d) = p
<1>1. PayloadLen(d) = Len(p.payload)
  BY BuiltBytes, PayloadLenFacts
<1>2. Parses(d)
  <2>1. Len(d) >= 6 + Len(p.payload) /\ Len(p.payload) \in Nat /\ Len(d) \in Nat
    <3>1. p.payload \in Seq(Byte) /\ Len(p.payload) \in Nat /\ Len(r) \in Nat
      BY PacketFacts
    <3>2. Len(d) = 6 + Len(p.payload) + Len(r)
      BY BuiltBytes
    <3> QED
      BY <3>1, <3>2
  <2>2. d[3] \in {1, 3}
    BY BuiltBytes, PacketFacts
  <2> QED
    BY <1>1, <2>1, <2>2 DEF Parses, headerLen, protoVerV1, protoVerV3
<1>3. d[4] + 256 * d[5] = p.counter
  <2>1. d[4] = Low(p.counter) /\ d[5] = High(p.counter)
    BY BuiltBytes
  <2>2. p.counter = Low(p.counter) + 256 * High(p.counter)
    BY PacketFacts, Bytes
  <2> QED
    BY <2>1, <2>2
<1>4. SubSeq(d, headerLen + 1, headerLen + PayloadLen(d)) = p.payload
  <2>1. SubSeq(d, 7, 6 + Len(p.payload)) = p.payload
    BY BuiltBytes
  <2>2. headerLen + 1 = 7 /\ headerLen + PayloadLen(d) = 6 + Len(p.payload)
    BY <1>1 DEF headerLen
  <2> QED
    BY <2>1, <2>2
<1>5. d[3] = p.ver /\ d[6] = p.id
  BY BuiltBytes
<1>6. parsePacket(d) =
        [ver |-> p.ver, counter |-> p.counter, id |-> p.id, payload |-> p.payload]
  BY <1>3, <1>4, <1>5 DEF parsePacket
<1> QED
  BY <1>2, <1>6, PacketFacts

(* A frame with the version and length of a packet, but fewer bytes.       *)
LEMMA ShortRejected ==
  ASSUME NEW p \in Packet, NEW d \in Seq(Byte), Len(d) < Len(Build(p)),
         \A i \in 1..3 : d[i] = Build(p)[i]
  PROVE  ~Parses(d)
<1>1. Build(p) \o <<>> = Build(p) /\ <<>> \in Seq(Byte)
  BY BuildType
<1>2. d[1] = First(p) /\ d[2] = Second(p) /\ d[3] = p.ver
  <2> DEFINE e == Build(p)
  <2>1. e[1] = First(p) /\ e[2] = Second(p) /\ e[3] = p.ver
    <3>1. e = Build(p) \o <<>>
      BY <1>1
    <3> HIDE DEF e
    <3> QED
      BY <1>1, <3>1, BuiltBytes
  <2>2. d[1] = e[1] /\ d[2] = e[2] /\ d[3] = e[3]
    OBVIOUS
  <2> QED
    BY <2>1, <2>2
<1>3. PayloadLen(d) = Len(p.payload)
  BY <1>2, PayloadLenFacts
<1> QED
  BY <1>3, BuildType DEF Parses, headerLen

-----------------------------------------------------------------------------
(***************************************************************************)
(* The line. A frame under way has not begun to arrive, or its start byte  *)
(* has gone and its escaped bytes are split into those that have gone, pre,*)
(* and those to come, post.                                                *)
(***************************************************************************)
Encoded == Escape(Build(Last(sent)))
Begun(pre, post) == wire = post \o <<188>> /\ Encoded = pre \o post

LEMMA FirstOfRest ==
  ASSUME NEW S, NEW s \in Seq(S), NEW t \in Seq(S), t # <<>>
  PROVE  /\ Head(t) \in S /\ Tail(t) \in Seq(S) /\ Append(s, Head(t)) \in Seq(S)
         /\ t = <<Head(t)>> \o Tail(t)
         /\ s \o t = Append(s, Head(t)) \o Tail(t)
<1> DEFINE b == Head(t)
           r == Tail(t)
<1>1. b \in S /\ r \in Seq(S)
  BY HeadTailProperties
<1>2. t = <<b>> \o r
  OBVIOUS
<1> HIDE DEF b, r
<1>3. <<b>> \in Seq(S) /\ Append(s, b) \in Seq(S) /\ Append(s, b) = s \o <<b>>
  BY <1>1
<1>4. (s \o <<b>>) \o r = s \o (<<b>> \o r)
  BY <1>1, <1>3, ConcatAssociative
<1>5. s \o t = Append(s, b) \o r
  BY <1>2, <1>3, <1>4
<1> QED
  BY <1>1, <1>2, <1>3, <1>5 DEF b, r

LEMMA HeadOfRest ==
  ASSUME NEW S, NEW b \in S, NEW r \in Seq(S)
  PROVE  /\ Head(<<b>> \o r) = b /\ Tail(<<b>> \o r) = r
         /\ <<b>> \o r # <<>> /\ <<b>> \o r \in Seq(S)
  OBVIOUS

LEMMA Enclosed ==
  ASSUME NEW y \in Seq(Byte), NEW b \in Byte, NEW e \in Byte
  PROVE  LET d == (<<b>> \o y) \o <<e>> IN
           /\ d \in Seq(Byte) /\ Len(d) = Len(y) + 2
           /\ d[1] = b /\ d[Len(y) + 2] = e
           /\ \A i \in 1..Len(y) : d[i + 1] = y[i]
<1> DEFINE hy == <<b>> \o y
<1>1. hy \in Seq(Byte)
  OBVIOUS
<1>2. Len(hy) = Len(y) + 1 /\ hy[1] = b /\ \A i \in 1..Len(y) : hy[i + 1] = y[i]
  OBVIOUS
<1> HIDE DEF hy
<1> DEFINE d == hy \o <<e>>
<1>3. /\ d \in Seq(Byte) /\ Len(d) = Len(hy) + 1 /\ d[Len(hy) + 1] = e
      /\ \A i \in 1..Len(hy) : d[i] = hy[i]
  BY <1>1
<1>4. d = (<<b>> \o y) \o <<e>>
  BY DEF hy
<1> HIDE DEF d
<1>5. /\ Len(d) = Len(y) + 2 /\ d[1] = b /\ d[Len(y) + 2] = e
      /\ \A i \in 1..Len(y) : d[i + 1] = y[i]
  <2>1. Len(y) \in Nat
    OBVIOUS
  <2> QED
    BY <1>2, <1>3, <2>1
<1> QED
  BY <1>3, <1>4, <1>5

LEMMA Slice ==
  ASSUME NEW pre \in Seq(Byte), NEW d \in Seq(Byte), Len(d) > Len(pre) + 1,
         \A i \in 1..Len(pre) : d[i + 1] = pre[i]
  PROVE  SubSeq(d, 2, Len(pre) + 1) = pre
  OBVIOUS

LEMMA PlainBytes == /\ Seq(Plain) \subseteq Seq(Byte) /\ Plain \subseteq Byte
                    /\ 171 \in Byte /\ 188 \in Byte /\ 205 \in Byte
  BY DEF Plain, Byte

(* Where the bytes of the frame under way are.                             *)
LEMMA FrameBytes ==
  ASSUME sent \in Seq(Packet), sent # <<>>
  PROVE  /\ Last(sent) \in Packet /\ Encoded \in Seq(Plain)
         /\ slipEncode(Build(Last(sent))) = (<<171>> \o Encoded) \o <<188>>
         /\ LET d == slipEncode(Build(Last(sent))) IN
              /\ d \in Seq(Byte) /\ Len(d) = Len(Encoded) + 2
              /\ d[1] = 171 /\ d[Len(Encoded) + 2] = 188
              /\ \A i \in 1..Len(Encoded) : d[i + 1] = Encoded[i]
<1>1. Last(sent) \in Packet
  BY DEF Last
<1>2. Encoded \in Seq(Plain)
  BY <1>1, BuildType, EscapeType DEF Encoded
<1>3. slipEncode(Build(Last(sent))) = (<<171>> \o Encoded) \o <<188>>
  BY DEF slipEncode, slipStart, slipEnd, Encoded
<1> DEFINE y == Encoded
<1>4. y \in Seq(Byte)
  BY <1>2, PlainBytes
<1> HIDE DEF y
<1> DEFINE d == (<<171>> \o y) \o <<188>>
<1>5. /\ d \in Seq(Byte) /\ Len(d) = Len(y) + 2
      /\ d[1] = 171 /\ d[Len(y) + 2] = 188
      /\ \A i \in 1..Len(y) : d[i + 1] = y[i]
  BY <1>4, PlainBytes, Enclosed
<1> HIDE DEF d
<1>6. d = slipEncode(Build(Last(sent)))
  BY <1>3 DEF d, y
<1> QED
  BY <1>1, <1>2, <1>3, <1>5, <1>6 DEF y

LEMMA AtStart ==
  ASSUME sent \in Seq(Packet), sent # <<>>, wire = slipEncode(Build(Last(sent)))
  PROVE  /\ wire # <<>> /\ Head(wire) = 171 /\ Tail(wire) = Encoded \o <<188>>
         /\ Tail(wire) # <<>> /\ LossKind = "marker"
<1> DEFINE rest == Encoded \o <<188>>
<1>1. Encoded \in Seq(Byte) /\ <<171>> \in Seq(Byte) /\ <<188>> \in Seq(Byte)
  BY FrameBytes, PlainBytes
<1>2. wire = <<171>> \o rest
  BY <1>1, FrameBytes, ConcatAssociative
<1>3. rest \in Seq(Byte) /\ rest # <<>>
  BY <1>1
<1> HIDE DEF rest
<1>4. Head(wire) = 171 /\ Tail(wire) = rest /\ wire # <<>>
  BY <1>2, <1>3, PlainBytes, HeadOfRest
<1>5. LossKind = "marker"
  <2> DEFINE all == slipEncode(Build(Last(sent)))
  <2>1. all \in Seq(Byte) /\ all[1] = 171
    BY FrameBytes
  <2> HIDE DEF all
  <2>2. Len(all) - Len(wire) + 1 = 1
    <3>1. Len(all) \in Nat /\ wire = all
      BY <2>1 DEF all
    <3> QED
      BY <3>1
  <2> QED
    BY <2>1, <2>2 DEF LossKind, all, slipStart, slipEnd
<1> QED
  BY <1>3, <1>4, <1>5 DEF rest

LEMMA AtByte ==
  ASSUME sent \in Seq(Packet), sent # <<>>, NEW pre \in Seq(Plain), NEW post \in Seq(Plain),
         Begun(pre, post), post # <<>>
  PROVE  /\ wire # <<>> /\ Head(wire) = Head(post) /\ Head(post) \in Plain
         /\ Tail(wire) = Tail(post) \o <<188>> /\ Tail(wire) # <<>>
         /\ Append(pre, Head(post)) \in Seq(Plain) /\ Tail(post) \in Seq(Plain)
         /\ Encoded = Append(pre, Head(post)) \o Tail(post)
         /\ LossKind # "marker"
         /\ LossKind = "plain" => /\ Len(slipUnescape(pre)) >= 3 /\ Head(post) # 205
                                  /\ pre # <<>> => pre[Len(pre)] # 205
<1>1. /\ Head(post) \in Plain /\ Tail(post) \in Seq(Plain)
      /\ Append(pre, Head(post)) \in Seq(Plain)
      /\ post = <<Head(post)>> \o Tail(post)
      /\ Encoded = Append(pre, Head(post)) \o Tail(post)
  BY FirstOfRest DEF Begun
<1> DEFINE b == Head(post)
           r == Tail(post) \o <<188>>
<1>2. r \in Seq(Byte) /\ r # <<>> /\ wire = <<b>> \o r
  <2>1. Tail(post) \in Seq(Byte) /\ <<188>> \in Seq(Byte) /\ <<b>> \in Seq(Byte)
    BY <1>1, PlainBytes
  <2> DEFINE t == Tail(post)
  <2>2. wire = (<<b>> \o t) \o <<188>>
    BY <1>1 DEF Begun
  <2> HIDE DEF t
  <2>3. (<<b>> \o t) \o <<188>> = <<b>> \o (t \o <<188>>)
    BY <2>1, ConcatAssociative DEF t
  <2>4. t \o <<188>> \in Seq(Byte) /\ t \o <<188>> # <<>>
    BY <2>1 DEF t
  <2> QED
    BY <2>2, <2>3, <2>4 DEF t
<1>3. wire # <<>> /\ Head(wire) = b /\ Tail(wire) = r
  <2>1. b \in Byte
    BY <1>1, PlainBytes
  <2> HIDE DEF b, r
  <2> QED
    BY <1>2, <2>1, HeadOfRest
<1> DEFINE all == slipEncode(Build(Last(sent)))
           k == Len(pre) + 2
<1>4. /\ all \in Seq(Byte) /\ Len(all) = Len(Encoded) + 2
      /\ \A i \in 1..Len(Encoded) : all[i + 1] = Encoded[i]
      /\ all[1] = 171
  BY FrameBytes
<1>5. /\ Len(Encoded) = Len(pre) + Len(post)
      /\ \A i \in 1..Len(pre) : Encoded[i] = pre[i]
      /\ Encoded[Len(pre) + 1] = b
  <2>1. pre \in Seq(Byte) /\ post \in Seq(Byte) /\ Encoded = pre \o post
    BY PlainBytes DEF Begun
  <2>2. Len(post) >= 1 /\ post[1] = b
    BY <2>1
  <2>3. /\ Len(Encoded) = Len(pre) + Len(post)
        /\ \A i \in 1..Len(pre) : Encoded[i] = pre[i]
        /\ \A i \in 1..Len(post) : Encoded[Len(pre) + i] = post[i]
    BY <2>1, Concat
  <2> QED
    BY <2>2, <2>3
<1>6. Len(wire) = Len(post) + 1
  BY DEF Begun
<1>7. Len(pre) \in Nat /\ Len(post) \in Nat \ {0}
  OBVIOUS
<1> HIDE DEF all, b, r
<1>8. Len(all) - Len(wire) + 1 = k /\ k - 1 = Len(pre) + 1
  BY <1>4, <1>5, <1>6, <1>7
<1>9. all[k] = b
  <2>1. Len(pre) + 1 \in 1..Len(Encoded) /\ k = (Len(pre) + 1) + 1
    BY <1>5, <1>7
  <2> QED
    BY <1>4, <1>5, <2>1
<1>10. SubSeq(all, 2, k - 1) = pre
  <2>1. pre \in Seq(Byte) /\ Len(all) > Len(pre) + 1
    BY <1>4, <1>5, <1>7, PlainBytes
  <2>2. \A i \in 1..Len(pre) : all[i + 1] = pre[i]
    BY <1>4, <1>5, <1>7
  <2> QED
    BY <1>4, <1>8, <2>1, <2>2, Slice
<1>11. pre # <<>> => all[k - 1] = pre[Len(pre)]
  BY <1>4, <1>5, <1>7
<1>12. b \notin {171, 188}
  BY <1>1 DEF b, Plain
<1> HIDE DEF k
<1>13. LossKind = IF Len(slipUnescape(pre)) < 3 \/ 205 \in {b, all[k - 1]} THEN "risky" ELSE "plain"
  BY <1>8, <1>9, <1>10, <1>12 DEF LossKind, all, slipStart, slipEnd, slipEsc
<1>14. Len(slipUnescape(pre)) \in Nat
  BY UnescapeType, PlainBytes DEF slipUnescape, State
<1>15. /\ LossKind # "marker"
       /\ LossKind = "plain" => /\ Len(slipUnescape(pre)) >= 3 /\ b # 205
                                /\ pre # <<>> => pre[Len(pre)] # 205
  BY <1>11, <1>13, <1>14
<1> QED
  BY <1>1, <1>2, <1>3, <1>15 DEF b, r

LEMMA AtEnd ==
  ASSUME sent \in Seq(Packet), sent # <<>>, NEW pre \in Seq(Plain), Begun(pre, <<>>)
  PROVE  /\ wire # <<>> /\ Head(wire) = 188 /\ Tail(wire) = <<>> /\ pre = Encoded
         /\ LossKind = "marker"
<1>1. wire = <<188>> /\ pre = Encoded
  BY DEF Begun
<1> DEFINE all == slipEncode(Build(Last(sent)))
<1>2. all \in Seq(Byte) /\ Len(all) = Len(Encoded) + 2 /\ all[Len(Encoded) + 2] = 188
  BY FrameBytes
<1> HIDE DEF all
<1>3. Len(all) - Len(wire) + 1 = Len(Encoded) + 2 /\ Len(Encoded) \in Nat
  BY <1>1, <1>2
<1>4. LossKind = "marker"
  BY <1>2, <1>3 DEF LossKind, all, slipStart, slipEnd
<1> QED
  BY <1>1, <1>4

-----------------------------------------------------------------------------
(***************************************************************************)
(* What one more byte does to a frame that has lost bytes before it.       *)
(***************************************************************************)
NextEsc(e, b) == ~e /\ b = 205
Emits(e, b) == IF e THEN AfterEsc(b) ELSE IF b = 205 THEN <<>> ELSE <<b>>

LEMMA DecodeByte ==
  ASSUME NEW s \in Seq(Byte), NEW b \in Byte
  PROVE  LET u == Unescape(s) IN
           /\ u \in State /\ u.esc \in BOOLEAN /\ u.out \in Seq(Byte)
           /\ Emits(u.esc, b) \in Seq(Byte)
           /\ Unescape(Append(s, b)) =
                [esc |-> NextEsc(u.esc, b), out |-> u.out \o Emits(u.esc, b)]
<1> DEFINE u == Unescape(s)
<1>1. u \in State /\ Unescape(Append(s, b)) = UnescapeByte(u, b)
  BY UnescapeType, UnescapeAppend
<1> HIDE DEF u
<1>2. u.esc \in BOOLEAN /\ u.out \in Seq(Byte)
  BY <1>1 DEF State
<1>3. Emits(u.esc, b) \in Seq(Byte)
  <2>1. AfterEsc(b) \in Seq(Byte) /\ <<>> \in Seq(Byte) /\ <<b>> \in Seq(Byte)
    BY AfterEscType
  <2> QED
    BY <2>1 DEF Emits
<1>4. UnescapeByte(u, b) = [esc |-> NextEsc(u.esc, b), out |-> u.out \o Emits(u.esc, b)]
  <2>1. CASE u.esc
    BY <2>1 DEF UnescapeByte, NextEsc, Emits
  <2>2. CASE ~u.esc /\ b = 205
    <3>1. u.out \o <<>> = u.out
      BY <1>2
    <3> QED
      BY <2>2, <3>1 DEF UnescapeByte, NextEsc, Emits, slipEsc
  <2>3. CASE ~u.esc /\ b # 205
    <3>1. u.out \o <<b>> = Append(u.out, b)
      BY <1>2
    <3> QED
      BY <2>3, <3>1 DEF UnescapeByte, NextEsc, Emits, slipEsc
  <2> QED
    BY <2>1, <2>2, <2>3
<1> QED
  BY <1>1, <1>2, <1>3, <1>4 DEF u

LEMMA DecodeEsc ==
  ASSUME NEW s \in Seq(Byte), NEW b \in Byte
  PROVE  Unescape(Append(s, b)).esc = NextEsc(Unescape(s).esc, b)
<1>1. Unescape(Append(s, b)) = [esc |-> NextEsc(Unescape(s).esc, b),
                                out |-> Unescape(s).out \o Emits(Unescape(s).esc, b)]
  BY DecodeByte
<1> QED
  BY <1>1

LEMMA EscapePending ==
  ASSUME NEW s \in Seq(Byte), Unescape(s).esc
  PROVE  s # <<>> /\ s[Len(s)] = 205
<1>1. s # <<>>
  BY UnescapeEmpty DEF Start
<1> DEFINE t == SubSeq(s, 1, Len(s) - 1)
           b == s[Len(s)]
<1>2. t \in Seq(Byte) /\ b \in Byte /\ s = Append(t, b)
  BY <1>1
<1> HIDE DEF t, b
<1>3. NextEsc(Unescape(t).esc, b)
  <2>1. Unescape(Append(t, b)).esc = NextEsc(Unescape(t).esc, b)
    BY <1>2, DecodeEsc
  <2>2. NextEsc(Unescape(t).esc, b) \in BOOLEAN
    BY DEF NextEsc
  <2> QED
    BY <1>2, <2>1, <2>2
<1> QED
  BY <1>1, <1>3 DEF NextEsc, b

(* The frame holds a packet of S and what may have followed it.            *)
Follows(f, S, e) ==
  \E p \in S, r \in Seq(Byte) : Unescape(f) = [esc |-> e, out |-> Build(p) \o r]

LEMMA FollowsMore ==
  ASSUME NEW f \in Seq(Byte), NEW S, S \subseteq Packet, NEW e, Follows(f, S, e), NEW b \in Byte
  PROVE  Follows(Append(f, b), S, NextEsc(e, b))
<1>1. PICK p \in S, r \in Seq(Byte) : Unescape(f) = [esc |-> e, out |-> Build(p) \o r]
  BY DEF Follows
<1> DEFINE x == Emits(e, b)
           m == Build(p)
<1>2. x \in Seq(Byte) /\ Unescape(Append(f, b)) = [esc |-> NextEsc(e, b), out |-> (m \o r) \o x]
  <2>1. Unescape(f).esc = e /\ Unescape(f).out = m \o r
    BY <1>1
  <2> QED
    BY <2>1, DecodeByte
<1>3. m \in Seq(Byte)
  BY BuildType
<1> HIDE DEF x, m
<1>4. (m \o r) \o x = m \o (r \o x) /\ r \o x \in Seq(Byte)
  BY <1>2, <1>3, ConcatAssociative
<1> QED
  BY <1>2, <1>4 DEF Follows, m

(* What is decoded of the frame is what is decoded of s, or shorter by     *)
(* bytes after the third.                                                  *)
Shorter(f, d) == 3 <= Len(f) /\ Len(f) < Len(d) /\ \A i \in 1..3 : f[i] = d[i]
Kept(f, s) ==
  /\ Unescape(f).esc = Unescape(s).esc
  /\ Unescape(f).out = Unescape(s).out \/ Shorter(Unescape(f).out, Unescape(s).out)

LEMMA ShorterMore ==
  ASSUME NEW f \in Seq(Byte), NEW d \in Seq(Byte), NEW x \in Seq(Byte), Shorter(f, d)
  PROVE  Shorter(f \o x, d \o x)
<1>1. /\ Len(f \o x) = Len(f) + Len(x) /\ Len(d \o x) = Len(d) + Len(x)
      /\ \A i \in 1..Len(f) : (f \o x)[i] = f[i]
      /\ \A i \in 1..Len(d) : (d \o x)[i] = d[i]
  BY Concat
<1> DEFINE fx == f \o x
           dx == d \o x
<1>2. /\ Len(fx) = Len(f) + Len(x) /\ Len(dx) = Len(d) + Len(x)
      /\ \A i \in 1..Len(f) : fx[i] = f[i]
      /\ \A i \in 1..Len(d) : dx[i] = d[i]
  BY <1>1
<1> HIDE DEF fx, dx
<1>3. Len(f) \in Nat /\ Len(d) \in Nat /\ Len(x) \in Nat
  OBVIOUS
<1>4. Shorter(fx, dx)
  BY <1>2, <1>3 DEF Shorter
<1> QED
  BY <1>4 DEF fx, dx

LEMMA KeptMore ==
  ASSUME NEW f \in Seq(Byte), NEW s \in Seq(Byte), Kept(f, s), NEW b \in Byte
  PROVE  Kept(Append(f, b), Append(s, b))
<1> DEFINE e == Unescape(s).esc
           x == Emits(e, b)
           F == Unescape(f).out
           D == Unescape(s).out
<1>1. /\ F \in Seq(Byte) /\ D \in Seq(Byte) /\ x \in Seq(Byte)
      /\ Unescape(Append(s, b)) = [esc |-> NextEsc(e, b), out |-> D \o x]
      /\ Unescape(Append(f, b)) = [esc |-> NextEsc(e, b), out |-> F \o x]
  BY DecodeByte DEF Kept
<1>2. F = D \/ Shorter(F, D)
  BY DEF Kept
<1> HIDE DEF e, x, F, D
<1>3. F \o x = D \o x \/ Shorter(F \o x, D \o x)
  BY <1>1, <1>2, ShorterMore
<1> QED
  BY <1>1, <1>3 DEF Kept

LEMMA KeptLess ==
  ASSUME NEW f \in Seq(Byte), NEW s \in Seq(Byte), Kept(f, s), NEW b \in Byte, b # 205,
         Len(slipUnescape(s)) >= 3, s # <<>> => s[Len(s)] # 205
  PROVE  Kept(f, Append(s, b))
<1> DEFINE F == Unescape(f).out
           D == Unescape(s).out
<1>1. Unescape(s).esc = FALSE /\ Unescape(f).esc = FALSE
  BY EscapePending, DecodeByte DEF Kept
<1>2. /\ F \in Seq(Byte) /\ D \in Seq(Byte)
      /\ Unescape(Append(s, b)) = [esc |-> FALSE, out |-> D \o <<b>>]
  BY <1>1, DecodeByte DEF NextEsc, Emits
<1>3. Len(D) >= 3 /\ (F = D \/ Shorter(F, D))
  BY DEF Kept, slipUnescape
<1> HIDE DEF F, D
<1> DEFINE Db == D \o <<b>>
<1>4. Len(Db) = Len(D) + 1 /\ \A i \in 1..Len(D) : Db[i] = D[i]
  BY <1>2
<1>5. Len(D) \in Nat /\ Len(F) \in Nat
  BY <1>2
<1> HIDE DEF Db
<1>6. Shorter(F, Db)
  BY <1>3, <1>4, <1>5 DEF Shorter
<1>7. Unescape(Append(s, b)).out = Db /\ Unescape(Append(s, b)).esc = FALSE
  BY <1>2 DEF Db
<1>8. Unescape(f).out = F
  BY DEF F
<1> QED
  BY <1>1, <1>6, <1>7, <1>8 DEF Kept

-----------------------------------------------------------------------------
(***************************************************************************)
(* The inductive invariant. While a frame is under way, what the loop has  *)
(* collected is what has gone of the frame: exactly if the frame is whole; *)
(* behind an earlier packet if only start and end bytes were lost; and less*)
(* some bytes after the version if only plain bytes were lost.             *)
(***************************************************************************)
Sent == {sent[j] : j \in DOMAIN sent}
Marked == faults \subseteq {"marker"}
Thinned == faults \subseteq {"plain"}

Types == sent \in Seq(Packet) /\ frame \in Seq(Byte) /\ inFrame \in BOOLEAN

Genuine == Marked \/ Thinned => got \in Seq(Sent)

Idle ==
  /\ Marked /\ inFrame => Follows(frame, Sent, FALSE)
  /\ Thinned => ~inFrame

Collected(pre) ==
  /\ whole => inFrame /\ frame = pre
  /\ Marked /\ inFrame => frame = pre \/ Follows(frame, Sent, Unescape(pre).esc)
  /\ Thinned => inFrame /\ Kept(frame, pre)

Coming == sent # <<>> /\ wire = slipEncode(Build(Last(sent))) /\ Idle
UnderWay == sent # <<>> /\ \E pre, post \in Seq(Plain) : Begun(pre, post) /\ Collected(pre)

IInv == Types /\ Genuine /\ ((wire = <<>> /\ Idle) \/ Coming \/ UnderWay)

LEMMA SentFacts ==
  ASSUME sent \in Seq(Packet)
  PROVE  /\ Sent \subseteq Packet
         /\ sent # <<>> => Last(sent) \in Sent
  BY DEF Sent, Last

(* An end byte delivers the packet that the frame begins with.             *)
LEMMA EndDelivers ==
  ASSUME frame \in Seq(Byte), inFrame, FrameEnds(188), NEW p \in Packet, NEW r \in Seq(Byte),
         slipUnescape(frame) = Build(p) \o r
  PROVE  got' = Append(got, p)
<1> DEFINE d == slipUnescape(frame)
<1>1. Parses(d) /\ parsePacket(d) = p
  BY ParseBuilt
<1>2. frame # <<>>
  <2>1. Len(Build(p) \o r) = 6 + Len(p.payload) + Len(r) /\ p.payload \in Seq(Byte)
    BY BuiltBytes, PacketFacts
  <2>2. Len(Build(p) \o r) # 0
    BY <2>1
  <2>3. frame = <<>> => slipUnescape(frame) = <<>>
    BY UnescapeEmpty DEF slipUnescape, Start
  <2> QED
    BY <2>2, <2>3
<1>3. got' = IF inFrame /\ frame # <<>> /\ Parses(d) THEN Append(got, parsePacket(d)) ELSE got
  BY DEF FrameEnds
<1> HIDE DEF d
<1> QED
  BY <1>1, <1>2, <1>3

LEMMA TakeByte ==
  ASSUME NEW b \in Byte, readLoop(b), frame \in Seq(Byte), inFrame \in BOOLEAN
  PROVE  /\ frame' \in Seq(Byte) /\ inFrame' \in BOOLEAN
         /\ b = 171 => FrameStarts(b)
         /\ b = 188 => FrameEnds(b)
         /\ b \in Plain => FrameGrows(b)
<1>1. CASE FrameStarts(b)
  BY <1>1 DEF FrameStarts, slipStart, Plain
<1>2. CASE FrameEnds(b)
  <2>1. b = 188 /\ frame' = frame /\ inFrame' = FALSE
    BY <1>2 DEF FrameEnds, slipEnd
  <2>2. frame' \in Seq(Byte) /\ inFrame' \in BOOLEAN
    BY <2>1
  <2>3. b # 171 /\ b \notin Plain
    BY <2>1 DEF Plain
  <2> QED
    BY <1>2, <2>2, <2>3, Zenon
<1>3. CASE FrameGrows(b)
  BY <1>3 DEF FrameGrows, slipStart, slipEnd, Plain
<1> QED
  BY <1>1, <1>2, <1>3 DEF readLoop

(* What an encoded frame holds.                                            *)
LEMMA EncodedHolds ==
  ASSUME sent \in Seq(Packet), sent # <<>>
  PROVE  /\ Encoded \in Seq(Byte) /\ Last(sent) \in Packet /\ Last(sent) \in Sent
         /\ Unescape(Encoded) = [esc |-> FALSE, out |-> Build(Last(sent))]
         /\ Build(Last(sent)) \o <<>> = Build(Last(sent)) /\ <<>> \in Seq(Byte)
         /\ Follows(Encoded, Sent, FALSE)
<1>1. Encoded \in Seq(Byte) /\ Last(sent) \in Packet /\ Last(sent) \in Sent
  BY FrameBytes, PlainBytes, SentFacts
<1> DEFINE p == Last(sent)
<1>2. Build(p) \in Seq(Byte)
  BY <1>1, BuildType
<1>3. Unescape(Encoded) = [esc |-> FALSE, out |-> Build(p)]
  BY <1>2, RoundTrip DEF Encoded
<1>4. Build(p) \o <<>> = Build(p) /\ <<>> \in Seq(Byte)
  BY <1>2
<1>5. Follows(Encoded, Sent, FALSE)
  BY <1>1, <1>3, <1>4 DEF Follows
<1> QED
  BY <1>1, <1>3, <1>4, <1>5

-----------------------------------------------------------------------------
(* One lemma per action; a byte that goes has one for each place it has.   *)

LEMMA WireEmpty ==
  ASSUME IInv, wire = <<>>
  PROVE  Idle
<1>1. ~Coming
  BY AtStart DEF IInv, Types, Coming
<1>2. ~UnderWay
  <2>1. ASSUME NEW post \in Seq(Plain)
        PROVE  post \o <<188>> # <<>>
    <3>1. Len(post \o <<188>>) = Len(post) + 1 /\ Len(post) \in Nat
      OBVIOUS
    <3> QED
      BY <3>1
  <2> QED
    BY <2>1 DEF UnderWay, Begun
<1> QED
  BY <1>1, <1>2 DEF IInv

LEMMA SendStep ==
  ASSUME IInv, NEW p \in Packet, Send(p)
  PROVE  IInv'
<1>1. Types /\ Genuine /\ Idle
  BY WireEmpty DEF IInv, Send
<1>2. /\ sent' = Append(sent, p) /\ wire' = slipEncode(Build(p))
      /\ UNCHANGED <<faults, frame, inFrame, got>>
  BY DEF Send
<1>3. sent' \in Seq(Packet) /\ sent' # <<>> /\ Last(sent') = p
  BY <1>1, <1>2 DEF Types, Last
<1>4. Sent \subseteq Sent'
  BY <1>1, <1>2 DEF Types, Sent
<1>5. Types' /\ Genuine'
  BY <1>1, <1>2, <1>3, <1>4 DEF Types, Genuine, Marked, Thinned
<1>6. Idle'
  BY <1>1, <1>2, <1>4 DEF Idle, Marked, Thinned, Follows
<1>7. Coming'
  BY <1>2, <1>3, <1>6 DEF Coming
<1> QED
  BY <1>5, <1>7 DEF IInv

LEMMA NoiseStep ==
  ASSUME IInv, NEW b \in Noise, Disturb(b)
  PROVE  IInv'
<1>1. b \in Byte
  BY SlipAssumption
<1>2. /\ Types /\ readLoop(b) /\ wire = <<>>
      /\ faults' = faults \cup {"noise"} /\ UNCHANGED <<wire, sent>>
  BY DEF IInv, Disturb
<1>3. Types'
  BY <1>1, <1>2, TakeByte DEF Types
<1>4. ~Marked' /\ ~Thinned'
  BY <1>2 DEF Marked, Thinned
<1> QED
  BY <1>2, <1>3, <1>4 DEF IInv, Genuine, Idle

(* What a step along the line changes, and what it does to the faults.     *)
LEMMA LineStep ==
  ASSUME IInv, Arrive \/ Lose
  PROVE  /\ wire # <<>> /\ wire' = Tail(wire) /\ UNCHANGED sent /\ Sent' = Sent
         /\ Encoded' = Encoded
         /\ Marked' => Marked
         /\ Thinned' => Thinned
         /\ Lose => /\ ~whole' /\ UNCHANGED <<frame, inFrame, got>>
                    /\ LossKind # "marker" => ~Marked'
                    /\ LossKind # "plain" => ~Thinned'
         /\ Arrive => readLoop(Head(wire)) /\ UNCHANGED <<whole, faults>>
<1>1. wire # <<>> /\ wire' = Tail(wire) /\ UNCHANGED sent
  BY DEF Arrive, Lose
<1>2. Sent' = Sent /\ Encoded' = Encoded
  BY <1>1 DEF Sent, Encoded
<1>3. Arrive => readLoop(Head(wire)) /\ UNCHANGED <<whole, faults>>
  BY DEF Arrive
<1>4. Lose => ~whole' /\ UNCHANGED <<frame, inFrame, got>> /\ faults' = faults \cup {LossKind}
  BY DEF Lose
<1> DEFINE kind == LossKind
<1> HIDE DEF kind
<1>5. /\ Marked' => Marked
      /\ Thinned' => Thinned
      /\ Lose => /\ kind # "marker" => ~Marked'
                 /\ kind # "plain" => ~Thinned'
  <2>1. Lose => faults' = faults \cup {kind}
    BY <1>4 DEF kind
  <2> QED
    BY <1>3, <2>1 DEF Marked, Thinned
<1> QED
  BY <1>1, <1>2, <1>3, <1>4, <1>5 DEF kind

(* The start byte goes.                                                    *)
LEMMA StartGoes ==
  ASSUME IInv, Arrive \/ Lose, Coming
  PROVE  IInv'
<1>1. Types /\ Genuine /\ Idle /\ sent # <<>> /\ sent \in Seq(Packet)
  BY DEF IInv, Coming, Types
<1>2. Head(wire) = 171 /\ Tail(wire) = Encoded \o <<188>> /\ LossKind = "marker"
  BY <1>1, AtStart DEF Coming
<1>3. PICK post \in Seq(Plain) : post = Encoded
  BY <1>1, FrameBytes
<1>4. Begun(<<>>, post)' /\ <<>> \in Seq(Plain)
  <2>1. wire' = Tail(wire) /\ Encoded' = Encoded
    BY LineStep
  <2>2. <<>> \in Seq(Plain) /\ post = <<>> \o post
    OBVIOUS
  <2> QED
    BY <1>2, <1>3, <2>1, <2>2 DEF Begun
<1>5. Unescape(<<>>).esc = FALSE /\ <<>> \in Seq(Byte)
  BY UnescapeEmpty DEF Start
<1>6. Types' /\ Genuine' /\ Collected(<<>>)'
  <2>1. CASE Arrive
    <3>1. readLoop(171) /\ UNCHANGED <<whole, faults, sent>>
      BY <1>2, <2>1, LineStep
    <3>2. FrameStarts(171)
      BY <1>1, <3>1, TakeByte, PlainBytes DEF Types
    <3>3. frame' = <<>> /\ inFrame' = TRUE /\ got' = got
      BY <3>2 DEF FrameStarts
    <3>4. Kept(<<>>, <<>>)
      BY DEF Kept
    <3>5. Marked' = Marked /\ Thinned' = Thinned /\ Sent' = Sent
      BY <3>1 DEF Marked, Thinned, Sent
    <3> QED
      BY <1>1, <1>5, <3>1, <3>3, <3>4, <3>5 DEF Types, Genuine, Collected
  <2>2. CASE Lose
    <3>1. ~whole' /\ UNCHANGED <<frame, inFrame, got, sent>> /\ Sent' = Sent /\ ~Thinned'
      BY <1>2, <2>2, LineStep
    <3>2. Marked' => Marked
      BY LineStep
    <3> QED
      BY <1>1, <1>5, <3>1, <3>2 DEF Types, Genuine, Collected, Idle, Follows
  <2> QED
    BY <2>1, <2>2
<1>7. UnderWay'
  <2>1. sent' # <<>>
    BY <1>1, LineStep
  <2> QED
    BY <1>3, <1>4, <1>6, <2>1 DEF UnderWay
<1> QED
  BY <1>6, <1>7 DEF IInv

(* An escaped byte goes.                                                   *)
LEMMA ByteGoes ==
  ASSUME IInv, Arrive \/ Lose, sent # <<>>, NEW pre \in Seq(Plain), NEW post \in Seq(Plain),
         Begun(pre, post), Collected(pre), post # <<>>
  PROVE  IInv'
<1> DEFINE b == Head(post)
           pre1 == Append(pre, b)
           post1 == Tail(post)
<1>1. Types /\ Genuine /\ sent \in Seq(Packet) /\ frame \in Seq(Byte)
  BY DEF IInv, Types
<1> HIDE DEF b, pre1, post1
<1>2. /\ Head(wire) = b /\ b \in Plain /\ Tail(wire) = post1 \o <<188>>
      /\ pre1 \in Seq(Plain) /\ post1 \in Seq(Plain) /\ Encoded = pre1 \o post1
      /\ LossKind # "marker"
      /\ LossKind = "plain" => /\ Len(slipUnescape(pre)) >= 3 /\ b # 205
                               /\ pre # <<>> => pre[Len(pre)] # 205
  <2>1. /\ Head(wire) = Head(post) /\ Head(post) \in Plain
        /\ Tail(wire) = Tail(post) \o <<188>>
    BY <1>1, AtByte
  <2>2. /\ Append(pre, Head(post)) \in Seq(Plain) /\ Tail(post) \in Seq(Plain)
        /\ Encoded = Append(pre, Head(post)) \o Tail(post)
    BY <1>1, AtByte
  <2>3. LossKind # "marker"
    BY <1>1, AtByte
  <2>4. LossKind = "plain" => /\ Len(slipUnescape(pre)) >= 3 /\ Head(post) # 205
                              /\ pre # <<>> => pre[Len(pre)] # 205
    BY <1>1, AtByte
  <2> QED
    BY <2>1, <2>2, <2>3, <2>4 DEF b, pre1, post1
<1>3. pre \in Seq(Byte) /\ b \in Byte
  BY <1>2, PlainBytes
<1> USE DEF pre1
<1>4. Begun(pre1, post1)'
  BY <1>2, LineStep DEF Begun
<1>5. Types' /\ Genuine' /\ Collected(pre1)'
  <2>1. CASE Arrive
    <3>1. readLoop(b) /\ UNCHANGED <<whole, faults, sent>>
      BY <1>2, <2>1, LineStep
    <3>2. FrameGrows(b)
      BY <1>1, <1>2, <1>3, <3>1, TakeByte DEF Types
    <3>3. /\ frame' = IF inFrame THEN Append(frame, b) ELSE frame
          /\ inFrame' = inFrame /\ got' = got
      BY <3>2 DEF FrameGrows
    <3>4. Marked' = Marked /\ Thinned' = Thinned /\ Sent' = Sent
      BY <3>1 DEF Marked, Thinned, Sent
    <3>5. Types' /\ Genuine'
      BY <1>1, <1>3, <3>1, <3>3, <3>4 DEF Types, Genuine
    <3>6. Marked /\ inFrame => Append(frame, b) = pre1 \/
                               Follows(Append(frame, b), Sent, Unescape(pre1).esc)
      <4>1. Unescape(pre1).esc = NextEsc(Unescape(pre).esc, b)
        BY <1>3, DecodeEsc
      <4>2. Sent \subseteq Packet
        BY <1>1, SentFacts
      <4>3. CASE Marked /\ inFrame /\ Follows(frame, Sent, Unescape(pre).esc)
        BY <1>1, <1>3, <4>1, <4>2, <4>3, FollowsMore
      <4> QED
        BY <4>3 DEF Collected
    <3>7. Thinned => inFrame /\ Kept(Append(frame, b), pre1)
      BY <1>1, <1>3, KeptMore DEF Collected
    <3>8. whole => inFrame /\ Append(frame, b) = pre1
      BY DEF Collected
    <3> HIDE DEF pre1
    <3>9. Collected(pre1)'
      BY <3>1, <3>3, <3>4, <3>6, <3>7, <3>8 DEF Collected
    <3> QED
      BY <3>5, <3>9
  <2>2. CASE Lose
    <3>1. ~whole' /\ UNCHANGED <<frame, inFrame, got, sent>> /\ Sent' = Sent /\ ~Marked'
      BY <1>2, <2>2, LineStep
    <3>2. Thinned' => Thinned /\ LossKind = "plain"
      BY <2>2, LineStep
    <3>3. Types' /\ Genuine'
      BY <1>1, <3>1, <3>2 DEF Types, Genuine
    <3>4. Thinned' => inFrame /\ Kept(frame, pre1)
      BY <1>1, <1>2, <1>3, <3>2, KeptLess DEF Collected
    <3> HIDE DEF pre1
    <3> QED
      BY <3>1, <3>3, <3>4 DEF Collected
  <2> QED
    BY <2>1, <2>2
<1>6. UnderWay'
  <2>1. sent' # <<>>
    BY LineStep
  <2> HIDE DEF pre1
  <2> QED
    BY <1>2, <1>4, <1>5, <2>1 DEF UnderWay
<1> QED
  BY <1>5, <1>6 DEF IInv

(* The end byte arrives: what follows it is delivered.                     *)
LEMMA EndArrives ==
  ASSUME IInv, Arrive, sent # <<>>, NEW pre \in Seq(Plain), Begun(pre, <<>>), Collected(pre)
  PROVE  /\ inFrame' = FALSE
         /\ inFrame \/ got' = got
         /\ whole => got' = Append(got, Last(sent))
         /\ Marked /\ inFrame => \E p \in Sent : got' = Append(got, p)
         /\ Thinned => got' = got \/ got' = Append(got, Last(sent))
<1> DEFINE p == Last(sent)
<1>1. sent \in Seq(Packet) /\ frame \in Seq(Byte) /\ inFrame \in BOOLEAN /\ Sent \subseteq Packet
  BY SentFacts DEF IInv, Types
<1>2. Head(wire) = 188 /\ pre = Encoded
  BY <1>1, AtEnd
<1>3. FrameEnds(188)
  <2>1. readLoop(188)
    BY <1>2, LineStep
  <2> QED
    BY <1>1, <2>1, TakeByte, PlainBytes
<1>4. /\ p \in Packet /\ p \in Sent /\ <<>> \in Seq(Byte)
      /\ Build(p) \o <<>> = Build(p) /\ Build(p) \in Seq(Byte)
      /\ Unescape(pre) = [esc |-> FALSE, out |-> Build(p)]
  BY <1>1, <1>2, EncodedHolds, BuildType
<1> HIDE DEF p
<1>5. inFrame' = FALSE /\ (inFrame \/ got' = got)
  BY <1>3 DEF FrameEnds
<1>6. inFrame /\ slipUnescape(frame) = Build(p) => got' = Append(got, p)
  <2>1. slipUnescape(frame) = Build(p) => slipUnescape(frame) = Build(p) \o <<>>
    BY <1>4
  <2> QED
    BY <1>1, <1>3, <1>4, <2>1, EndDelivers
<1>7. whole => got' = Append(got, p)
  BY <1>4, <1>6 DEF Collected, slipUnescape
<1>8. ASSUME Marked, inFrame
      PROVE  \E q \in Sent : got' = Append(got, q)
  <2>1. CASE frame = pre
    BY <1>4, <1>6, <1>8, <2>1 DEF slipUnescape
  <2>2. CASE Follows(frame, Sent, Unescape(pre).esc)
    <3>1. PICK q \in Sent, r \in Seq(Byte) :
            Unescape(frame) = [esc |-> Unescape(pre).esc, out |-> Build(q) \o r]
      BY <2>2 DEF Follows
    <3>2. slipUnescape(frame) = Build(q) \o r /\ q \in Packet
      BY <1>1, <3>1 DEF slipUnescape
    <3>3. got' = Append(got, q)
      BY <1>1, <1>3, <1>8, <3>2, EndDelivers
    <3> QED
      BY <3>3
  <2> QED
    BY <1>8, <2>1, <2>2 DEF Collected
<1>9. ASSUME Thinned
      PROVE  got' = got \/ got' = Append(got, p)
  <2>1. inFrame /\ Kept(frame, pre)
    BY <1>9 DEF Collected
  <2>2. Unescape(pre).out = Build(p)
    BY <1>4
  <2> DEFINE d == slipUnescape(frame)
  <2>3. d = Build(p) \/ Shorter(d, Build(p))
    BY <2>1, <2>2 DEF Kept, slipUnescape
  <2>4. CASE d = Build(p)
    BY <1>6, <2>1, <2>4
  <2>5. CASE Shorter(d, Build(p))
    <3>1. d \in Seq(Byte)
      BY <1>1, UnescapeType DEF slipUnescape, State
    <3>2. got' = IF inFrame /\ frame # <<>> /\ Parses(d) THEN Append(got, parsePacket(d)) ELSE got
      BY <1>3 DEF FrameEnds
    <3> HIDE DEF d
    <3>3. Len(d) < Len(Build(p)) /\ \A i \in 1..3 : d[i] = Build(p)[i]
      BY <2>5 DEF Shorter
    <3>4. ~Parses(d)
      BY <1>4, <3>1, <3>3, ShortRejected
    <3> QED
      BY <3>2, <3>4
  <2> QED
    BY <2>3, <2>4, <2>5
<1> QED
  BY <1>5, <1>7, <1>8, <1>9 DEF p

(* The end byte goes.                                                      *)
LEMMA EndGoes ==
  ASSUME IInv, Arrive \/ Lose, sent # <<>>, NEW pre \in Seq(Plain), Begun(pre, <<>>),
         Collected(pre)
  PROVE  IInv'
<1>1. Types /\ Genuine /\ sent \in Seq(Packet) /\ frame \in Seq(Byte) /\ inFrame \in BOOLEAN
  BY DEF IInv, Types
<1>2. Head(wire) = 188 /\ Tail(wire) = <<>> /\ pre = Encoded /\ LossKind = "marker"
  BY <1>1, AtEnd
<1>3. wire' = <<>>
  BY <1>2, LineStep
<1>4. Last(sent) \in Sent /\ Follows(Encoded, Sent, FALSE) /\ Unescape(Encoded).esc = FALSE
  <2>1. Unescape(Encoded) = [esc |-> FALSE, out |-> Build(Last(sent))]
    BY <1>1, EncodedHolds
  <2>2. Last(sent) \in Sent /\ Follows(Encoded, Sent, FALSE)
    BY <1>1, EncodedHolds
  <2>3. Unescape(Encoded).esc = FALSE
    BY <2>1
  <2> QED
    BY <2>2, <2>3
<1>5. CASE Arrive
  <2>1. readLoop(188) /\ UNCHANGED <<whole, faults, sent>> /\ Sent' = Sent
    BY <1>2, <1>5, LineStep
  <2>2. Types'
    BY <1>1, <2>1, TakeByte, PlainBytes DEF Types
  <2>3. Marked' = Marked /\ Thinned' = Thinned
    BY <2>1 DEF Marked, Thinned
  <2>4. inFrame' = FALSE
    BY <1>5, EndArrives
  <2>5. Marked \/ Thinned => got' = got \/ \E p \in Sent : got' = Append(got, p)
    BY <1>4, <1>5, EndArrives
  <2>6. Genuine'
    <3>1. ASSUME NEW p \in Sent, got \in Seq(Sent)
          PROVE  Append(got, p) \in Seq(Sent)
      BY <3>1
    <3>2. Marked \/ Thinned => got' \in Seq(Sent)
      BY <1>1, <2>5, <3>1 DEF Genuine
    <3> QED
      BY <2>1, <2>3, <3>2 DEF Genuine
  <2> QED
    BY <1>3, <2>2, <2>4, <2>6 DEF IInv, Idle
<1>6. CASE Lose
  <2>1. UNCHANGED <<frame, inFrame, got, sent>> /\ Sent' = Sent /\ ~Thinned'
    BY <1>2, <1>6, LineStep
  <2>2. Marked' => Marked
    BY LineStep
  <2>3. Types' /\ Genuine'
    BY <1>1, <2>1, <2>2 DEF Types, Genuine
  <2>4. Marked /\ inFrame => Follows(frame, Sent, FALSE)
    BY <1>2, <1>4 DEF Collected
  <2>5. Idle'
    BY <2>1, <2>2, <2>4 DEF Idle, Follows
  <2> QED
    BY <1>3, <2>3, <2>5 DEF IInv
<1> QED
  BY <1>5, <1>6

LEMMA InitHolds == Init => IInv
<1> SUFFICES ASSUME Init
             PROVE  IInv
  OBVIOUS
<1>1. Types
  <2>1. sent = <<>> /\ frame = <<>> /\ inFrame = FALSE
    BY DEF Init
  <2>2. <<>> \in Seq(Packet) /\ <<>> \in Seq(Byte)
    OBVIOUS
  <2> QED
    BY <2>1, <2>2 DEF Types
<1>2. Genuine
  BY DEF Init, Genuine
<1>3. wire = <<>> /\ Idle
  BY DEF Init, Idle
<1> QED
  BY <1>1, <1>2, <1>3 DEF IInv

LEMMA NextHolds ==
  ASSUME IInv, [Next]_vars
  PROVE  IInv'
<1>1. ASSUME NEW p \in Packet, Send(p)
      PROVE  IInv'
  BY <1>1, SendStep
<1>2. CASE Arrive \/ Lose
  <2>1. wire # <<>>
    BY <1>2, LineStep
  <2>2. CASE Coming
    BY <1>2, <2>2, StartGoes
  <2>3. CASE UnderWay
    <3>1. PICK pre \in Seq(Plain), post \in Seq(Plain) : Begun(pre, post) /\ Collected(pre)
      BY <2>3 DEF UnderWay
    <3>2. sent # <<>>
      BY <2>3 DEF UnderWay
    <3>3. CASE post = <<>>
      BY <1>2, <3>1, <3>2, <3>3, EndGoes
    <3>4. CASE post # <<>>
      BY <1>2, <3>1, <3>2, <3>4, ByteGoes
    <3> QED
      BY <3>3, <3>4
  <2> QED
    BY <2>1, <2>2, <2>3 DEF IInv
<1>3. ASSUME NEW b \in Noise, Disturb(b)
      PROVE  IInv'
  BY <1>3, NoiseStep
<1>4. CASE UNCHANGED vars
  BY <1>4 DEF vars, lineVars, IInv, Types, Genuine, Marked, Thinned, Sent, Idle, Coming,
              UnderWay, Collected, Begun, Encoded
<1> QED
  BY <1>1, <1>2, <1>3, <1>4 DEF Next

(* The whole frame's last byte.                                            *)
LEMMA WholeDelivered ==
  ASSUME IInv, [Next]_vars, wire # <<>>, wire' = <<>>, whole'
  PROVE  got' = Append(got, Last(sent))
<1>1. Arrive /\ whole
  <2>1. ASSUME NEW p \in Packet, Send(p)
        PROVE  FALSE
    BY <2>1 DEF Send
  <2>2. ASSUME NEW b \in Noise, Disturb(b)
        PROVE  FALSE
    BY <2>2 DEF Disturb
  <2>3. ~Lose
    BY DEF Lose
  <2>4. ~UNCHANGED vars
    BY DEF vars, lineVars
  <2>5. Arrive
    BY <2>1, <2>2, <2>3, <2>4 DEF Next
  <2> QED
    BY <2>5 DEF Arrive
<1>2. ~Coming
  <2>1. Tail(wire) = <<>>
    BY <1>1 DEF Arrive
  <2> QED
    BY <2>1, AtStart DEF Coming, IInv, Types
<1>3. PICK pre \in Seq(Plain), post \in Seq(Plain) :
        sent # <<>> /\ Begun(pre, post) /\ Collected(pre)
  BY <1>2 DEF IInv, UnderWay
<1>4. post = <<>>
  <2>1. Tail(wire) = <<>> /\ sent \in Seq(Packet)
    BY <1>1 DEF Arrive, IInv, Types
  <2> QED
    BY <1>3, <2>1, AtByte
<1> QED
  BY <1>1, <1>3, <1>4, EndArrives

THEOREM LineInvariant == Spec => []IInv
<1>1. IInv /\ [Next]_vars => IInv'
  BY NextHolds
<1> QED
  BY InitHolds, <1>1, PTL DEF Spec

-----------------------------------------------------------------------------
(* Whatever noise and whatever broken frames came before it, a frame that  *)
(* arrives whole is delivered as it was sent: whatever packets the dongle  *)
(* sends, and however many of them.                                        *)
THEOREM WholeFramesArrive == Spec => Recovers
<1>1. IInv /\ [Next]_vars =>
        [wire # <<>> /\ wire' = <<>> /\ whole' => got' = Append(got, Last(sent))]_vars
  BY WholeDelivered
<1> QED
  BY LineInvariant, <1>1, PTL DEF Spec, Recovers

(* No packet is delivered that was not sent, as long as only start and end *)
(* bytes are lost, or only bytes after the version.                        *)
THEOREM NothingForged == Spec => []NoFalsePacket
<1>1. IInv => NoFalsePacket
  <2> SUFFICES ASSUME IInv, Marked \/ Thinned, NEW i \in DOMAIN got
               PROVE  \E j \in DOMAIN sent : got[i] = sent[j]
    BY DEF NoFalsePacket, Marked, Thinned
  <2>1. got \in Seq(Sent)
    BY DEF IInv, Genuine
  <2>2. got[i] \in Sent
    BY <2>1
  <2> QED
    BY <2>2 DEF Sent
<1> QED
  BY LineInvariant, <1>1, PTL
=============================================================================
