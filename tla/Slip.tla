-------------------------------- MODULE Slip --------------------------------
(***************************************************************************)
(* The frame codec of package sniffer: SLIP framing, the V1 and V3         *)
(* headers, and the part of the read loop that assembles frames from       *)
(* bytes. The dongle sends framed packets over a serial line that may lose *)
(* bytes and, between two frames, carry noise.                             *)
(***************************************************************************)
EXTENDS Integers, SequencesExt

CONSTANTS
  Packet,      \* packets that the dongle may send
  Noise,       \* bytes that may turn up between two frames
  MaxFrames,   \* bound on the frames sent
  MaxFaults    \* bound on lost bytes and noise

(* protocol.go.                                                            *)
slipStart == 171
slipEnd == 188
slipEsc == 205
slipEscape == [b \in {slipStart, slipEnd, slipEsc} |->
                 CASE b = slipStart -> 172 [] b = slipEnd -> 189 [] b = slipEsc -> 206]
headerLen == 6
protoVerV1 == 1
protoVerV3 == 3

Byte == 0..255
Word == 0..65535
Faults == {"marker", "plain", "risky", "noise"}

(* A payload is no longer than its header can say.                         *)
ASSUME SlipAssumption ==
  /\ Packet \subseteq [ver : {protoVerV1, protoVerV3}, id : Byte, counter : Word,
                       payload : Seq(Byte)]
  /\ \A p \in Packet : Len(p.payload) \in IF p.ver = protoVerV1 THEN Byte ELSE Word
  /\ Noise \subseteq Byte
  /\ MaxFrames \in Nat /\ MaxFaults \in Nat

VARIABLES
  wire,     \* bytes of the frame under way that have not arrived
  frame,    \* bytes collected since the last start byte
  inFrame,  \* a start byte has been seen and no end byte
  got,      \* packets delivered
  sent,     \* history: packets sent
  whole,    \* history: the last frame has lost no byte so far
  faults,   \* history: kinds of faults so far
  budget    \* faults that may still happen

lineVars == <<wire, sent, whole, faults, budget>>
vars == <<lineVars, frame, inFrame, got>>

-----------------------------------------------------------------------------
(* Encoding. buildV1Frame is V1; a V3 frame has a 16-bit length instead of *)
(* the header length.                                                      *)

Low(n) == n % 256
High(n) == (n \div 256) % 256

Header(p) ==
  LET n == Len(p.payload) IN
    (IF p.ver = protoVerV1 THEN <<headerLen, Low(n)>> ELSE <<Low(n), High(n)>>)
      \o <<p.ver, Low(p.counter), High(p.counter), p.id>>

Build(p) == Header(p) \o p.payload

EscapeByte(b) == IF b \in DOMAIN slipEscape THEN <<slipEsc, slipEscape[b]>> ELSE <<b>>

Escape(d) ==
  LET out[n \in 0..Len(d)] == IF n = 0 THEN <<>> ELSE out[n - 1] \o EscapeByte(d[n])
  IN  out[Len(d)]

slipEncode(d) == <<slipStart>> \o Escape(d) \o <<slipEnd>>

-----------------------------------------------------------------------------
(* Decoding.                                                               *)

(* The byte that was escaped. An unknown escape keeps both bytes.          *)
EscapedBy(b) == {m \in DOMAIN slipEscape : slipEscape[m] = b}
AfterEsc(b) == IF EscapedBy(b) = {} THEN <<slipEsc, b>> ELSE <<CHOOSE m \in EscapedBy(b) : TRUE>>

UnescapeByte(u, b) ==
  IF u.esc THEN [esc |-> FALSE, out |-> u.out \o AfterEsc(b)]
  ELSE IF b = slipEsc THEN [esc |-> TRUE, out |-> u.out]
  ELSE [esc |-> FALSE, out |-> Append(u.out, b)]

Unescape(d) ==
  LET u[n \in 0..Len(d)] == IF n = 0 THEN [esc |-> FALSE, out |-> <<>>]
                                     ELSE UnescapeByte(u[n - 1], d[n])
  IN  u[Len(d)]

slipUnescape(d) == Unescape(d).out

PayloadLen(d) == IF d[3] = protoVerV3 THEN d[1] + 256 * d[2] ELSE d[2]

Parses(d) ==
  /\ Len(d) >= headerLen /\ d[3] \in {protoVerV1, protoVerV3}
  /\ Len(d) >= headerLen + PayloadLen(d)

(* Faulty variant: the payload is whatever follows the header.             *)
parsePacketToEnd(d) ==
  [ver |-> d[3], counter |-> d[4] + 256 * d[5], id |-> d[6],
   payload |-> SubSeq(d, headerLen + 1, Len(d))]

parsePacket(d) ==
  [ver |-> d[3], counter |-> d[4] + 256 * d[5], id |-> d[6],
   payload |-> SubSeq(d, headerLen + 1, headerLen + PayloadLen(d))]

-----------------------------------------------------------------------------
(* The read loop takes a byte.                                             *)

(* Faulty variant: a start byte inside a frame is taken for noise.         *)
FrameStartsOnce(b) ==
  /\ b = slipStart
  /\ frame' = (IF inFrame THEN frame ELSE <<>>) /\ inFrame' = TRUE
  /\ UNCHANGED got

FrameStarts(b) ==
  /\ b = slipStart
  /\ frame' = <<>> /\ inFrame' = TRUE
  /\ UNCHANGED got

FrameEnds(b) ==
  /\ b = slipEnd
  /\ inFrame' = FALSE
  /\ LET d == slipUnescape(frame) IN
       got' = IF inFrame /\ frame # <<>> /\ Parses(d) THEN Append(got, parsePacket(d)) ELSE got
  /\ UNCHANGED frame

FrameGrows(b) ==
  /\ b \notin {slipStart, slipEnd}
  /\ frame' = IF inFrame THEN Append(frame, b) ELSE frame
  /\ UNCHANGED <<inFrame, got>>

readLoop(b) == FrameStarts(b) \/ FrameEnds(b) \/ FrameGrows(b)

-----------------------------------------------------------------------------
(* The dongle and the line.                                                *)

Send(p) ==
  /\ wire = <<>> /\ Len(sent) < MaxFrames
  /\ wire' = slipEncode(Build(p))
  /\ sent' = Append(sent, p) /\ whole' = TRUE
  /\ UNCHANGED <<faults, budget, frame, inFrame, got>>

Arrive ==
  /\ wire # <<>> /\ wire' = Tail(wire)
  /\ readLoop(Head(wire))
  /\ UNCHANGED <<sent, whole, faults, budget>>

(* What losing the next byte may do: a start or end byte merges frames or  *)
(* voids one; half an escape pair, or a byte of the first three decoded,   *)
(* up to the version, changes what follows; any other byte makes the frame *)
(* shorter than it says.                                                   *)
LossKind ==
  LET all == slipEncode(Build(Last(sent)))
      k == Len(all) - Len(wire) + 1
      before == slipUnescape(SubSeq(all, 2, k - 1))
  IN  IF all[k] \in {slipStart, slipEnd} THEN "marker"
      ELSE IF Len(before) < 3 \/ slipEsc \in {all[k], all[k - 1]} THEN "risky" ELSE "plain"

Lose ==
  /\ wire # <<>> /\ wire' = Tail(wire)
  /\ budget > 0 /\ budget' = budget - 1
  /\ faults' = faults \cup {LossKind} /\ whole' = FALSE
  /\ UNCHANGED <<sent, frame, inFrame, got>>

Disturb(b) ==
  /\ wire = <<>> /\ readLoop(b)
  /\ budget > 0 /\ budget' = budget - 1
  /\ faults' = faults \cup {"noise"}
  /\ UNCHANGED <<wire, sent, whole>>

Init ==
  /\ wire = <<>> /\ frame = <<>> /\ inFrame = FALSE /\ got = <<>>
  /\ sent = <<>> /\ whole = FALSE /\ faults = {} /\ budget = MaxFaults

Next ==
  \/ \E p \in Packet : Send(p)
  \/ Arrive \/ Lose
  \/ \E b \in Noise : Disturb(b)

Spec == Init /\ [][Next]_vars

-----------------------------------------------------------------------------
(* A frame that arrives whole is delivered as it was sent, whatever noise  *)
(* and broken frames came before it.                                       *)
Recovers ==
  [][wire # <<>> /\ wire' = <<>> /\ whole' => got' = Append(got, Last(sent))]_vars

(* With start and end bytes lost only, or plain bytes lost only, no packet *)
(* is delivered that was not sent: merged frames yield the first of them   *)
(* and shortened ones are rejected.                                        *)
NoFalsePacket ==
  faults \subseteq {"marker"} \/ faults \subseteq {"plain"} =>
    \A i \in DOMAIN got : \E j \in DOMAIN sent : got[i] = sent[j]
=============================================================================
