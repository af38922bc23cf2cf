----------------------------- MODULE PortProofs -----------------------------
(***************************************************************************)
(* Proofs about Port, for any number of sniffers and of descriptors.       *)
(***************************************************************************)
EXTENDS Port, WellFoundedInduction, TLAPS

(* A port that has been opened and not closed; a call under way, which     *)
(* holds sessMu.                                                           *)
Holding(s) == port[s] \in Call \cup {"init", "up"}
Busy(s) == port[s] \in Call \cup {"init", "closing"}

(* Ports and descriptors agree in both directions, and so do sessions and  *)
(* output files.                                                           *)
Agree ==
  /\ \A s \in Sniffer : Holding(s) => fd[s] \in Fd /\ table[fd[s]] = s
  /\ NothingLeaks

(* sessMu serialises starts and stops; a session does not start while      *)
(* there is one.                                                           *)
Serial ==
  /\ \A s, t \in Sniffer : Busy(s) /\ Busy(t) => s = t
  /\ \A s \in Sniffer : port[s] \in Call \cup {"init"} => sess = None

(* While Stop waits for a read loop nobody can be given its descriptor, so *)
(* only the loop of a failed start reads what another has opened.          *)
LoopFacts(s) ==
  /\ port[s] = "closing" => table[fd[s]] \notin Sniffer
  /\ loop[s] \in {"idle", "read"} =>
       fd[s] \in Fd /\ port[s] \in {"init", "up", "closing", "failed"}
  /\ IF loop[s] = "read" THEN src[s] \in Sniffer ELSE src[s] = None
  /\ src[s] \in Sniffer \ {s} => port[s] = "failed"

Loops == \A s \in Sniffer : LoopFacts(s)

Inv == TypeOK /\ Agree /\ Serial /\ OwnBytes /\ Loops

-----------------------------------------------------------------------------
(* The descriptor that the kernel gives out is a free one.                 *)
LEMMA MinIn ==
  ASSUME NEW S \in SUBSET Nat, S # {}
  PROVE  Min(S) \in S
<1> DEFINE R == OpToRel(<, Nat)
<1>1. \A x, y \in Nat : <<x, y>> \in R <=> x < y
  BY DEF OpToRel
<1>2. PICK x \in S : \A y \in S : ~(<<y, x>> \in R)
  BY NatLessThanWellFounded, WFMin
<1>3. \A y \in S : ~(y < x)
  BY <1>1, <1>2, Zenon
<1>4. \A y \in S : x =< y
  BY <1>3, SMT
<1> QED
  BY <1>4 DEF Min

LEMMA LowestIsFree ==
  ASSUME TypeOK, Free # {}
  PROVE  Min(Free) \in Fd /\ table[Min(Free)] = None
<1>1. Free \in SUBSET Nat
  BY PortAssumption DEF Free
<1> QED
  BY <1>1, MinIn DEF Free

LEMMA InitInv == Init => Inv
<1> SUFFICES ASSUME Init PROVE Inv
  OBVIOUS
<1>1. TypeOK /\ Serial /\ OwnBytes
  BY DEF Init, TypeOK, Serial, Busy, OwnBytes, Call
<1>2. Agree /\ Loops
  BY PortAssumption DEF Init, Agree, NothingLeaks, Holding, Loops, LoopFacts, Call
<1> QED
  BY <1>1, <1>2 DEF Inv

(* One lemma per action, one step per part of the invariant.               *)
LEMMA OpenFailsInv ==
  ASSUME Inv, NEW s \in Sniffer, OpenFails(s)
  PROVE  Inv'
<1> USE PortAssumption DEF Inv, Call, loopVars, OpenFails, Quiet
<1>1. TypeOK'
  BY DEF TypeOK
<1>2. Agree'
  BY DEF TypeOK, Agree, NothingLeaks, Holding
<1>3. Serial'
  BY DEF TypeOK, Serial, Busy
<1>4. OwnBytes'
  BY DEF TypeOK, OwnBytes
<1>5. Loops'
  BY DEF TypeOK, Loops, LoopFacts
<1> QED
  BY <1>1, <1>2, <1>3, <1>4, <1>5 DEF Inv

LEMMA OpenInv ==
  ASSUME Inv, NEW s \in Sniffer, Open(s)
  PROVE  Inv'
<1> USE PortAssumption DEF Inv, Call, loopVars, Open, Quiet
<1>0. Min(Free) \in Fd /\ table[Min(Free)] = None
  BY LowestIsFree
<1>1. TypeOK'
  BY <1>0 DEF TypeOK
<1>2. Agree'
  BY <1>0 DEF TypeOK, Agree, NothingLeaks, Holding
<1>3. Serial'
  BY <1>0 DEF TypeOK, Serial, Busy
<1>4. OwnBytes'
  BY <1>0 DEF TypeOK, OwnBytes
<1>5. Loops'
  BY <1>0 DEF TypeOK, Loops, LoopFacts
<1> QED
  BY <1>1, <1>2, <1>3, <1>4, <1>5 DEF Inv

LEMMA ConfigureInv ==
  ASSUME Inv, NEW s \in Sniffer, Configure(s)
  PROVE  Inv'
<1> USE PortAssumption DEF Inv, Call, loopVars, Configure, NextCall
<1>1. TypeOK'
  BY DEF TypeOK
<1>2. Agree'
  BY DEF TypeOK, Agree, NothingLeaks, Holding
<1>3. Serial'
  BY DEF TypeOK, Serial, Busy
<1>4. OwnBytes'
  BY DEF TypeOK, OwnBytes
<1>5. Loops'
  BY DEF TypeOK, Loops, LoopFacts, Serial, Busy, Agree, Holding, NothingLeaks
<1> QED
  BY <1>1, <1>2, <1>3, <1>4, <1>5 DEF Inv

LEMMA ConfigureFailsInv ==
  ASSUME Inv, NEW s \in Sniffer, ConfigureFails(s)
  PROVE  Inv'
<1> USE PortAssumption DEF Inv, Call, loopVars, ConfigureFails, Close
<1>1. TypeOK'
  BY DEF TypeOK
<1>2. Agree'
  BY DEF TypeOK, Agree, NothingLeaks, Holding
<1>3. Serial'
  BY DEF TypeOK, Serial, Busy
<1>4. OwnBytes'
  BY DEF TypeOK, OwnBytes
<1>5. Loops'
  BY DEF TypeOK, Loops, LoopFacts
<1> QED
  BY <1>1, <1>2, <1>3, <1>4, <1>5 DEF Inv

LEMMA InitFailsInv ==
  ASSUME Inv, NEW s \in Sniffer, InitFails(s)
  PROVE  Inv'
<1> USE PortAssumption DEF Inv, Call, loopVars, InitFails, Close
<1>1. TypeOK'
  BY DEF TypeOK
<1>2. Agree'
  BY DEF TypeOK, Agree, NothingLeaks, Holding
<1>3. Serial'
  BY DEF TypeOK, Serial, Busy
<1>4. OwnBytes'
  BY DEF TypeOK, OwnBytes
<1>5. Loops'
  BY DEF TypeOK, Loops, LoopFacts
<1> QED
  BY <1>1, <1>2, <1>3, <1>4, <1>5 DEF Inv

LEMMA StartForgetsInv ==
  ASSUME Inv, NEW s \in Sniffer, StartForgets(s)
  PROVE  Inv'
<1> USE PortAssumption DEF Inv, Call, loopVars, StartForgets
<1>1. TypeOK'
  BY DEF TypeOK
<1>2. Agree'
  BY DEF TypeOK, Agree, NothingLeaks, Holding
<1>3. Serial'
  BY DEF TypeOK, Serial, Busy
<1>4. OwnBytes'
  BY DEF TypeOK, OwnBytes
<1>5. Loops'
  BY DEF TypeOK, Loops, LoopFacts
<1> QED
  BY <1>1, <1>2, <1>3, <1>4, <1>5 DEF Inv

LEMMA StopClosesInv ==
  ASSUME Inv, NEW s \in Sniffer, StopCloses(s)
  PROVE  Inv'
<1> USE PortAssumption DEF Inv, Call, loopVars, StopCloses, Close, Quiet
<1>1. TypeOK'
  BY DEF TypeOK
<1>2. Agree'
  BY DEF TypeOK, Agree, NothingLeaks, Holding
<1>3. Serial'
  BY DEF TypeOK, Serial, Busy
<1>4. OwnBytes'
  BY DEF TypeOK, OwnBytes
<1>5. Loops'
  BY DEF TypeOK, Loops, LoopFacts, Serial, Busy, Agree, Holding, NothingLeaks
<1> QED
  BY <1>1, <1>2, <1>3, <1>4, <1>5 DEF Inv

LEMMA StopReturnsInv ==
  ASSUME Inv, NEW s \in Sniffer, StopReturns(s)
  PROVE  Inv'
<1> USE PortAssumption DEF Inv, Call, loopVars, StopReturns
<1>1. TypeOK'
  BY DEF TypeOK
<1>2. Agree'
  BY DEF TypeOK, Agree, NothingLeaks, Holding
<1>3. Serial'
  BY DEF TypeOK, Serial, Busy
<1>4. OwnBytes'
  BY DEF TypeOK, OwnBytes
<1>5. Loops'
  BY DEF TypeOK, Loops, LoopFacts, Serial, Busy, Agree, Holding, NothingLeaks
<1> QED
  BY <1>1, <1>2, <1>3, <1>4, <1>5 DEF Inv

LEMMA ReadBeginsInv ==
  ASSUME Inv, NEW s \in Sniffer, ReadBegins(s)
  PROVE  Inv'
<1> USE PortAssumption DEF Inv, Call, loopVars, ReadBegins
<1>1. TypeOK'
  BY DEF TypeOK
<1>2. Agree'
  BY DEF TypeOK, Agree, NothingLeaks, Holding
<1>3. Serial'
  BY DEF TypeOK, Serial, Busy
<1>4. OwnBytes'
  BY DEF TypeOK, OwnBytes
<1>5. Loops'
  BY DEF TypeOK, Loops, LoopFacts, Serial, Busy, Agree, Holding, NothingLeaks
<1> QED
  BY <1>1, <1>2, <1>3, <1>4, <1>5 DEF Inv

LEMMA ReadByteInv ==
  ASSUME Inv, NEW s \in Sniffer, ReadByte(s)
  PROVE  Inv'
<1> USE PortAssumption DEF Inv, Call, loopVars, ReadByte, Returned
<1>1. TypeOK'
  BY DEF TypeOK, Loops, LoopFacts
<1>2. Agree'
  BY DEF TypeOK, Agree, NothingLeaks, Holding
<1>3. Serial'
  BY DEF TypeOK, Serial, Busy
<1>4. OwnBytes'
  BY DEF TypeOK, OwnBytes, Loops, LoopFacts
<1>5. Loops'
  BY DEF TypeOK, Loops, LoopFacts
<1> QED
  BY <1>1, <1>2, <1>3, <1>4, <1>5 DEF Inv

LEMMA ReadTimesOutInv ==
  ASSUME Inv, NEW s \in Sniffer, ReadTimesOut(s)
  PROVE  Inv'
<1> USE PortAssumption DEF Inv, Call, loopVars, ReadTimesOut, Returned, Running
<1>1. TypeOK'
  BY DEF TypeOK
<1>2. Agree'
  BY DEF TypeOK, Agree, NothingLeaks, Holding
<1>3. Serial'
  BY DEF TypeOK, Serial, Busy
<1>4. OwnBytes'
  BY DEF TypeOK, OwnBytes
<1>5. Loops'
  BY DEF TypeOK, Loops, LoopFacts
<1> QED
  BY <1>1, <1>2, <1>3, <1>4, <1>5 DEF Inv

LEMMA ReadFailsInv ==
  ASSUME Inv, NEW s \in Sniffer, ReadFails(s)
  PROVE  Inv'
<1> USE PortAssumption DEF Inv, Call, loopVars, ReadFails, Returned
<1>1. TypeOK'
  BY DEF TypeOK
<1>2. Agree'
  BY DEF TypeOK, Agree, NothingLeaks, Holding
<1>3. Serial'
  BY DEF TypeOK, Serial, Busy
<1>4. OwnBytes'
  BY DEF TypeOK, OwnBytes
<1>5. Loops'
  BY DEF TypeOK, Loops, LoopFacts
<1> QED
  BY <1>1, <1>2, <1>3, <1>4, <1>5 DEF Inv

LEMMA StartSessionInv ==
  ASSUME Inv, NEW s \in Sniffer, NEW file \in BOOLEAN, StartSession(s, file)
  PROVE  Inv'
<1> USE PortAssumption DEF Inv, Call, loopVars, StartSession
<1>0. file => Min(Free) \in Fd /\ table[Min(Free)] = None
  BY LowestIsFree
<1>1. TypeOK'
  BY <1>0 DEF TypeOK
<1>2. Agree'
  BY <1>0 DEF TypeOK, Agree, NothingLeaks, Holding
<1>3. Serial'
  BY <1>0 DEF TypeOK, Serial, Busy
<1>4. OwnBytes'
  BY <1>0 DEF TypeOK, OwnBytes
<1>5. Loops'
  BY <1>0 DEF TypeOK, Loops, LoopFacts
<1> QED
  BY <1>1, <1>2, <1>3, <1>4, <1>5 DEF Inv

LEMMA NextInv == Inv /\ [Next]_vars => Inv'
<1> SUFFICES ASSUME Inv, [Next]_vars PROVE Inv'
  OBVIOUS
<1>1. ASSUME Next PROVE Inv'
  <2>1. PICK s \in Sniffer :
          \/ OpenFails(s) \/ Open(s) \/ Configure(s) \/ ConfigureFails(s) \/ InitFails(s)
          \/ (\E file \in BOOLEAN : StartSession(s, file)) \/ StartForgets(s)
          \/ StopCloses(s) \/ StopReturns(s) \/ ReadLoop(s)
    BY <1>1 DEF Next
  <2> QED
    BY <2>1, OpenFailsInv, OpenInv, ConfigureInv, ConfigureFailsInv, InitFailsInv,
       StartSessionInv, StartForgetsInv, StopClosesInv, StopReturnsInv,
       ReadBeginsInv, ReadByteInv, ReadTimesOutInv, ReadFailsInv DEF ReadLoop
<1>2. ASSUME UNCHANGED vars PROVE Inv'
  BY <1>2 DEF vars, loopVars, Inv, TypeOK, Agree, Holding, NothingLeaks, Serial, Busy,
              OwnBytes, Loops, LoopFacts
<1> QED
  BY <1>1, <1>2

LEMMA SpecInv == Spec => []Inv
  BY InitInv, NextInv, PTL DEF Spec

-----------------------------------------------------------------------------
(* Type correctness: descriptors are never confused with their absence,    *)
(* and a read under way is a read of somebody's tty.                       *)
THEOREM TypeCorrect == Spec => []TypeOK
<1>1. Inv => TypeOK
  BY DEF Inv
<1> QED
  BY <1>1, SpecInv, PTL

(* No read loop takes a byte off the port of another sniffer unless its    *)
(* own Start had failed, in whatever order starts, stops and reads of any  *)
(* number of sniffers come.                                                *)
THEOREM BytesAreOwn == Spec => []OwnBytes
<1>1. Inv => OwnBytes
  BY DEF Inv
<1> QED
  BY <1>1, SpecInv, PTL

(* Every path through Start and Stop closes what it opened, and nothing    *)
(* else.                                                                   *)
THEOREM DescriptorsReturned == Spec => []NothingLeaks
<1>1. Inv => NothingLeaks
  BY DEF Inv, Agree
<1> QED
  BY <1>1, SpecInv, PTL
=============================================================================
