--------------------------- MODULE SnifferProofs ---------------------------
(***************************************************************************)
(* Proofs about Sniffer for every set of callers, every flag byte they ask *)
(* for, every counter width, channel capacity and number of packets.       *)
(***************************************************************************)
EXTENDS Sniffer, TLAPS

(***************************************************************************)
(* The frames of the init sequence.                                        *)
(***************************************************************************)
LEMMA SequenceFacts ==
  /\ Len(InitSequence) = 6 /\ DOMAIN InitSequence = 1 .. 6
  /\ InitSequence[5] = "REQ_SCAN_CONT" /\ InitSequence[6] # "REQ_SCAN_CONT"
  /\ \A i \in 1 .. 6 : InitSequence[i] \in FrameId /\ InitSequence[i] # "REQ_FOLLOW"
  /\ {"REQ_SCAN_CONT", "REQ_FOLLOW", "SET_TEMPORARY_KEY"} \subseteq FrameId
<1>1. /\ Len(InitSequence) = 6 /\ DOMAIN InitSequence = 1 .. 6
      /\ InitSequence[5] = "REQ_SCAN_CONT" /\ InitSequence[6] = "SET_TEMPORARY_KEY"
  BY DEF InitSequence
<1>2. \A i \in 1 .. 6 : InitSequence[i] # "REQ_FOLLOW"
  BY DEF InitSequence
<1> QED
  BY <1>1, <1>2 DEF FrameId

(* The counter of a frame stays a uint16, and moves on by one or to zero.  *)
LEMMA BumpFacts ==
  ASSUME NEW c \in 0 .. CounterMod - 1
  PROVE  /\ Bump(c) \in 0 .. CounterMod - 1
         /\ Bump(c) = IF c = CounterMod - 1 THEN 0 ELSE c + 1
<1>1. CounterMod \in Nat /\ CounterMod > 2
  BY SizesAssumption
<1>2. CASE c = CounterMod - 1
  BY <1>1, <1>2 DEF Bump
<1>3. CASE c # CounterMod - 1
  <2>1. c + 1 \in 0 .. CounterMod - 1
    BY <1>1, <1>3
  <2>2. (c + 1) % CounterMod = c + 1
    BY <1>1, <2>1
  <2> QED
    BY <2>1, <2>2, <1>3 DEF Bump
<1> QED
  BY <1>2, <1>3

-----------------------------------------------------------------------------
(***************************************************************************)
(* Type correctness. While Start is sending there is a frame left to send. *)
(***************************************************************************)
TypeInv ==
  /\ TypeOK
  /\ life = "new" => sent = 0
  /\ life = "init" => sent < Len(InitSequence)

(* Build makes a frame and leaves a counter, Write a state of the firmware. *)
LEMMA BuildType ==
  ASSUME TypeInv, NEW id \in FrameId, NEW flags \in SUBSET ScanFlag, Build(id, flags)
  PROVE  txCounter' \in 0 .. CounterMod - 1 /\ built' \in Frame
BY BumpFacts DEF TypeInv, TypeOK, Build, Frame

LEMMA WriteType ==
  ASSUME TypeInv, NEW frame \in Frame, NEW ok \in BOOLEAN, Write(frame, ok)
  PROVE  /\ fw' \in [mode : {"idle", "scan", "follow"}, flags : SUBSET ScanFlag]
         /\ unsent' \in BOOLEAN
<1>1. frame.flags \in SUBSET ScanFlag
  BY DEF Frame
<1>2. React(frame) \in [mode : {"idle", "scan", "follow"}, flags : SUBSET ScanFlag]
  BY <1>1 DEF React, TypeInv, TypeOK
<1>3. fw' \in [mode : {"idle", "scan", "follow"}, flags : SUBSET ScanFlag]
  BY <1>2 DEF Write, TypeInv, TypeOK
<1>4. unsent' = unsent \/ unsent' = TRUE \/ unsent' = FALSE
  BY DEF Write
<1> QED
  BY <1>3, <1>4 DEF TypeInv, TypeOK

LEMMA TypeInit == Init => TypeInv
<1> SUFFICES ASSUME Init PROVE TypeInv
  OBVIOUS
<1>1. CounterMod \in Nat /\ CounterMod > 2 /\ ChanSize \in Nat
  BY SizesAssumption
<1>2. NoFrame \in Frame
  BY <1>1, SequenceFacts DEF NoFrame, Frame
<1>3. call \in [Caller -> Call] /\ calls \in [Caller -> Nat]
  BY <1>2 DEF Init, Call
<1>4. fw \in [mode : {"idle", "scan", "follow"}, flags : SUBSET ScanFlag]
  BY DEF Init
<1>5. /\ pkt \in Seq(Item) /\ Len(pkt) = 0 /\ chan \in Seq(Item) /\ Len(chan) = 0
      /\ emitted \in Nat /\ sent \in 0 .. Len(InitSequence)
  BY SequenceFacts DEF Init
<1>6. txCounter \in 0 .. CounterMod - 1 /\ scanFlags \in SUBSET ScanFlag
  BY <1>1 DEF Init, ScanFlag, ScanFlagAll
<1>7. {running, chanClosed, unsent, panic} \subseteq BOOLEAN
  BY DEF Init
<1>8. /\ built \in Frame /\ writeMu = Free /\ life = "new" /\ sent = 0
      /\ stop = "no" /\ port = "none" /\ rdr = "none"
  BY <1>2 DEF Init
<1> QED
  BY <1>1, <1>3, <1>4, <1>5, <1>6, <1>7, <1>8 DEF TypeInv, TypeOK

LEMMA TypeStep == TypeInv /\ [Next]_vars => TypeInv'
<1> SUFFICES ASSUME TypeInv, [Next]_vars PROVE TypeInv'
  OBVIOUS
<1> USE SequenceFacts DEF TypeInv, TypeOK
<1> USE DEF snifVars, ownVars, readVars, wireVars
<1>1. CASE OpenFails /\ UNCHANGED panic
  BY <1>1 DEF OpenFails
<1>2. CASE Open /\ UNCHANGED panic
  BY <1>2 DEF Open
<1>3. CASE InitLock /\ UNCHANGED panic
  BY <1>3 DEF InitLock
<1>4. ASSUME NEW ok \in BOOLEAN, InitWrite(ok), UNCHANGED panic PROVE TypeInv'
  <2> DEFINE id == InitSequence[sent + 1]
             flags == IF id = "REQ_SCAN_CONT" THEN scanFlags ELSE {}
  <2>1. id \in FrameId /\ flags \in SUBSET ScanFlag /\ Build(id, flags)
    BY <1>4 DEF InitWrite
  <2>2. txCounter' \in 0 .. CounterMod - 1 /\ built' \in Frame
    BY <2>1, BuildType
  <2>3. Write(built', ok)
    BY <1>4 DEF InitWrite
  <2>4. /\ fw' \in [mode : {"idle", "scan", "follow"}, flags : SUBSET ScanFlag]
        /\ unsent' \in BOOLEAN
    BY <2>2, <2>3, WriteType
  <2>5. CASE ok
    BY <1>4, <2>2, <2>4, <2>5 DEF InitWrite
  <2>6. CASE ~ok
    BY <1>4, <2>2, <2>4, <2>6 DEF InitWrite
  <2> QED
    BY <2>5, <2>6
<1>5. CASE StopSwap /\ UNCHANGED panic
  <2>1. /\ running' = FALSE /\ stop' = "close" /\ UNCHANGED panic
        /\ UNCHANGED <<life, sent, port, chanClosed, readVars, wireVars>>
    BY <1>5 DEF StopSwap
  <2>2. TypeOK'
    <3>1. running' \in BOOLEAN /\ stop' \in {"no", "close", "wait", "done"}
      BY <2>1
    <3> HIDE SequenceFacts
    <3> QED
      BY <2>1, <3>1
  <2>3. (life = "new" => sent = 0)' /\ (life = "init" => sent < Len(InitSequence))'
    BY <2>1
  <2> QED
    BY <2>2, <2>3
<1>6. CASE StopClosePort /\ UNCHANGED panic
  BY <1>6 DEF StopClosePort
<1>7. CASE StopCloseChan
  BY <1>7 DEF StopCloseChan
<1>8. ASSUME NEW b \in Body, ReadPacket(b), UNCHANGED panic PROVE TypeInv'
  <2>1. [n |-> emitted + 1, body |-> b] \in Item
    BY DEF Item
  <2> QED
    BY <1>8, <2>1 DEF ReadPacket
<1>9. CASE Deliver
  <2>1. chan' \in Seq(Item) /\ Len(chan') <= ChanSize
    BY <1>9, SizesAssumption DEF Deliver
  <2> QED
    BY <1>9, <2>1 DEF Deliver
<1>10. CASE ReadEnds /\ UNCHANGED panic
  BY <1>10 DEF ReadEnds
<1>11. ASSUME NEW c \in Caller, NEW op \in {"FOLLOW", "SCAN"}, NEW f \in SUBSET ScanFlag,
              Begin(c, op, f), UNCHANGED panic
       PROVE  TypeInv'
  <2>1. /\ call' = [call EXCEPT ![c] = [call[c] EXCEPT !.pc = "checked", !.op = op, !.flags = f]]
        /\ call[c] \in Call
    BY <1>11 DEF Begin
  <2>2. [call[c] EXCEPT !.pc = "checked", !.op = op, !.flags = f] \in Call
    BY <2>1 DEF Call
  <2>3. call' \in [Caller -> Call]
    BY <2>1, <2>2
  <2>4. calls' \in [Caller -> Nat]
    BY <1>11 DEF Begin
  <2> QED
    BY <1>11, <2>3, <2>4 DEF Begin
<1>12. ASSUME NEW c \in Caller, Lock(c), UNCHANGED panic PROVE TypeInv'
  <2>1. /\ call' = [call EXCEPT ![c] = [call[c] EXCEPT !.pc = "locked"]]
        /\ call[c] \in Call
    BY <1>12 DEF Lock
  <2>2. [call[c] EXCEPT !.pc = "locked"] \in Call
    BY <2>1 DEF Call
  <2>3. call' \in [Caller -> Call]
    BY <2>1, <2>2
  <2> QED
    BY <1>12, <2>3 DEF Lock
<1>13. ASSUME NEW c \in Caller, BuildFrame(c), UNCHANGED panic PROVE TypeInv'
  <2>1. call[c].flags \in SUBSET ScanFlag
    BY DEF Call
  <2>2. txCounter' \in 0 .. CounterMod - 1 /\ built' \in Frame
    BY <1>13, <2>1, BuildType DEF BuildFrame
  <2>3. /\ call' = [call EXCEPT ![c] = [call[c] EXCEPT !.pc = "write", !.frame = built']]
        /\ call[c] \in Call
    BY <1>13 DEF BuildFrame
  <2>4. [call[c] EXCEPT !.pc = "write", !.frame = built'] \in Call
    BY <2>2, <2>3 DEF Call
  <2>5. call' \in [Caller -> Call]
    BY <2>3, <2>4
  <2> QED
    BY <1>13, <2>1, <2>2, <2>5 DEF BuildFrame
<1>14. ASSUME NEW c \in Caller, NEW ok \in BOOLEAN, WriteFrame(c, ok), UNCHANGED panic
       PROVE  TypeInv'
  <2>1. call[c].frame \in Frame /\ Write(call[c].frame, ok)
    BY <1>14 DEF WriteFrame, Call
  <2>2. /\ fw' \in [mode : {"idle", "scan", "follow"}, flags : SUBSET ScanFlag]
        /\ unsent' \in BOOLEAN
    BY <2>1, WriteType
  <2>3. /\ call' = [call EXCEPT ![c] = [call[c] EXCEPT !.pc = "idle", !.ok = ok]]
        /\ call[c] \in Call
    BY <1>14 DEF WriteFrame
  <2>4. [call[c] EXCEPT !.pc = "idle", !.ok = ok] \in Call
    BY <2>3 DEF Call
  <2>5. call' \in [Caller -> Call]
    BY <2>3, <2>4
  <2> QED
    BY <1>14, <2>2, <2>5 DEF WriteFrame
<1>15. CASE Take /\ UNCHANGED panic
  <2>1. chan' \in Seq(Item) /\ Len(chan') <= ChanSize
    BY <1>15, SizesAssumption DEF Take
  <2> QED
    BY <1>15, <2>1 DEF Take
<1>16. CASE UNCHANGED vars
  BY <1>16 DEF vars
<1> HIDE DEF TypeInv, TypeOK, snifVars, ownVars, readVars, wireVars
<1> QED
  BY <1>1, <1>2, <1>3, <1>4, <1>5, <1>6, <1>7, <1>8, <1>9, <1>10, <1>11, <1>12,
     <1>13, <1>14, <1>15, <1>16, NamesAssumption DEF Next, Calm, Start, CallStep

(* In every reachable state each variable has its type: the mutex is held  *)
(* by one of the goroutines that write, the channel holds at most its      *)
(* capacity and the counter stays within its width.                        *)
THEOREM TypeCorrect == Spec => []TypeOK
<1>1. TypeInv => TypeOK
  BY DEF TypeInv
<1> QED
  BY <1>1, TypeInit, TypeStep, PTL DEF Spec

-----------------------------------------------------------------------------
(***************************************************************************)
(* The packet channel is closed by the end of Stop, when the read loop has *)
(* ended. No send can come later, since a read loop never starts again,    *)
(* and no second close, since Stop does not begin again.                   *)
(***************************************************************************)
ClosingInv ==
  /\ stop # "no" => life = "up"
  /\ stop # "no" => ~running
  /\ chanClosed => stop = "done" /\ rdr = "done"
  /\ NoPanic

LEMMA ClosingStep == ClosingInv /\ [Next]_vars => ClosingInv'
<1> SUFFICES ASSUME ClosingInv, [Next]_vars PROVE ClosingInv'
  OBVIOUS
<1> USE DEF ClosingInv, NoPanic, snifVars, ownVars, readVars, wireVars
<1>1. CASE Start /\ UNCHANGED panic
  BY <1>1 DEF Start, OpenFails, Open, InitLock, InitWrite
<1>2. CASE (StopSwap \/ StopClosePort) /\ UNCHANGED panic
  BY <1>2 DEF StopSwap, StopClosePort
<1>3. CASE StopCloseChan
  BY <1>3 DEF StopCloseChan
<1>4. ASSUME NEW b \in Body, ReadPacket(b), UNCHANGED panic PROVE ClosingInv'
  BY <1>4 DEF ReadPacket
<1>5. CASE Deliver
  BY <1>5 DEF Deliver
<1>6. CASE ReadEnds /\ UNCHANGED panic
  BY <1>6 DEF ReadEnds
<1>7. CASE UNCHANGED <<ownVars, rdr, panic>>
  BY <1>7
<1> QED
  BY <1>1, <1>2, <1>3, <1>4, <1>5, <1>6, <1>7
     DEF Next, Calm, CallStep, Begin, Lock, BuildFrame, WriteFrame, Take, vars

(* No goroutine ever sends on the closed packet channel or closes it       *)
(* again, for every interleaving of Start, Stop, packets and commands.     *)
THEOREM NeverPanics == Spec => []NoPanic
<1>1. Init => ClosingInv
  BY DEF Init, ClosingInv, NoPanic
<1>2. ClosingInv => NoPanic
  BY DEF ClosingInv
<1> QED
  BY <1>1, <1>2, ClosingStep, PTL DEF Spec

-----------------------------------------------------------------------------
(***************************************************************************)
(* The counter on the wire. The counter is either the one of the last      *)
(* frame, when that was a REQ_FOLLOW, or the one after it.                 *)
(***************************************************************************)
CounterInv ==
  /\ TypeInv
  /\ txCounter = IF built.id = "REQ_FOLLOW" THEN built.ctr ELSE Bump(built.ctr)

NoReuse ==
  built'.ctr = built.ctr => built.id = "REQ_FOLLOW" /\ built'.id # "REQ_FOLLOW"

LEMMA BuildCounter ==
  ASSUME CounterInv, NEW id \in FrameId, NEW flags \in SUBSET ScanFlag, Build(id, flags)
  PROVE  /\ txCounter' = IF built'.id = "REQ_FOLLOW" THEN built'.ctr ELSE Bump(built'.ctr)
         /\ NoReuse
<1>1. CounterMod \in Nat /\ CounterMod > 2
  BY SizesAssumption
<1>2. built.ctr \in 0 .. CounterMod - 1 /\ txCounter \in 0 .. CounterMod - 1
  BY DEF CounterInv, TypeInv, TypeOK, Frame
<1>3. /\ built'.id = id /\ txCounter' = Bump(txCounter)
      /\ built'.ctr = IF id = "REQ_FOLLOW" THEN Bump(txCounter) ELSE txCounter
  BY DEF Build
<1>4. /\ Bump(built.ctr) \in 0 .. CounterMod - 1 /\ Bump(built.ctr) # built.ctr
      /\ Bump(Bump(built.ctr)) # built.ctr
  BY <1>1, <1>2, BumpFacts
<1> QED
  BY <1>3, <1>4 DEF CounterInv, NoReuse

LEMMA CounterStep ==
  CounterInv /\ [Next]_vars => CounterInv' /\ [NoReuse]_<<built, txCounter>>
<1> SUFFICES ASSUME CounterInv, [Next]_vars
             PROVE  CounterInv' /\ [NoReuse]_<<built, txCounter>>
  OBVIOUS
<1>t. TypeInv'
  BY TypeStep DEF CounterInv
<1>1. ASSUME NEW ok \in BOOLEAN, InitWrite(ok)
      PROVE  CounterInv' /\ NoReuse
  <2>1. sent + 1 \in 1 .. 6
    BY <1>1, SequenceFacts DEF InitWrite, CounterInv, TypeInv, TypeOK
  <2>2. /\ InitSequence[sent + 1] \in FrameId
        /\ scanFlags \in SUBSET ScanFlag /\ {} \in SUBSET ScanFlag
    BY <2>1, SequenceFacts DEF CounterInv, TypeInv, TypeOK
  <2>3. Build(InitSequence[sent + 1],
              IF InitSequence[sent + 1] = "REQ_SCAN_CONT" THEN scanFlags ELSE {})
    BY <1>1 DEF InitWrite
  <2> QED
    BY <1>t, <2>2, <2>3, BuildCounter DEF CounterInv
<1>2. ASSUME NEW c \in Caller, BuildFrame(c)
      PROVE  CounterInv' /\ NoReuse
  <2>1. call[c].flags \in SUBSET ScanFlag /\ {} \in SUBSET ScanFlag
    BY DEF CounterInv, TypeInv, TypeOK, Call
  <2> QED
    BY <1>2, <1>t, <2>1, SequenceFacts, BuildCounter DEF BuildFrame, CounterInv
<1>3. CASE UNCHANGED <<built, txCounter>>
  BY <1>3, <1>t DEF CounterInv
<1> QED
  BY <1>1, <1>2, <1>3
     DEF Next, Calm, Start, OpenFails, Open, InitLock, StopSwap, StopClosePort,
         StopCloseChan, ReadPacket, Deliver, ReadEnds, CallStep, Begin, Lock,
         WriteFrame, Take, vars, snifVars, ownVars, readVars, wireVars

(* For every width of the counter and every order of commands, two frames  *)
(* in a row share a counter only when a command follows a REQ_FOLLOW.      *)
THEOREM CountersDiffer == Spec => CounterReuse
<1>1. Init => CounterInv
  <2> SUFFICES ASSUME Init PROVE CounterInv
    OBVIOUS
  <2>1. CounterMod \in Nat /\ CounterMod > 2
    BY SizesAssumption
  <2>2. built.id # "REQ_FOLLOW" /\ built.ctr = CounterMod - 1 /\ txCounter = 0
    BY DEF Init, NoFrame
  <2> QED
    BY <2>1, <2>2, BumpFacts, TypeInit DEF CounterInv
<1> QED
  BY <1>1, CounterStep, PTL DEF Spec, CounterReuse, NoReuse

-----------------------------------------------------------------------------
(***************************************************************************)
(* The flags of the firmware. writeMu makes a command's assignment of      *)
(* scanFlags and its write one step to the others: the one caller that has *)
(* built a REQ_SCAN_CONT and not yet written it holds the mutex, and the   *)
(* frame carries scanFlags.                                                *)
(***************************************************************************)
LockInv ==
  /\ \A c \in Caller : call[c].pc \in {"locked", "write"} <=> writeMu = c
  /\ \A c \in Caller : call[c].pc # "idle" => life = "up"
  /\ writeMu = Owner => life = "init"
  /\ life = "init" /\ sent > 0 => writeMu = Owner

(* Caller c is about to write a REQ_SCAN_CONT.                             *)
Pending(c) == call[c].pc = "write" /\ call[c].frame.id = "REQ_SCAN_CONT"

FlagsInv ==
  /\ TypeInv
  /\ LockInv
  /\ \A c \in Caller : Pending(c) => call[c].frame.flags = scanFlags
  /\ life = "init" /\ sent >= 5 => ~unsent /\ fw.flags = scanFlags
  /\ life = "up" /\ ~unsent /\ (\A c \in Caller : ~Pending(c)) => fw.flags = scanFlags

(* A write changes the firmware's flags only to those of a REQ_SCAN_CONT.  *)
LEMMA WriteFlags ==
  ASSUME TypeInv, NEW frame \in Frame, NEW ok \in BOOLEAN, Write(frame, ok)
  PROVE  /\ frame.id # "REQ_SCAN_CONT" => fw'.flags = fw.flags /\ unsent' = unsent
         /\ frame.id = "REQ_SCAN_CONT" => (ok => fw'.flags = frame.flags) /\ unsent' = ~ok
<1>1. fw \in [mode : {"idle", "scan", "follow"}, flags : SUBSET ScanFlag]
  BY DEF TypeInv, TypeOK
<1>2. CASE frame.id = "REQ_SCAN_CONT"
  BY <1>2 DEF Write, React
<1>3. CASE frame.id = "REQ_FOLLOW"
  BY <1>1, <1>3 DEF Write, React
<1>4. CASE frame.id \notin {"REQ_SCAN_CONT", "REQ_FOLLOW"}
  BY <1>4 DEF Write, React
<1> QED
  BY <1>2, <1>3, <1>4

(* The callers' part of the state, and how the steps of a call change it.  *)
LEMMA CallStepFacts ==
  ASSUME TypeInv, NEW c \in Caller
  PROVE  /\ Lock(c) => /\ call' \in [Caller -> Call]
                       /\ call'[c].pc = "locked"
                       /\ \A d \in Caller \ {c} : call'[d] = call[d]
         /\ BuildFrame(c) => /\ call'[c].pc = "write" /\ call'[c].frame = built'
                             /\ \A d \in Caller \ {c} : call'[d] = call[d]
         /\ \A ok \in BOOLEAN :
              WriteFrame(c, ok) => /\ call'[c].pc = "idle"
                                   /\ \A d \in Caller \ {c} : call'[d] = call[d]
         /\ \A op, f : Begin(c, op, f) => /\ call'[c].pc = "checked"
                                          /\ \A d \in Caller \ {c} : call'[d] = call[d]
<1>1. call \in [Caller -> Call] /\ call[c] \in Call
  BY DEF TypeInv, TypeOK
<1>2. ASSUME Lock(c)
      PROVE  /\ call' \in [Caller -> Call] /\ call'[c].pc = "locked"
             /\ \A d \in Caller \ {c} : call'[d] = call[d]
  <2>1. call' = [call EXCEPT ![c] = [call[c] EXCEPT !.pc = "locked"]]
    BY <1>2 DEF Lock
  <2>2. [call[c] EXCEPT !.pc = "locked"] \in Call
    BY <1>1 DEF Call
  <2> QED
    BY <1>1, <2>1, <2>2 DEF Call
<1>3. ASSUME BuildFrame(c)
      PROVE  /\ call'[c].pc = "write" /\ call'[c].frame = built'
             /\ \A d \in Caller \ {c} : call'[d] = call[d]
  BY <1>1, <1>3 DEF BuildFrame, Call
<1>4. ASSUME NEW ok \in BOOLEAN, WriteFrame(c, ok)
      PROVE  call'[c].pc = "idle" /\ \A d \in Caller \ {c} : call'[d] = call[d]
  BY <1>1, <1>4 DEF WriteFrame, Call
<1>5. ASSUME NEW op, NEW f, Begin(c, op, f)
      PROVE  call'[c].pc = "checked" /\ \A d \in Caller \ {c} : call'[d] = call[d]
  BY <1>1, <1>5 DEF Begin, Call
<1> QED
  BY <1>2, <1>3, <1>4, <1>5

LEMMA FlagsStep == FlagsInv /\ [Next]_vars => FlagsInv'
<1> SUFFICES ASSUME FlagsInv, [Next]_vars PROVE FlagsInv'
  OBVIOUS
<1>t. TypeInv /\ TypeInv' /\ LockInv
  BY TypeStep DEF FlagsInv
<1>n. Owner \notin Caller /\ Free \notin Caller /\ Owner # Free
  BY NamesAssumption
<1> USE DEF snifVars, ownVars, readVars, wireVars
<1>1. CASE OpenFails \/ Open \/ InitLock
  <2>1. /\ UNCHANGED <<call, sent, scanFlags, fw, unsent>> /\ life # "up" /\ life' # "up"
    BY <1>1 DEF OpenFails, Open, InitLock
  <2>2. life' = "init" => life = "init" \/ sent = 0
    BY <1>1, <1>t DEF OpenFails, Open, InitLock, TypeInv
  <2>3. LockInv'
    BY <1>1, <1>t, <1>n, <2>1, <2>2 DEF OpenFails, Open, InitLock, LockInv, TypeInv
  <2>4. \A c \in Caller : ~Pending(c)'
    BY <1>t, <2>1 DEF LockInv, Pending
  <2> QED
    BY <1>t, <2>1, <2>2, <2>3, <2>4 DEF FlagsInv
<1>2. ASSUME NEW ok \in BOOLEAN, InitWrite(ok) PROVE FlagsInv'
  <2>1. /\ life = "init" /\ writeMu = Owner /\ sent \in 0 .. 5
        /\ UNCHANGED <<call, scanFlags>>
    BY <1>2, <1>t, SequenceFacts DEF InitWrite, TypeInv, TypeOK
  <2>2. \A c \in Caller : call[c].pc = "idle"
    BY <1>t, <2>1 DEF LockInv
  <2>3. /\ built'.id = InitSequence[sent + 1] /\ built' \in Frame
        /\ built'.id = "REQ_SCAN_CONT" => built'.flags = scanFlags
    BY <1>2, <1>t DEF InitWrite, Build, TypeInv, TypeOK
  <2>4. /\ built'.id # "REQ_SCAN_CONT" => fw'.flags = fw.flags /\ unsent' = unsent
        /\ built'.id = "REQ_SCAN_CONT" => (ok => fw'.flags = scanFlags) /\ unsent' = ~ok
    BY <1>2, <1>t, <2>3, WriteFlags DEF InitWrite
  <2>5. LockInv'
    BY <1>2, <1>n, <2>1, <2>2, SequenceFacts DEF InitWrite, LockInv
  <2>6. CASE ~ok
    BY <1>2, <1>t, <2>1, <2>2, <2>5, <2>6 DEF InitWrite, FlagsInv, Pending
  <2>7. CASE ok
    <3>1. sent' = sent + 1 /\ life' = IF sent' = 6 THEN "up" ELSE "init"
      BY <1>2, <2>7, SequenceFacts DEF InitWrite
    <3>2. sent' >= 5 => ~unsent' /\ fw'.flags = scanFlags
      <4>1. CASE sent = 4
        <5>1. built'.id = "REQ_SCAN_CONT"
          BY <2>3, <4>1, SequenceFacts
        <5> QED
          BY <2>4, <2>7, <5>1
      <4>2. CASE sent = 5
        BY <2>1, <2>3, <2>4, <4>2, SequenceFacts DEF FlagsInv
      <4> QED
        BY <2>1, <3>1, <4>1, <4>2
    <3>3. life' = "up" => sent' >= 5
      BY <3>1
    <3> QED
      BY <1>t, <2>1, <2>2, <2>5, <3>2, <3>3 DEF FlagsInv, Pending
  <2> QED
    BY <2>6, <2>7
<1>3. ASSUME NEW c \in Caller, Lock(c) PROVE FlagsInv'
  <2>1. /\ call'[c].pc = "locked" /\ \A d \in Caller \ {c} : call'[d] = call[d]
        /\ call[c].pc = "checked" /\ writeMu = Free /\ writeMu' = c
        /\ UNCHANGED <<life, sent, scanFlags, fw, unsent>>
    BY <1>3, <1>t, CallStepFacts DEF Lock
  <2>2. LockInv' /\ \A d \in Caller : Pending(d)' => Pending(d) /\ call'[d] = call[d]
    BY <1>n, <1>t, <2>1 DEF LockInv, Pending
  <2>3. \A d \in Caller : ~Pending(d)
    BY <1>t, <1>n, <2>1 DEF LockInv, Pending
  <2> QED
    BY <1>t, <2>1, <2>2, <2>3 DEF FlagsInv
<1>4. ASSUME NEW c \in Caller, BuildFrame(c) PROVE FlagsInv'
  <2>1. /\ call'[c].pc = "write" /\ call'[c].frame = built'
        /\ \A d \in Caller \ {c} : call'[d] = call[d]
        /\ call[c].pc = "locked" /\ UNCHANGED <<writeMu, life, sent, fw, unsent>>
    BY <1>4, <1>t, CallStepFacts DEF BuildFrame
  <2>2. writeMu = c /\ life = "up" /\ \A d \in Caller : ~Pending(d)
    BY <1>t, <2>1 DEF LockInv, Pending
  <2>3. LockInv' /\ \A d \in Caller \ {c} : ~Pending(d)'
    BY <1>t, <2>1, <2>2 DEF LockInv, Pending
  <2>4. CASE call[c].op = "FOLLOW"
    <3>1. built'.id = "REQ_FOLLOW" /\ scanFlags' = scanFlags
      BY <1>4, <2>4 DEF BuildFrame, Build
    <3>2. ~Pending(c)'
      BY <2>1, <3>1 DEF Pending
    <3> QED
      BY <1>t, <2>1, <2>2, <2>3, <3>1, <3>2 DEF FlagsInv
  <2>5. CASE call[c].op # "FOLLOW"
    <3>1. built'.id = "REQ_SCAN_CONT" /\ built'.flags = scanFlags'
      BY <1>4, <2>5 DEF BuildFrame, Build
    <3>2. Pending(c)'
      BY <2>1, <3>1 DEF Pending
    <3> QED
      BY <1>t, <2>1, <2>2, <2>3, <3>1, <3>2 DEF FlagsInv
  <2> QED
    BY <2>4, <2>5
<1>5. ASSUME NEW c \in Caller, NEW ok \in BOOLEAN, WriteFrame(c, ok) PROVE FlagsInv'
  <2>1. /\ call'[c].pc = "idle" /\ \A d \in Caller \ {c} : call'[d] = call[d]
        /\ call[c].pc = "write" /\ writeMu' = Free
        /\ UNCHANGED <<life, sent, scanFlags>>
    BY <1>5, <1>t, CallStepFacts DEF WriteFrame
  <2>2. writeMu = c /\ life = "up" /\ \A d \in Caller \ {c} : ~Pending(d)
    BY <1>t, <2>1 DEF LockInv, Pending
  <2>3. LockInv' /\ \A d \in Caller : ~Pending(d)'
    BY <1>t, <1>n, <2>1, <2>2 DEF LockInv, Pending
  <2>4. /\ call[c].frame.id # "REQ_SCAN_CONT" => fw'.flags = fw.flags /\ unsent' = unsent
        /\ call[c].frame.id = "REQ_SCAN_CONT" =>
             (ok => fw'.flags = call[c].frame.flags) /\ unsent' = ~ok
    <3>1. call[c].frame \in Frame
      BY <1>t DEF TypeInv, TypeOK, Call
    <3> QED
      BY <1>5, <1>t, <3>1, WriteFlags DEF WriteFrame
  <2>5. ~unsent' => fw'.flags = scanFlags
    <3>1. CASE call[c].frame.id = "REQ_SCAN_CONT"
      <4>1. call[c].frame.flags = scanFlags
        BY <2>1, <3>1 DEF FlagsInv, Pending
      <4> QED
        BY <2>4, <3>1, <4>1
    <3>2. CASE call[c].frame.id # "REQ_SCAN_CONT"
      <4>1. \A d \in Caller : ~Pending(d)
        BY <2>2, <3>2 DEF Pending
      <4> QED
        BY <2>2, <2>4, <3>2, <4>1 DEF FlagsInv
    <3> QED
      BY <3>1, <3>2
  <2> QED
    BY <1>t, <2>1, <2>2, <2>3, <2>5 DEF FlagsInv
<1>6. ASSUME NEW c \in Caller, NEW op, NEW f, Begin(c, op, f) PROVE FlagsInv'
  <2>1. /\ call'[c].pc = "checked" /\ \A d \in Caller \ {c} : call'[d] = call[d]
        /\ call[c].pc = "idle" /\ life = "up"
        /\ UNCHANGED <<life, sent, writeMu, scanFlags, fw, unsent>>
    BY <1>6, <1>t, CallStepFacts DEF Begin
  <2>2. LockInv' /\ \A d \in Caller : Pending(d)' <=> Pending(d)
    BY <1>t, <2>1 DEF LockInv, Pending
  <2>3. \A d \in Caller : Pending(d)' => call'[d] = call[d]
    BY <2>1 DEF Pending
  <2> QED
    BY <1>t, <2>1, <2>2, <2>3 DEF FlagsInv
<1>7. CASE UNCHANGED <<life, sent, wireVars>>
  <2>1. LockInv' /\ \A c \in Caller : Pending(c)' <=> Pending(c)
    BY <1>7, <1>t DEF LockInv, Pending
  <2> QED
    BY <1>7, <1>t, <2>1 DEF FlagsInv
<1> QED
  BY <1>1, <1>2, <1>3, <1>4, <1>5, <1>6, <1>7
     DEF Next, Calm, Start, StopSwap, StopClosePort, StopCloseChan, ReadPacket,
         Deliver, ReadEnds, CallStep, Take, vars

(* Two updates of the scan flags never reach the firmware in the other     *)
(* order than they changed scanFlags: whenever the port is at rest and the *)
(* last REQ_SCAN_CONT was written, the firmware scans with scanFlags.      *)
THEOREM FirmwareAgrees == Spec => []FlagsAgree
<1>1. Init => FlagsInv
  BY TypeInit, NamesAssumption DEF Init, FlagsInv, LockInv, Pending
<1>2. FlagsInv => FlagsAgree
  <2> SUFFICES ASSUME FlagsInv, writeMu = Free PROVE \A c \in Caller : ~Pending(c)
    BY DEF FlagsInv, FlagsAgree
  <2> QED
    BY NamesAssumption DEF FlagsInv, LockInv, Pending
<1> QED
  BY <1>1, <1>2, FlagsStep, PTL DEF Spec

-----------------------------------------------------------------------------
(***************************************************************************)
(* The order of packets. Every packet in the channel or in the read loop's *)
(* hand has a number up to emitted, which the next one exceeds; and the    *)
(* read loop holds a packet only while it is about to send it.             *)
(***************************************************************************)
Increasing(s) == \A i, j \in DOMAIN s : i < j => s[i].n < s[j].n
Upto(s, n) == \A i \in DOMAIN s : s[i].n <= n

OrderInv ==
  /\ TypeInv
  /\ Increasing(chan \o pkt) /\ Upto(chan \o pkt, emitted)
  /\ rdr # "send" => pkt = <<>>
  /\ life = "new" => rdr = "none"

(* An increasing sequence stays one without its head, without its end and  *)
(* with a larger packet at its end.                                        *)
LEMMA TailKeepsOrder ==
  ASSUME NEW s \in Seq(Item), NEW p \in Seq(Item), NEW n \in Nat, s # <<>>, Len(p) <= 1,
         Increasing(s \o p), Upto(s \o p, n)
  PROVE  Increasing(Tail(s) \o p) /\ Upto(Tail(s) \o p, n)
<1> DEFINE l == s \o p
           t == Tail(s) \o p
<1>1. Len(s) \in Nat /\ Len(p) \in Nat /\ Len(s) > 0
  OBVIOUS
<1>2. DOMAIN l = 1 .. Len(s) + Len(p) /\ DOMAIN t = 1 .. Len(s) - 1 + Len(p)
  BY <1>1
<1>3. ASSUME NEW i \in DOMAIN t PROVE i + 1 \in DOMAIN l /\ t[i] = l[i + 1]
  BY <1>1, <1>2, <1>3
<1> HIDE DEF l, t
<1>4. Increasing(t) /\ Upto(t, n)
  <2>1. ASSUME NEW i \in DOMAIN t, NEW j \in DOMAIN t, i < j PROVE t[i].n < t[j].n
    <3>1. i + 1 < j + 1
      BY <1>1, <1>2, <2>1
    <3> QED
      BY <1>3, <3>1 DEF Increasing, l
  <2> QED
    BY <1>3, <2>1 DEF Increasing, Upto, l
<1> QED
  BY <1>4 DEF t

LEMMA FrontKeepsOrder ==
  ASSUME NEW s \in Seq(Item), NEW p \in Seq(Item), NEW n \in Nat,
         Increasing(s \o p), Upto(s \o p, n)
  PROVE  Increasing(s) /\ Upto(s, n)
<1>1. \A i \in DOMAIN s : i \in DOMAIN (s \o p) /\ (s \o p)[i] = s[i]
  OBVIOUS
<1> QED
  BY <1>1 DEF Increasing, Upto

LEMMA PushKeepsOrder ==
  ASSUME NEW s \in Seq(Item), NEW x \in Item, NEW n \in Nat, x.n = n + 1,
         Increasing(s), Upto(s, n)
  PROVE  Increasing(s \o <<x>>) /\ Upto(s \o <<x>>, n + 1)
<1> DEFINE l == s \o <<x>>
<1>1. Len(s) \in Nat /\ DOMAIN s = 1 .. Len(s) /\ DOMAIN l = 1 .. Len(s) + 1
  OBVIOUS
<1>2. l[Len(s) + 1] = x /\ \A i \in DOMAIN s : l[i] = s[i]
  OBVIOUS
<1>3. \A i \in DOMAIN s : s[i].n \in Nat
  <2>1. \A i \in DOMAIN s : s[i] \in Item
    OBVIOUS
  <2>2. \A y \in Item : y.n \in Nat
    BY DEF Item
  <2> QED
    BY <2>1, <2>2
<1> HIDE DEF l
<1>4. ASSUME NEW i \in DOMAIN l, NEW j \in DOMAIN l, i < j PROVE l[i].n < l[j].n
  <2>1. i \in DOMAIN s /\ l[i].n <= n /\ l[i].n \in Nat
    BY <1>1, <1>2, <1>3, <1>4 DEF Upto
  <2>2. CASE j = Len(s) + 1
    BY <1>2, <2>1, <2>2
  <2>3. CASE j # Len(s) + 1
    BY <1>1, <1>2, <1>4, <2>1, <2>3 DEF Increasing
  <2> QED
    BY <2>2, <2>3
<1>5. ASSUME NEW i \in DOMAIN l PROVE l[i].n <= n + 1
  BY <1>1, <1>2, <1>3 DEF Upto
<1>6. Increasing(l) /\ Upto(l, n + 1)
  BY <1>4, <1>5 DEF Increasing, Upto
<1> QED
  BY <1>6 DEF l

LEMMA OrderStep == OrderInv /\ [Next]_vars => OrderInv'
<1> SUFFICES ASSUME OrderInv, [Next]_vars PROVE OrderInv'
  OBVIOUS
<1>t. TypeInv'
  BY TypeStep DEF OrderInv
<1>s. /\ chan \in Seq(Item) /\ pkt \in Seq(Item) /\ Len(pkt) <= 1 /\ emitted \in Nat
      /\ Increasing(chan \o pkt) /\ Upto(chan \o pkt, emitted)
  BY DEF OrderInv, TypeInv, TypeOK
<1>1. ASSUME NEW b \in Body, ReadPacket(b) PROVE OrderInv'
  <2> DEFINE x == [n |-> emitted + 1, body |-> b]
  <2>1. pkt = <<>> /\ chan \o pkt = chan
    BY <1>1, <1>s DEF OrderInv, ReadPacket
  <2>2. x \in Item /\ x.n = emitted + 1
    BY <1>s DEF Item
  <2>3. chan' = chan /\ pkt' = <<x>> /\ emitted' = emitted + 1 /\ rdr' = "send"
    BY <1>1 DEF ReadPacket
  <2>5. life' # "new"
    BY <1>1 DEF ReadPacket, ownVars, OrderInv
  <2> HIDE DEF x
  <2>4. Increasing(chan \o <<x>>) /\ Upto(chan \o <<x>>, emitted + 1)
    BY <1>s, <2>1, <2>2, PushKeepsOrder
  <2> QED
    BY <1>t, <2>3, <2>4, <2>5 DEF OrderInv
<1>2. CASE Deliver
  <2>1. pkt' = <<>> /\ emitted' = emitted /\ chan' \in Seq(Item) /\ chan' \o pkt' = chan'
    BY <1>2, <1>t DEF Deliver, TypeInv, TypeOK
  <2>3. life' # "new"
    BY <1>2 DEF Deliver, ownVars, OrderInv
  <2>2. Increasing(chan') /\ Upto(chan', emitted)
    <3>1. CASE chan' = chan
      BY <1>s, <3>1, FrontKeepsOrder
    <3>2. CASE chan' = chan \o pkt
      BY <1>s, <3>2
    <3> QED
      BY <1>2, <3>1, <3>2 DEF Deliver
  <2> QED
    BY <1>t, <2>1, <2>2, <2>3 DEF OrderInv
<1>3. CASE Take
  <2>1. chan # <<>> /\ chan' = Tail(chan) /\ UNCHANGED <<pkt, emitted, rdr, life>>
    BY <1>3 DEF Take, ownVars
  <2>2. Increasing(Tail(chan) \o pkt) /\ Upto(Tail(chan) \o pkt, emitted)
    BY <1>s, <2>1, TailKeepsOrder
  <2> QED
    BY <1>t, <2>1, <2>2 DEF OrderInv
<1>4. CASE /\ UNCHANGED <<chan, pkt, emitted>>
           /\ (rdr' = "send" <=> rdr = "send")
           /\ (life' = "new" => life = "new" /\ rdr' = rdr)
  BY <1>t, <1>4 DEF OrderInv
<1>5. CASE Start
  BY <1>4, <1>5 DEF OrderInv, Start, OpenFails, Open, InitLock, InitWrite,
     readVars, ownVars
<1>6. CASE StopSwap \/ StopClosePort \/ StopCloseChan \/ ReadEnds
  BY <1>4, <1>6 DEF OrderInv, StopSwap, StopClosePort, StopCloseChan, ReadEnds,
     readVars, ownVars
<1>7. ASSUME NEW c \in Caller,
             (\E f \in FlagChoice : Begin(c, "SCAN", f)) \/ Begin(c, "FOLLOW", {}) \/ CallStep(c)
      PROVE  OrderInv'
  BY <1>4, <1>7 DEF Begin, CallStep, Lock, BuildFrame, WriteFrame, readVars, ownVars
<1>8. CASE UNCHANGED vars
  BY <1>4, <1>8 DEF vars, snifVars, readVars, ownVars
<1> QED
  BY <1>1, <1>2, <1>3, <1>5, <1>6, <1>7, <1>8 DEF Next, Calm

(* The channel keeps the order of the dongle and holds no packet twice,    *)
(* whatever is lost while it is full and whenever the consumer takes one.  *)
THEOREM ChannelOrdered == Spec => []InOrder
<1>1. Init => OrderInv
  <2> SUFFICES ASSUME Init PROVE OrderInv
    OBVIOUS
  <2>1. chan \o pkt = <<>> /\ pkt = <<>>
    BY DEF Init
  <2> QED
    BY <2>1, TypeInit DEF Init, OrderInv, Increasing, Upto
<1>2. OrderInv => InOrder
  <2> SUFFICES ASSUME OrderInv PROVE InOrder
    OBVIOUS
  <2>1. /\ chan \in Seq(Item) /\ pkt \in Seq(Item) /\ emitted \in Nat
        /\ Increasing(chan \o pkt) /\ Upto(chan \o pkt, emitted)
    BY DEF OrderInv, TypeInv, TypeOK
  <2>2. Increasing(chan)
    BY <2>1, FrontKeepsOrder
  <2> QED
    BY <2>2 DEF Increasing, InOrder
<1> QED
  BY <1>1, <1>2, OrderStep, PTL DEF Spec
=============================================================================
