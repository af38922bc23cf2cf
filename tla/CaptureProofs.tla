--------------------------- MODULE CaptureProofs ---------------------------
(***************************************************************************)
(* Proofs about Capture for a program that stops it at most once: for      *)
(* every filter, follow address, port behaviour, channel capacity and      *)
(* number of packets and commands.                                         *)
(***************************************************************************)
EXTENDS Capture, TLAPS

SnifP == INSTANCE SnifferProofs

(* A second Stop panics: see StopRepeatable.                               *)
Once == MaxStops <= 1

(* The sniffer keeps the invariants proved of it.                          *)
SnifInv == SnifP!TypeInv /\ SnifP!ClosingInv /\ SnifP!FlagsInv

(* The store's own part of the state.                                      *)
StoreTypes ==
  /\ con \in {"none", "select", "process", "append", "done"}
  /\ cur \in Sto!Item \cup {NoItem}
  /\ storeStop \in BOOLEAN /\ filter \in SUBSET Entry
  /\ log \in Seq(Sto!Item) /\ seenExt \in BOOLEAN /\ mark \in Nat
  /\ con \in {"process", "append"} => cur \in Sto!Item

CaptureTypes ==
  /\ own \in {"new", "starting", "startFollow", "startErr", "failing", "failed",
              "up", "waitTune", "snifStop", "storeWait", "down"}
  /\ stops \in Nat /\ tuneStop \in BOOLEAN
  /\ tune \in {"none", "wait", "check", "flags", "ext", "update", "done"}
  /\ tuneCur \in SUBSET Snif!ScanFlag /\ extSeen \in BOOLEAN
  /\ followAddr \in FollowAddrs /\ want \in {"none", "valid", "empty"}

(* What the sniffer's own Start and Stop have done.                        *)
PortInv ==
  /\ life \in {"new", "failed"} => ~running /\ port # "open"
  /\ life = "init" => running
  /\ life = "up" => (stop = "no" <=> running)
  /\ stop \in {"wait", "done"} => port = "closed"
  /\ stop = "done" => rdr = "done" /\ chanClosed

Starting == {"new", "starting", "startFollow", "startErr"}
Stopping == {"snifStop", "storeWait", "down"}

(* How far the owner has come tells what runs.                             *)
OwnInv ==
  /\ own = "new" <=> con = "none"
  /\ own = "new" => life = "new"
  /\ own \in {"failing", "failed"} => life = "failed"
  /\ own \in {"startFollow", "startErr", "up", "waitTune"} \cup Stopping => life = "up"
  /\ tune = "none" <=> own \in Starting \cup {"failing", "failed"}
  /\ stop # "no" <=> own \in Stopping
  /\ own \in Stopping => tune = "done"
  /\ own \in {"storeWait", "down"} => stop = "done"
  /\ storeStop => own \in {"failing", "failed", "storeWait", "down"}
  /\ own \in {"failed", "down"} => con = "done"
  /\ own \in {"waitTune"} \cup Stopping => stops >= 1
  /\ call[Controller].pc # "idle" => own \in {"startFollow", "up"}

(* Only the auto-tuner changes the scan flags, once, to what the evidence  *)
(* allows, and never in follow mode.                                       *)
TuneInv ==
  /\ tune \in {"none", "wait", "check", "flags", "ext"} => scanFlags = Snif!ScanFlagAll
  /\ tune = "ext" => tuneCur = Snif!ScanFlagAll
  /\ scanFlags = Snif!ScanFlagAll \/ (scanFlags = {"SCAN_RSP"} /\ ~extSeen)
  /\ extSeen => seenExt
  /\ call[Tuner].pc # "idle" =>
       /\ tune = "update" /\ ~extSeen
       /\ call[Tuner].op = "SCAN" /\ call[Tuner].flags = {"SCAN_RSP"}
  /\ call[Controller].pc # "idle" => call[Controller].op = "FOLLOW"
  /\ call[Controller].pc = "write" => call[Controller].frame.id = "REQ_FOLLOW"
  /\ followAddr # "none" => tune \in {"none", "wait", "check", "done"}
  /\ life \in {"new", "init"} => fw.mode # "follow"

Inv ==
  /\ SnifInv /\ StoreTypes /\ CaptureTypes
  /\ PortInv /\ OwnInv /\ TuneInv

-----------------------------------------------------------------------------
(***************************************************************************)
(* Every step of the capture is, for the sniffer, one of its own steps or  *)
(* none: it keeps in this composition what was proved of it alone.         *)
(***************************************************************************)
LEMMA SnifAssumptions == SnifP!SizesAssumption /\ SnifP!NamesAssumption
BY PartsAssumption DEF SnifP!ScanFlag, Snif!ScanFlag

(* SnifferProofs names the definitions of Sniffer anew: they are the same. *)
LEMMA SameStart == Snif!Start <=> SnifP!Start
<1>1. \A ok \in BOOLEAN : Snif!InitWrite(ok) <=> SnifP!InitWrite(ok)
  BY DEF Snif!InitWrite, Snif!Build, Snif!Bump, Snif!Write, Snif!React, Snif!InitSequence,
         Snif!readVars, SnifP!InitWrite, SnifP!Build, SnifP!Bump, SnifP!Write,
         SnifP!React, SnifP!InitSequence, SnifP!readVars
<1>2. (Snif!OpenFails <=> SnifP!OpenFails) /\ (Snif!Open <=> SnifP!Open)
  BY DEF Snif!OpenFails, Snif!Open, Snif!readVars, Snif!wireVars,
         SnifP!OpenFails, SnifP!Open, SnifP!readVars, SnifP!wireVars
<1>3. Snif!InitLock <=> SnifP!InitLock
  BY DEF Snif!InitLock, Snif!ownVars, Snif!readVars,
         SnifP!InitLock, SnifP!ownVars, SnifP!readVars
<1> QED
  BY <1>1, <1>2, <1>3 DEF Snif!Start, SnifP!Start

LEMMA SameStop ==
  /\ Snif!StopSwap <=> SnifP!StopSwap
  /\ Snif!StopClosePort <=> SnifP!StopClosePort
  /\ Snif!StopCloseChan <=> SnifP!StopCloseChan
BY DEF Snif!StopSwap, Snif!StopClosePort, Snif!StopCloseChan, Snif!readVars, Snif!wireVars,
       SnifP!StopSwap, SnifP!StopClosePort, SnifP!StopCloseChan, SnifP!readVars, SnifP!wireVars

LEMMA SameReads ==
  /\ \A b \in Body : Snif!ReadPacket(b) <=> SnifP!ReadPacket(b)
  /\ Snif!Deliver <=> SnifP!Deliver
  /\ Snif!ReadEnds <=> SnifP!ReadEnds
BY DEF Snif!ReadPacket, Snif!Deliver, Snif!ReadEnds, Snif!ownVars, Snif!wireVars,
       SnifP!ReadPacket, SnifP!Deliver, SnifP!ReadEnds, SnifP!ownVars, SnifP!wireVars

LEMMA SameCalls ==
  ASSUME NEW c \in Caller
  PROVE  /\ \A op, f : Snif!Begin(c, op, f) <=> SnifP!Begin(c, op, f)
         /\ Snif!Lock(c) <=> SnifP!Lock(c)
         /\ Snif!BuildFrame(c) <=> SnifP!BuildFrame(c)
         /\ \A ok \in BOOLEAN : Snif!WriteFrame(c, ok) <=> SnifP!WriteFrame(c, ok)
         /\ Snif!CallStep(c) <=> SnifP!CallStep(c)
<1> USE DEF Snif!ownVars, Snif!readVars, SnifP!ownVars, SnifP!readVars
<1>1. \A op, f : Snif!Begin(c, op, f) <=> SnifP!Begin(c, op, f)
  BY DEF Snif!Begin, SnifP!Begin
<1>2. Snif!Lock(c) <=> SnifP!Lock(c)
  BY DEF Snif!Lock, SnifP!Lock
<1>3. Snif!BuildFrame(c) <=> SnifP!BuildFrame(c)
  BY DEF Snif!BuildFrame, Snif!Build, Snif!Bump, SnifP!BuildFrame, SnifP!Build, SnifP!Bump
<1>4. \A ok \in BOOLEAN : Snif!WriteFrame(c, ok) <=> SnifP!WriteFrame(c, ok)
  BY DEF Snif!WriteFrame, Snif!Write, Snif!React, SnifP!WriteFrame, SnifP!Write, SnifP!React
<1> QED
  BY <1>1, <1>2, <1>3, <1>4 DEF Snif!CallStep, SnifP!CallStep

LEMMA SnifferSteps == Inv /\ [Next]_vars => [SnifP!Next]_(SnifP!vars)
<1> SUFFICES ASSUME Inv, [Next]_vars PROVE [SnifP!Next]_(SnifP!vars)
  OBVIOUS
<1>p. panic \in BOOLEAN
  BY DEF Inv, SnifInv, SnifP!TypeInv, SnifP!TypeOK
<1>1. UNCHANGED <<snifOwn, chan, panic>> => UNCHANGED SnifP!vars
  BY DEF snifOwn, SnifP!vars, SnifP!snifVars, SnifP!ownVars, SnifP!readVars, SnifP!wireVars
<1>2. CASE UNCHANGED <<snifOwn, chan, panic>>
  BY <1>1, <1>2
<1>3. CASE StartSniffer
  BY <1>3, SameStart DEF StartSniffer, SnifP!Next, SnifP!Calm
<1>4. ASSUME Snif!Begin(Controller, "FOLLOW", {}), UNCHANGED panic PROVE SnifP!Next
  BY <1>4, SameCalls DEF SnifP!Next, SnifP!Calm, Caller
<1>5. CASE StartFollow
  BY <1>4, <1>5 DEF StartFollow
<1>6. ASSUME NEW addr \in FollowArgs, SetFollow(addr)
      PROVE  [SnifP!Next]_(SnifP!vars)
  BY <1>1, <1>4, <1>6 DEF SetFollow
<1>7. CASE TuneNarrows
  <2>1. tuneCur = {"SCAN_RSP", "EXT_ADV"}
    BY <1>7 DEF TuneNarrows, TuneStep, Inv, TuneInv, Snif!ScanFlagAll
  <2>2. Needed \in FlagChoice
    BY <2>1 DEF Needed, FlagChoice
  <2>3. SnifP!Begin(Tuner, "SCAN", Needed) /\ UNCHANGED panic
    BY <1>7, SameCalls DEF TuneNarrows, Caller
  <2> QED
    BY <2>2, <2>3 DEF SnifP!Next, SnifP!Calm, Caller
<1>8. CASE StopSniffer
  BY <1>1, <1>8, SameStop DEF StopSniffer, SnifP!Next, SnifP!Calm
<1>9. CASE StoppingSniffer
  BY <1>9, SameStop DEF StoppingSniffer, SnifP!Next, SnifP!Calm
<1>10. CASE StartFailed \/ StopStore
  BY <1>1, <1>10, <1>p DEF StartFailed, StopStore, Sto!CloseStop, Inv, OwnInv
<1>11. CASE ReadLoop
  BY <1>11, SameReads DEF ReadLoop, SnifP!Next, SnifP!Calm
<1>12. ASSUME NEW c \in Caller, Command(c) PROVE SnifP!Next
  BY <1>12, SameCalls DEF Command, SnifP!Next, SnifP!Calm
<1>13. CASE Consumer
  <2>1. CASE Sto!Recv
    <3>1. SnifP!Take /\ UNCHANGED panic
      BY <1>13, <2>1 DEF Consumer, Sto!Recv, snifOwn, SnifP!Take, SnifP!ownVars, SnifP!wireVars
    <3> QED
      BY <3>1 DEF SnifP!Next, SnifP!Calm
  <2>2. CASE ~Sto!Recv
    BY <1>1, <1>13, <2>2 DEF Consumer, Sto!Consume, Sto!ConsumerExit, Sto!Process,
       Sto!AppendPacket
  <2> QED
    BY <2>1, <2>2
<1>14. CASE UNCHANGED vars
  BY <1>2, <1>14 DEF vars, parts
<1>15. CASE Start
  BY <1>2, <1>3, <1>5, <1>10, <1>15 DEF Start, StartStore, FailedStartReturns,
     StartWithoutFollow, StartFollowInvalid, StartFollowDone, parts
<1>16. CASE Stop
  BY <1>2, <1>8, <1>9, <1>10, <1>16 DEF Stop, StopTuner, StopReturns, parts
<1>17. CASE AutoTune
  BY <1>2, <1>7, <1>17 DEF AutoTune, TuneProceeds, TuneFires, TuneCancelled, TuneCheck,
     TuneReadFlags, TuneKeeps, TuneReturns, parts
<1>18. ASSUME NEW f \in Filters, SetFilter(f) PROVE [SnifP!Next]_(SnifP!vars)
  BY <1>2, <1>18 DEF SetFilter
<1> QED
  BY <1>6, <1>11, <1>12, <1>13, <1>14, <1>15, <1>16, <1>17, <1>18 DEF Next

(* What was proved of the sniffer alone holds of the sniffer of a capture. *)
LEMMA SnifferStep == Inv /\ [Next]_vars => SnifInv'
BY SnifferSteps, SnifAssumptions, SnifP!TypeStep, SnifP!ClosingStep, SnifP!FlagsStep
   DEF Inv, SnifInv

-----------------------------------------------------------------------------
(***************************************************************************)
(* The command calls of the two callers, and what they do to the firmware. *)
(***************************************************************************)
Others(c) == \A d \in Caller \ {c} : call'[d] = call[d]

LEMMA BeginFacts ==
  ASSUME Inv, NEW c \in Caller, NEW op, NEW f, Snif!Begin(c, op, f)
  PROVE  /\ call'[c].pc = "checked" /\ call'[c].op = op /\ call'[c].flags = f
         /\ Others(c)
         /\ life = "up" /\ running /\ call[c].pc = "idle"
         /\ UNCHANGED <<life, stop, running, port, rdr, chan, chanClosed, scanFlags, fw>>
<1>1. call \in [Caller -> SnifP!Call]
  BY DEF Inv, SnifInv, SnifP!TypeInv, SnifP!TypeOK
<1>2. call[c] \in SnifP!Call
  BY <1>1
<1> QED
  BY <1>1, <1>2 DEF Snif!Begin, Others, SnifP!Call, Snif!ownVars, Snif!readVars

LEMMA CommandFacts ==
  ASSUME Inv, NEW c \in Caller, Snif!CallStep(c)
  PROVE  /\ call[c].pc # "idle" /\ Others(c)
         /\ call'[c].op = call[c].op /\ call'[c].flags = call[c].flags
         /\ UNCHANGED <<life, stop, running, port, rdr, chan, chanClosed>>
         /\ \/ call'[c].pc = "locked" /\ UNCHANGED <<scanFlags, fw>>
            \/ /\ call'[c].pc = "write" /\ UNCHANGED fw
               /\ call[c].op = "FOLLOW" =>
                    call'[c].frame.id = "REQ_FOLLOW" /\ UNCHANGED scanFlags
               /\ call[c].op # "FOLLOW" => scanFlags' = call[c].flags
            \/ /\ call[c].pc = "write" /\ call'[c].pc = "idle" /\ UNCHANGED scanFlags
               /\ call[c].frame.id = "REQ_FOLLOW" => fw'.mode \in {fw.mode, "follow"}
<1>1. call \in [Caller -> SnifP!Call]
  BY DEF Inv, SnifInv, SnifP!TypeInv, SnifP!TypeOK
<1>2. call[c] \in SnifP!Call
  BY <1>1
<1> USE DEF Others, Snif!ownVars, Snif!readVars
<1>3. CASE Snif!Lock(c)
  BY <1>1, <1>2, <1>3 DEF Snif!Lock, SnifP!Call
<1>4. CASE Snif!BuildFrame(c)
  BY <1>1, <1>2, <1>4 DEF Snif!BuildFrame, Snif!Build, SnifP!Call
<1>5. ASSUME NEW ok \in BOOLEAN, Snif!WriteFrame(c, ok)
      PROVE  /\ call[c].pc # "idle" /\ Others(c)
             /\ call'[c].op = call[c].op /\ call'[c].flags = call[c].flags
             /\ UNCHANGED <<life, stop, running, port, rdr, chan, chanClosed>>
             /\ call[c].pc = "write" /\ call'[c].pc = "idle" /\ UNCHANGED scanFlags
             /\ call[c].frame.id = "REQ_FOLLOW" => fw'.mode \in {fw.mode, "follow"}
  <2>1. fw \in [mode : {"idle", "scan", "follow"}, flags : SUBSET SnifP!ScanFlag]
    BY DEF Inv, SnifInv, SnifP!TypeInv, SnifP!TypeOK
  <2>2. call[c].frame.id = "REQ_FOLLOW" => fw'.mode \in {fw.mode, "follow"}
    BY <1>5, <2>1 DEF Snif!WriteFrame, Snif!Write, Snif!React
  <2> QED
    BY <1>1, <1>2, <1>5, <2>2 DEF Snif!WriteFrame, SnifP!Call
<1> QED
  BY <1>3, <1>4, <1>5 DEF Snif!CallStep

(* Start of the sniffer.                                                   *)
LEMMA StartFacts ==
  ASSUME Inv, Snif!Start
  PROVE  /\ UNCHANGED <<stop, chan, chanClosed, call, scanFlags>>
         /\ life' \in {"init", "up", "failed"} /\ life \in {"new", "init"}
         /\ life' = "failed" => ~running' /\ port' # "open"
         /\ life' \in {"init", "up"} => running'
         /\ fw.mode # "follow" => fw'.mode # "follow"
<1>1. CASE Snif!OpenFails \/ Snif!Open \/ Snif!InitLock
  BY <1>1 DEF Snif!OpenFails, Snif!Open, Snif!InitLock, Snif!ownVars, Snif!readVars,
     Snif!wireVars, Inv, PortInv
<1>2. ASSUME NEW ok \in BOOLEAN, Snif!InitWrite(ok)
      PROVE  /\ UNCHANGED <<stop, chan, chanClosed, call, scanFlags>>
             /\ life' \in {"init", "up", "failed"} /\ life \in {"new", "init"}
             /\ life' = "failed" => ~running' /\ port' # "open"
             /\ life' \in {"init", "up"} => running'
             /\ fw.mode # "follow" => fw'.mode # "follow"
  <2>1. sent + 1 \in 1 .. 6
    BY <1>2 DEF Snif!InitWrite, Snif!InitSequence, SnifP!InitSequence,
       Inv, SnifInv, SnifP!TypeInv, SnifP!TypeOK
  <2>2. built'.id # "REQ_FOLLOW"
    BY <1>2, <2>1 DEF Snif!InitWrite, Snif!Build, Snif!InitSequence
  <2>3. fw.mode # "follow" => fw'.mode # "follow"
    BY <1>2, <2>2 DEF Snif!InitWrite, Snif!Write, Snif!React
  <2> QED
    BY <1>2, <2>3 DEF Snif!InitWrite, Snif!readVars, Inv, PortInv
<1> QED
  BY <1>1, <1>2 DEF Snif!Start

-----------------------------------------------------------------------------
(***************************************************************************)
(* The invariant is inductive, one lemma per part.                         *)
(***************************************************************************)
LEMMA PortStep == Inv /\ [Next]_vars => PortInv'
<1> SUFFICES ASSUME Inv, [Next]_vars PROVE PortInv'
  OBVIOUS
<1>1. /\ [SnifP!Next]_(SnifP!vars)
      /\ PortInv /\ SnifP!ClosingInv /\ SnifP!TypeOK
  BY SnifferSteps DEF Inv, SnifInv, SnifP!TypeInv
<1>2. CASE SnifP!Start
  <2>1. Snif!Start
    BY <1>2, SameStart
  <2>2. stop = "no" /\ stop' = "no"
    BY <1>1, <2>1, StartFacts DEF SnifP!ClosingInv
  <2> QED
    BY <2>1, <2>2, StartFacts DEF PortInv
<1>3. CASE SnifP!StopSwap \/ SnifP!StopClosePort
  BY <1>1, <1>3 DEF PortInv, SnifP!StopSwap, SnifP!StopClosePort, SnifP!readVars
<1>4. CASE SnifP!StopCloseChan
  BY <1>1, <1>4 DEF PortInv, SnifP!StopCloseChan, SnifP!readVars
<1>5. CASE /\ UNCHANGED SnifP!ownVars
           /\ rdr = "done" => rdr' = "done"
  BY <1>1, <1>5 DEF PortInv, SnifP!ownVars
<1>6. ASSUME NEW b \in Body, SnifP!ReadPacket(b) PROVE PortInv'
  BY <1>5, <1>6 DEF SnifP!ReadPacket
<1>7. CASE SnifP!Deliver \/ SnifP!ReadEnds \/ SnifP!Take
  BY <1>5, <1>7 DEF SnifP!Deliver, SnifP!ReadEnds, SnifP!Take
<1>8. ASSUME NEW c \in Caller, NEW op, NEW f,
             SnifP!Begin(c, op, f) \/ SnifP!Lock(c) \/ SnifP!BuildFrame(c)
      PROVE  PortInv'
  BY <1>5, <1>8 DEF SnifP!Begin, SnifP!Lock, SnifP!BuildFrame, SnifP!readVars
<1>9. ASSUME NEW c \in Caller, NEW ok \in BOOLEAN, SnifP!WriteFrame(c, ok)
      PROVE  PortInv'
  BY <1>5, <1>9 DEF SnifP!WriteFrame, SnifP!readVars
<1>10. CASE UNCHANGED SnifP!vars
  BY <1>5, <1>10 DEF SnifP!vars, SnifP!snifVars, SnifP!readVars
<1>11. CASE SnifP!Calm
  BY <1>2, <1>3, <1>6, <1>7, <1>8, <1>9, <1>11 DEF SnifP!Calm, SnifP!CallStep
<1> QED
  BY <1>1, <1>4, <1>7, <1>10, <1>11 DEF SnifP!Next

LEMMA StoreStep == Inv /\ [Next]_vars => StoreTypes'
<1> SUFFICES ASSUME Inv, [Next]_vars PROVE StoreTypes'
  OBVIOUS
<1> USE DEF StoreTypes, storeVars
<1>1. /\ StoreTypes
      /\ chan \in Seq(Sto!Item) /\ panic \in BOOLEAN
  BY DEF Inv, SnifInv, SnifP!TypeInv, SnifP!TypeOK, SnifP!Item, Sto!Item
<1>2. CASE StartStore
  BY <1>1, <1>2 DEF StartStore, Sto!StartConsumer
<1>3. CASE StartFailed \/ StopStore
  BY <1>1, <1>3 DEF StartFailed, StopStore, Sto!CloseStop
<1>4. CASE Consumer
  <2>1. CASE Sto!Recv
    BY <1>1, <2>1 DEF Sto!Recv
  <2>2. CASE Sto!ConsumerExit \/ Sto!Process
    BY <1>1, <2>2 DEF Sto!ConsumerExit, Sto!Process
  <2>3. CASE Sto!AppendPacket
    <3>1. seenExt' \in BOOLEAN
      BY <1>1, <2>3 DEF Sto!AppendPacket, Sto!IsExtAdv
    <3> QED
      BY <1>1, <2>3, <3>1 DEF Sto!AppendPacket
  <2> QED
    BY <1>4, <2>1, <2>2, <2>3 DEF Consumer, Sto!Consume
<1>5. ASSUME NEW f \in Filters, SetFilter(f) PROVE StoreTypes'
  BY <1>1, <1>5, CaptureAssumption DEF SetFilter, Sto!SetFilter
<1>6. CASE UNCHANGED storeVars
  BY <1>1, <1>6
<1>7. CASE Start
  BY <1>2, <1>3, <1>6, <1>7 DEF Start, StartSniffer, FailedStartReturns, StartWithoutFollow,
     StartFollow, StartFollowInvalid, StartFollowDone, parts
<1>8. CASE Stop
  BY <1>3, <1>6, <1>8 DEF Stop, StopTuner, StopSniffer, StoppingSniffer, StopReturns, parts
<1>9. CASE AutoTune
  BY <1>6, <1>9 DEF AutoTune, TuneProceeds, TuneFires, TuneCancelled, TuneCheck,
     TuneReadFlags, TuneKeeps, TuneNarrows, TuneReturns, parts
<1>10. ASSUME NEW addr \in FollowArgs, SetFollow(addr) PROVE StoreTypes'
  BY <1>6, <1>10 DEF SetFollow
<1> QED
  BY <1>4, <1>5, <1>6, <1>7, <1>8, <1>9, <1>10
     DEF Next, ReadLoop, Command, vars, parts

LEMMA CaptureStep == Inv /\ [Next]_vars => CaptureTypes'
<1> SUFFICES ASSUME Inv, [Next]_vars PROVE CaptureTypes'
  OBVIOUS
<1> USE DEF CaptureTypes, capVars, tuneVars
<1>1. CaptureTypes
  BY DEF Inv
<1>2. seenExt \in BOOLEAN /\ scanFlags \in SUBSET Snif!ScanFlag
  BY DEF Inv, StoreTypes, SnifInv, SnifP!TypeInv, SnifP!TypeOK, SnifP!ScanFlag, Snif!ScanFlag
<1>3. CASE StartStore \/ StartFailed \/ FailedStartReturns \/ StartFollow \/ StartFollowInvalid
  BY <1>1, <1>3 DEF StartStore, StartFailed, FailedStartReturns, StartFollow,
     StartFollowInvalid
<1>4. CASE StartWithoutFollow \/ StartFollowDone
  BY <1>1, <1>4 DEF StartWithoutFollow, StartFollowDone, SpawnTuner
<1>5. CASE Stop
  <2>1. CASE StopTuner
    BY <1>1, <2>1 DEF StopTuner
  <2>2. CASE StopSniffer \/ StopStore \/ StopReturns
    BY <1>1, <2>2 DEF StopSniffer, StopStore, StopReturns
  <2>3. CASE StoppingSniffer
    BY <1>1, <2>3 DEF StoppingSniffer
  <2> QED
    BY <1>5, <2>1, <2>2, <2>3 DEF Stop
<1>6. CASE AutoTune
  <2> USE DEF TuneStep
  <2>1. CASE TuneFires \/ TuneReadFlags
    BY <1>1, <1>2, <2>1 DEF TuneFires, TuneReadFlags
  <2>2. CASE TuneCheck
    BY <1>1, <2>2 DEF TuneCheck
  <2>3. CASE TuneCancelled \/ TuneKeeps \/ TuneNarrows \/ TuneReturns
    BY <1>1, <2>3 DEF TuneCancelled, TuneKeeps, TuneNarrows, TuneReturns
  <2> QED
    BY <1>6, <2>1, <2>2, <2>3 DEF AutoTune, TuneProceeds
<1>7. ASSUME NEW addr \in FollowArgs, SetFollow(addr) PROVE CaptureTypes'
  BY <1>1, <1>7, CaptureAssumption DEF SetFollow
<1>8. CASE UNCHANGED capVars
  BY <1>1, <1>8
<1> QED
  BY <1>3, <1>4, <1>5, <1>6, <1>7, <1>8
     DEF Next, Start, StartSniffer, ReadLoop, Consumer, Command, SetFilter, vars

LEMMA OwnStep == Once /\ Inv /\ [Next]_vars => OwnInv'
<1> SUFFICES ASSUME Once, Inv, [Next]_vars PROVE OwnInv'
  OBVIOUS
<1>1. /\ OwnInv /\ PortInv /\ CaptureTypes
      /\ stop \in {"no", "close", "wait", "done"}
  BY DEF Inv, SnifInv, SnifP!TypeInv, SnifP!TypeOK
<1>2. MaxStops \in Nat /\ MaxStops <= 1 /\ stops \in Nat
  BY <1>1, CaptureAssumption DEF Once, CaptureTypes
<1>3. Controller \in Caller /\ Tuner \in Caller /\ Controller # Tuner
  BY DEF Caller, Controller, Tuner
<1> USE DEF OwnInv, Starting, Stopping
(* The sniffer's part, the store's part and the owner's part of the state. *)
<1> DEFINE SnifSame == UNCHANGED <<life, stop, call>>
           StoreSame == UNCHANGED <<con, storeStop>>
           CapSame == UNCHANGED <<own, tune, stops>>
<1>4. UNCHANGED snifOwn => SnifSame
  BY DEF snifOwn
<1>5. UNCHANGED storeVars => StoreSame
  BY DEF storeVars
<1>6. UNCHANGED capVars => CapSame
  BY DEF capVars, tuneVars
<1>7. UNCHANGED parts => SnifSame /\ StoreSame
  BY <1>4, <1>5 DEF parts
<1> HIDE DEF SnifSame, StoreSame, CapSame
<1>8. CASE StartStore
  BY <1>1, <1>4, <1>8 DEF StartStore, Sto!StartConsumer, SnifSame, tuneVars
<1>9. CASE StartSniffer
  <2>1. /\ own = "starting" /\ UNCHANGED <<stop, call>>
        /\ life' # "new"
    BY <1>9, StartFacts DEF StartSniffer
  <2>2. StoreSame /\ CapSame
    BY <1>5, <1>6, <1>9 DEF StartSniffer
  <2> QED
    BY <1>1, <2>1, <2>2 DEF StoreSame, CapSame
<1>10. CASE StartFailed
  <2>1. /\ own = "starting" /\ own' = "failing" /\ life = "failed"
        /\ con' = con /\ storeStop' = TRUE /\ stops' = stops /\ tune' = tune
    BY <1>10 DEF StartFailed, Sto!CloseStop, tuneVars
  <2>2. SnifSame
    BY <1>4, <1>10 DEF StartFailed
  <2> QED
    BY <1>1, <2>1, <2>2 DEF SnifSame
<1>11. CASE FailedStartReturns
  <2>1. /\ own = "failing" /\ own' = "failed" /\ con = "done" /\ stops' = stops /\ tune' = tune
    BY <1>1, <1>11 DEF FailedStartReturns, Sto!ConsumerGone, tuneVars
  <2>2. SnifSame /\ StoreSame
    BY <1>7, <1>11 DEF FailedStartReturns
  <2> QED
    BY <1>1, <2>1, <2>2 DEF SnifSame, StoreSame
<1>12. CASE StartWithoutFollow \/ StartFollowInvalid
  <2>1. /\ own = "starting" /\ life = "up" /\ stops' = stops
        /\ \/ own' = "up" /\ tune' = "wait"
           \/ own' = "startErr" /\ tune' = tune
    BY <1>12 DEF StartWithoutFollow, StartFollowInvalid, SpawnTuner, tuneVars
  <2>2. SnifSame /\ StoreSame
    BY <1>7, <1>12 DEF StartWithoutFollow, StartFollowInvalid
  <2> QED
    BY <1>1, <2>1, <2>2 DEF SnifSame, StoreSame
<1>13. CASE StartFollow
  <2>1. /\ own = "starting" /\ own' = "startFollow" /\ stops' = stops /\ tune' = tune
        /\ UNCHANGED <<life, stop>> /\ life = "up"
    BY <1>3, <1>13, BeginFacts DEF StartFollow, tuneVars
  <2>2. StoreSame
    BY <1>5, <1>13 DEF StartFollow
  <2> QED
    BY <1>1, <2>1, <2>2 DEF StoreSame
<1>14. CASE StartFollowDone
  <2>1. /\ own = "startFollow" /\ call[Controller].pc = "idle" /\ stops' = stops
        /\ \/ own' = "up" /\ tune' = "wait"
           \/ own' = "startErr" /\ tune' = tune
    BY <1>14 DEF StartFollowDone, SpawnTuner, tuneVars
  <2>2. SnifSame /\ StoreSame
    BY <1>7, <1>14 DEF StartFollowDone
  <2> QED
    BY <1>1, <2>1, <2>2 DEF SnifSame, StoreSame
<1>15. CASE StopTuner
  <2>1. /\ own = "up" /\ call[Controller].pc = "idle"
        /\ own' = "waitTune" /\ tune' = tune /\ stops' >= 1
    BY <1>1, <1>2, <1>15 DEF StopTuner, Ready, tuneVars
  <2>2. SnifSame /\ StoreSame
    BY <1>7, <1>15 DEF StopTuner
  <2> QED
    BY <1>1, <2>1, <2>2 DEF SnifSame, StoreSame
<1>16. CASE StopSniffer
  <2>1. /\ own = "waitTune" /\ own' = "snifStop" /\ tune \in {"none", "done"}
        /\ tune' = tune /\ stops' = stops
    BY <1>16 DEF StopSniffer, tuneVars
  <2>2. /\ running /\ stop' = "close" /\ UNCHANGED <<life, call>>
    BY <1>1, <1>16, <2>1 DEF StopSniffer, PortInv, Snif!StopSwap, Snif!wireVars
  <2>3. StoreSame
    BY <1>5, <1>16 DEF StopSniffer
  <2> QED
    BY <1>1, <2>1, <2>2, <2>3 DEF StoreSame
<1>17. CASE StoppingSniffer
  <2>1. own = "snifStop" /\ stop' # "no" /\ UNCHANGED <<life, call>>
    BY <1>17 DEF StoppingSniffer, Snif!StopClosePort, Snif!StopCloseChan, Snif!wireVars
  <2>2. StoreSame /\ CapSame
    BY <1>5, <1>6, <1>17 DEF StoppingSniffer
  <2> QED
    BY <1>1, <2>1, <2>2 DEF StoreSame, CapSame
<1>18. CASE StopStore
  <2>1. /\ own = "snifStop" /\ own' = "storeWait" /\ stop \notin {"close", "wait"}
        /\ con' = con /\ storeStop' = TRUE /\ stops' = stops /\ tune' = tune
    BY <1>18 DEF StopStore, Sto!CloseStop, tuneVars
  <2>2. SnifSame
    BY <1>4, <1>18 DEF StopStore
  <2> QED
    BY <1>1, <2>1, <2>2 DEF SnifSame
<1>19. CASE StopReturns
  <2>1. own = "storeWait" /\ own' = "down" /\ con = "done" /\ stops' = stops /\ tune' = tune
    BY <1>1, <1>19 DEF StopReturns, Sto!ConsumerGone, tuneVars
  <2>2. SnifSame /\ StoreSame
    BY <1>7, <1>19 DEF StopReturns
  <2> QED
    BY <1>1, <2>1, <2>2 DEF SnifSame, StoreSame
<1>20. CASE AutoTune
  <2>1. /\ tune \notin {"none", "done"} /\ tune' # "none" /\ own' = own /\ stops' = stops
        /\ StoreSame
    BY <1>5, <1>7, <1>20 DEF AutoTune, TuneProceeds, TuneStep, TuneFires, TuneCancelled,
       TuneCheck, TuneReadFlags, TuneKeeps, TuneNarrows, TuneReturns
  <2>2. UNCHANGED <<life, stop>> /\ call'[Controller] = call[Controller]
    <3>1. CASE TuneNarrows
      BY <1>3, <3>1, BeginFacts DEF TuneNarrows, Others
    <3>2. CASE ~TuneNarrows
      BY <1>7, <1>20, <3>2 DEF AutoTune, TuneProceeds, TuneFires, TuneCancelled,
         TuneCheck, TuneReadFlags, TuneKeeps, TuneReturns, SnifSame
    <3> QED
      BY <3>1, <3>2
  <2> QED
    BY <1>1, <2>1, <2>2 DEF StoreSame
<1>21. CASE ReadLoop
  <2>1. UNCHANGED <<life, stop, call>>
    BY <1>21 DEF ReadLoop, Snif!ReadEnds, Snif!ReadPacket, Snif!Deliver, Snif!ownVars,
       Snif!wireVars
  <2>2. StoreSame /\ CapSame
    BY <1>5, <1>6, <1>21 DEF ReadLoop
  <2> QED
    BY <1>1, <2>1, <2>2 DEF StoreSame, CapSame
<1>22. CASE Consumer
  <2>1. /\ con \notin {"none", "done"} /\ con' # "none" /\ storeStop' = storeStop
    BY <1>22 DEF Consumer, Sto!Consume, Sto!Recv, Sto!ConsumerExit, Sto!Process,
       Sto!AppendPacket
  <2>2. SnifSame /\ CapSame
    BY <1>4, <1>6, <1>22 DEF Consumer
  <2> QED
    BY <1>1, <2>1, <2>2 DEF SnifSame, CapSame
<1>23. ASSUME NEW c \in Caller, Command(c) PROVE OwnInv'
  <2>1. /\ UNCHANGED <<life, stop>>
        /\ call'[Controller].pc # "idle" => call[Controller].pc # "idle"
    BY <1>3, <1>23, CommandFacts DEF Command, Others
  <2>2. StoreSame /\ CapSame
    BY <1>5, <1>6, <1>23 DEF Command
  <2> QED
    BY <1>1, <2>1, <2>2 DEF StoreSame, CapSame
<1>24. ASSUME NEW f \in Filters, SetFilter(f) PROVE OwnInv'
  <2>1. StoreSame
    BY <1>24 DEF SetFilter, Sto!SetFilter, StoreSame
  <2> QED
    BY <1>1, <1>4, <1>6, <1>24, <2>1 DEF SetFilter, SnifSame, CapSame, StoreSame
<1>25. ASSUME NEW addr \in FollowArgs, SetFollow(addr) PROVE OwnInv'
  <2>1. /\ own = "up" /\ UNCHANGED <<own, tune, stops>>
    BY <1>25 DEF SetFollow, Ready, tuneVars
  <2>2. UNCHANGED <<life, stop>>
    BY <1>3, <1>4, <1>25, BeginFacts DEF SetFollow, SnifSame
  <2>3. StoreSame
    BY <1>5, <1>25 DEF SetFollow
  <2> QED
    BY <1>1, <2>1, <2>2, <2>3 DEF StoreSame
<1>26. CASE UNCHANGED vars
  BY <1>1, <1>6, <1>7, <1>26 DEF vars, SnifSame, StoreSame, CapSame
<1> HIDE DEF OwnInv
<1> QED
  BY <1>8, <1>9, <1>10, <1>11, <1>12, <1>13, <1>14, <1>15, <1>16, <1>17, <1>18, <1>19,
     <1>20, <1>21, <1>22, <1>23, <1>24, <1>25, <1>26 DEF Next, Start, Stop

LEMMA TuneInvStep == Inv /\ [Next]_vars => TuneInv'
<1> SUFFICES ASSUME Inv, [Next]_vars PROVE TuneInv'
  OBVIOUS
<1>1. /\ TuneInv /\ OwnInv /\ seenExt \in BOOLEAN /\ extSeen \in BOOLEAN
      /\ followAddr \in {"none", "valid", "invalid"}
  BY CaptureAssumption DEF Inv, StoreTypes, CaptureTypes
<1>2. /\ Controller \in Caller /\ Tuner \in Caller /\ Controller # Tuner
      /\ \A c \in Caller : c = Controller \/ c = Tuner
  BY DEF Caller, Controller, Tuner
<1> USE DEF TuneInv
(* The sniffer's part, the store's part and the owner's part of the state. *)
<1> DEFINE SnifSame == UNCHANGED <<life, scanFlags, call, fw>>
           CapSame == UNCHANGED <<tune, tuneCur, extSeen, followAddr>>
<1>3. UNCHANGED snifOwn => SnifSame
  BY DEF snifOwn
<1>4. UNCHANGED storeVars => UNCHANGED seenExt
  BY DEF storeVars
<1>5. /\ UNCHANGED capVars => CapSame
      /\ UNCHANGED <<tuneVars, followAddr>> => CapSame
  BY DEF capVars, tuneVars
<1>6. UNCHANGED parts => SnifSame /\ UNCHANGED seenExt
  BY <1>3, <1>4 DEF parts
<1> HIDE DEF SnifSame, CapSame
(* Steps that touch none of these, but may store a packet.                 *)
<1>7. CASE SnifSame /\ CapSame /\ (seenExt => seenExt')
  BY <1>1, <1>7 DEF SnifSame, CapSame
<1>8. CASE StartSniffer
  <2>1. UNCHANGED <<call, scanFlags>> /\ (life' \in {"new", "init"} => fw'.mode # "follow")
    BY <1>1, <1>8, StartFacts DEF StartSniffer
  <2>2. CapSame /\ UNCHANGED seenExt
    BY <1>4, <1>5, <1>8 DEF StartSniffer
  <2> QED
    BY <1>1, <2>1, <2>2 DEF CapSame
<1>9. CASE StartWithoutFollow \/ StartFollowDone
  <2>1. /\ tune = "none" /\ tune' \in {"none", "wait"}
        /\ UNCHANGED <<tuneCur, extSeen, followAddr>>
    BY <1>1, <1>9 DEF StartWithoutFollow, StartFollowDone, SpawnTuner, tuneVars, OwnInv, Starting
  <2>2. SnifSame /\ UNCHANGED seenExt
    BY <1>6, <1>9 DEF StartWithoutFollow, StartFollowDone
  <2> QED
    BY <1>1, <2>1, <2>2 DEF SnifSame
<1>10. ASSUME Snif!Begin(Controller, "FOLLOW", {}), CapSame, UNCHANGED seenExt
       PROVE  TuneInv'
  BY <1>1, <1>2, <1>10, BeginFacts DEF CapSame, Others
<1>11. CASE TuneFires
  <2>1. /\ tune = "wait" /\ tune' = "check"
        /\ UNCHANGED <<tuneCur, extSeen, followAddr>>
    BY <1>11 DEF TuneFires, TuneStep
  <2>2. SnifSame /\ UNCHANGED seenExt
    BY <1>6, <1>11 DEF TuneFires
  <2> QED
    BY <1>1, <2>1, <2>2 DEF SnifSame
<1>12. CASE TuneCancelled \/ TuneCheck \/ TuneKeeps
  <2>1. /\ tune \in {"wait", "check", "ext"} /\ tune' \in {"done", "flags"}
        /\ tune' = "flags" => followAddr = "none" /\ tune = "check"
        /\ UNCHANGED <<tuneCur, extSeen, followAddr>>
    BY <1>12 DEF TuneCancelled, TuneCheck, TuneKeeps, TuneStep
  <2>2. SnifSame /\ UNCHANGED seenExt
    BY <1>6, <1>12 DEF TuneCancelled, TuneCheck, TuneKeeps
  <2> QED
    BY <1>1, <2>1, <2>2 DEF SnifSame
<1>13. CASE TuneReadFlags
  <2>1. /\ tune = "flags" /\ tune' = "ext" /\ tuneCur' = scanFlags
        /\ extSeen' = seenExt /\ UNCHANGED followAddr
    BY <1>13 DEF TuneReadFlags, TuneStep
  <2>2. SnifSame /\ UNCHANGED seenExt
    BY <1>6, <1>13 DEF TuneReadFlags
  <2> QED
    BY <1>1, <2>1, <2>2 DEF SnifSame
<1>14. CASE TuneNarrows
  <2>1. /\ tune = "ext" /\ tune' = "update" /\ Needed # tuneCur
        /\ UNCHANGED <<tuneCur, extSeen, followAddr, seenExt>>
    BY <1>4, <1>14 DEF TuneNarrows, TuneStep
  <2>2. ~seenExt /\ Needed = {"SCAN_RSP"}
    BY <1>1, <2>1 DEF Needed, Snif!ScanFlagAll
  <2>3. /\ call'[Tuner].op = "SCAN" /\ call'[Tuner].flags = Needed
        /\ call'[Controller] = call[Controller]
        /\ life = "up" /\ UNCHANGED <<life, scanFlags, fw>>
    BY <1>2, <1>14, BeginFacts DEF TuneNarrows, Others
  <2> QED
    BY <1>1, <2>1, <2>2, <2>3
<1>15. CASE TuneReturns
  <2>1. /\ tune = "update" /\ tune' = "done" /\ call[Tuner].pc = "idle"
        /\ UNCHANGED <<tuneCur, extSeen, followAddr>>
    BY <1>15 DEF TuneReturns, TuneStep
  <2>2. SnifSame /\ UNCHANGED seenExt
    BY <1>6, <1>15 DEF TuneReturns
  <2> QED
    BY <1>1, <2>1, <2>2 DEF SnifSame
<1>16. ASSUME NEW c \in Caller, Command(c) PROVE TuneInv'
  <2>1. CapSame /\ UNCHANGED seenExt
    BY <1>4, <1>5, <1>16 DEF Command
  <2>2. /\ Snif!CallStep(c) /\ life' = life /\ life = "up"
    <3>1. Snif!CallStep(c)
      BY <1>16 DEF Command
    <3>2. call[c].pc # "idle" /\ life' = life
      BY <3>1, CommandFacts
    <3> QED
      BY <3>1, <3>2 DEF Inv, SnifInv, SnifP!FlagsInv, SnifP!LockInv
  <2>3. CASE c = Controller
    <3>1. /\ call'[Tuner] = call[Tuner] /\ scanFlags' = scanFlags
          /\ call'[Controller].op = call[Controller].op /\ call[Controller].op = "FOLLOW"
          /\ call'[Controller].pc = "write" => call'[Controller].frame.id = "REQ_FOLLOW"
      BY <1>1, <1>2, <2>2, <2>3, CommandFacts DEF Others
    <3> QED
      BY <1>1, <2>1, <2>2, <3>1 DEF CapSame
  <2>4. CASE c = Tuner
    <3>1. /\ tune = "update" /\ ~extSeen /\ call'[Controller] = call[Controller]
          /\ call'[Tuner].op = "SCAN" /\ call'[Tuner].flags = {"SCAN_RSP"}
          /\ scanFlags' \in {scanFlags, {"SCAN_RSP"}}
      BY <1>1, <1>2, <2>2, <2>4, CommandFacts DEF Others
    <3> QED
      BY <1>1, <2>1, <2>2, <3>1 DEF CapSame
  <2> QED
    BY <1>2, <2>3, <2>4
<1>17. CASE ReadLoop
  <2>1. SnifSame
    BY <1>17 DEF ReadLoop, Snif!ReadEnds, Snif!ReadPacket, Snif!Deliver, Snif!ownVars,
       Snif!wireVars, SnifSame
  <2> QED
    BY <1>4, <1>5, <1>7, <1>17, <2>1 DEF ReadLoop
<1>18. CASE Consumer
  <2>1. seenExt => seenExt'
    BY <1>18 DEF Consumer, Sto!Consume, Sto!Recv, Sto!ConsumerExit, Sto!Process,
       Sto!AppendPacket
  <2> QED
    BY <1>3, <1>5, <1>7, <1>18, <2>1 DEF Consumer
<1>19. CASE StoppingSniffer \/ StopSniffer
  <2>1. SnifSame
    BY <1>3, <1>19 DEF StoppingSniffer, StopSniffer, Snif!StopSwap, Snif!StopClosePort,
       Snif!StopCloseChan, Snif!wireVars, SnifSame
  <2>2. CapSame /\ UNCHANGED seenExt
    BY <1>4, <1>5, <1>19 DEF StoppingSniffer, StopSniffer
  <2> QED
    BY <1>7, <2>1, <2>2
<1>20. CASE StartFollow
  BY <1>4, <1>5, <1>10, <1>20 DEF StartFollow
<1>21. ASSUME NEW addr \in FollowArgs, SetFollow(addr) PROVE TuneInv'
  BY <1>3, <1>4, <1>5, <1>7, <1>10, <1>21 DEF SetFollow
<1>22. ASSUME NEW f \in Filters, SetFilter(f) PROVE TuneInv'
  BY <1>3, <1>5, <1>7, <1>22 DEF SetFilter, Sto!SetFilter
<1>23. CASE StartStore \/ StartFailed \/ StopStore
  <2>1. SnifSame /\ CapSame
    BY <1>3, <1>5, <1>23 DEF StartStore, StartFailed, StopStore
  <2>2. UNCHANGED seenExt
    BY <1>23 DEF StartStore, StartFailed, StopStore, Sto!StartConsumer, Sto!CloseStop
  <2> QED
    BY <1>7, <2>1, <2>2
<1>24. CASE FailedStartReturns \/ StartFollowInvalid \/ StopTuner \/ StopReturns
  BY <1>5, <1>6, <1>7, <1>24 DEF FailedStartReturns, StartFollowInvalid, StopTuner, StopReturns
<1>25. CASE UNCHANGED vars
  BY <1>5, <1>6, <1>7, <1>25 DEF vars
<1> HIDE DEF TuneInv
<1> QED
  BY <1>8, <1>9, <1>11, <1>12, <1>13, <1>14, <1>15, <1>16, <1>17, <1>18, <1>19, <1>20,
     <1>21, <1>22, <1>23, <1>24, <1>25 DEF Next, Start, Stop, AutoTune, TuneProceeds

LEMMA InvInit == Init => Inv
<1> SUFFICES ASSUME Init PROVE Inv
  OBVIOUS
<1>1. /\ Controller \in Caller /\ Tuner \in Caller
      /\ \A c \in Caller : call[c].pc = "idle"
  BY DEF Init, Snif!Init, Caller
<1>2. SnifP!Init
  BY DEF Init, Snif!Init, SnifP!Init, Snif!NoFrame, SnifP!NoFrame,
         Snif!ScanFlagAll, SnifP!ScanFlagAll
<1>3. SnifP!TypeInv
  BY <1>2, SnifAssumptions, SnifP!TypeInit
<1>4. SnifP!ClosingInv
  BY <1>2 DEF SnifP!Init, SnifP!ClosingInv, SnifP!NoPanic
<1>5. SnifP!FlagsInv
  BY <1>1, <1>2, <1>3, SnifAssumptions
     DEF SnifP!Init, SnifP!FlagsInv, SnifP!LockInv, SnifP!Pending, SnifP!NamesAssumption
<1>6. StoreTypes /\ CaptureTypes
  <2>1. log \in Seq(Sto!Item)
    BY DEF Init, Sto!Init
  <2> QED
    BY <2>1, CaptureAssumption DEF Init, Sto!Init, StoreTypes, CaptureTypes
<1>7. PortInv
  BY DEF Init, Snif!Init, PortInv
<1>8. OwnInv
  BY <1>1 DEF Init, Snif!Init, Sto!Init, OwnInv, Starting, Stopping
<1>9. TuneInv
  BY <1>1 DEF Init, Snif!Init, TuneInv
<1> QED
  BY <1>3, <1>4, <1>5, <1>6, <1>7, <1>8, <1>9 DEF Inv, SnifInv

LEMMA InvStep == Once /\ Inv /\ [Next]_vars => Inv'
BY SnifferStep, StoreStep, CaptureStep, PortStep, OwnStep, TuneInvStep DEF Inv

LEMMA Invariance == Once => (Spec => []Inv)
<1> SUFFICES ASSUME Once PROVE Spec => []Inv
  OBVIOUS
<1> QED
  BY InvInit, InvStep, PTL DEF Spec

-----------------------------------------------------------------------------
(***************************************************************************)
(* What follows from the invariant, for a capture that is stopped once.    *)
(***************************************************************************)

(* In every reachable state each variable of the owner, the auto-tuner,    *)
(* the sniffer and the store has its type.                                 *)
THEOREM TypeCorrect == Once => (Spec => []TypeOK)
<1> SUFFICES ASSUME Once PROVE Spec => []TypeOK
  OBVIOUS
<1>1. Inv => TypeOK
  <2> SUFFICES ASSUME Inv PROVE TypeOK
    OBVIOUS
  <2>1. Snif!TypeOK
    BY DEF Inv, SnifInv, SnifP!TypeInv, SnifP!TypeOK, SnifP!Item, SnifP!Call, SnifP!Frame,
           SnifP!FrameId, SnifP!InitSequence, SnifP!ScanFlag,
           Snif!TypeOK, Snif!Item, Snif!Call, Snif!Frame, Snif!FrameId, Snif!InitSequence,
           Snif!ScanFlag
  <2>2. Sto!TypeOK
    BY DEF Inv, SnifInv, StoreTypes, SnifP!TypeInv, SnifP!TypeOK, SnifP!Item, Sto!Item,
           Sto!TypeOK
  <2> QED
    BY <2>1, <2>2 DEF Inv, CaptureTypes, TypeOK
<1> QED
  BY <1>1, Invariance, PTL

(* The order in which the three parts are stopped is right: no goroutine   *)
(* sends on or closes a closed channel.                                    *)
THEOREM NeverPanics == Once => (Spec => []NoPanic)
<1> SUFFICES ASSUME Once PROVE Spec => []NoPanic
  OBVIOUS
<1>1. Inv => NoPanic
  BY DEF Inv, SnifInv, SnifP!ClosingInv, SnifP!NoPanic, NoPanic
<1> QED
  BY <1>1, Invariance, PTL

(* After Stop, and after a failed snif.Start, nothing is left: no          *)
(* goroutine but the read loop of a failed Start, no open port, no command *)
(* under way and no mutex held.                                            *)
THEOREM NothingLeftBehind == Once => (Spec => []NothingLeft)
<1> SUFFICES ASSUME Once PROVE Spec => []NothingLeft
  OBVIOUS
<1>1. Inv => NothingLeft
  <2> SUFFICES ASSUME Inv, own \in {"down", "failed"}
               PROVE  /\ con = "done" /\ port # "open" /\ ~running
                      /\ writeMu = Free /\ \A c \in Caller : call[c].pc = "idle"
                      /\ own = "down" => rdr = "done" /\ tune = "done" /\ chanClosed
    BY DEF NothingLeft
  <2>1. OwnInv /\ TuneInv /\ PortInv
    BY DEF Inv
  <2>2. /\ con = "done" /\ call[Controller].pc = "idle"
        /\ own = "down" => life = "up" /\ stop = "done" /\ tune = "done"
        /\ own = "failed" => life = "failed" /\ tune = "none"
    BY <2>1 DEF OwnInv, Stopping, Starting
  <2>3. \A c \in Caller : call[c].pc = "idle"
    BY <2>1, <2>2 DEF TuneInv, Caller
  <2>4. writeMu \in Caller \cup {Owner, Free} /\ SnifP!LockInv
    BY DEF Inv, SnifInv, SnifP!FlagsInv, SnifP!TypeInv, SnifP!TypeOK
  <2>5. writeMu = Free
    BY <2>2, <2>3, <2>4 DEF SnifP!LockInv
  <2>6. port # "open" /\ ~running /\ (own = "down" => rdr = "done" /\ chanClosed)
    BY <2>1, <2>2 DEF PortInv
  <2> QED
    BY <2>2, <2>3, <2>5, <2>6
<1> QED
  BY <1>1, Invariance, PTL

(* The auto-tuner keeps SCAN_RSP always, and EXT_ADV whenever the store    *)
(* had seen an extended packet by the time the tuner read the flags,       *)
(* whatever the consumer stores and the owner commands while it decides.   *)
THEOREM EvidenceRespected == Once => (Spec => []EvidenceKept)
<1> SUFFICES ASSUME Once PROVE Spec => []EvidenceKept
  OBVIOUS
<1>1. Inv => EvidenceKept
  BY DEF Inv, TuneInv, EvidenceKept, Snif!ScanFlagAll
<1> QED
  BY <1>1, Invariance, PTL

(* A capture started in follow mode is never put back to plain scanning:   *)
(* its auto-tuner sends nothing and its other commands are REQ_FOLLOW.     *)
THEOREM FollowSurvives == Once => (Spec => FollowKept)
<1> DEFINE Kept == followAddr # "none" /\ fw.mode = "follow" => fw'.mode # "scan"
<1> SUFFICES ASSUME Once PROVE Spec => FollowKept
  OBVIOUS
<1>1. Inv /\ [Next]_vars => [Kept]_fw
  <2> SUFFICES ASSUME Inv, [Next]_vars, followAddr # "none", fw.mode = "follow", fw' # fw
               PROVE  fw'.mode # "scan"
    OBVIOUS
  <2>1. TuneInv /\ [SnifP!Next]_(SnifP!vars)
    BY SnifferSteps DEF Inv
  <2>2. CASE SnifP!Start
    <3>1. Snif!Start
      BY <2>2, SameStart
    <3>2. life \in {"new", "init"}
      BY <3>1, StartFacts
    <3> QED
      BY <2>1, <3>2 DEF TuneInv
  <2>3. ASSUME NEW c \in Caller, SnifP!CallStep(c) PROVE fw'.mode # "scan"
    <3>1. Snif!CallStep(c)
      BY <2>3, SameCalls
    <3>2. c = Controller
      BY <2>1, <3>1, CommandFacts DEF TuneInv, Caller
    <3> QED
      BY <2>1, <3>1, <3>2, CommandFacts DEF TuneInv
  <2>4. fw' = fw \/ SnifP!Start \/ \E c \in Caller : SnifP!CallStep(c)
    BY <2>1 DEF SnifP!Next, SnifP!Calm, SnifP!StopSwap, SnifP!StopClosePort,
       SnifP!StopCloseChan, SnifP!ReadPacket, SnifP!Deliver, SnifP!ReadEnds, SnifP!Begin,
       SnifP!Take, SnifP!vars, SnifP!snifVars, SnifP!wireVars
  <2> QED
    BY <2>2, <2>3, <2>4
<1> QED
  BY <1>1, Invariance, PTL DEF Spec, FollowKept, Kept

-----------------------------------------------------------------------------
(***************************************************************************)
(* The capture implements its log. A packet number is past if the packets  *)
(* in the channel and in the read loop's hand, and all those still to      *)
(* come, are later. The last stored packet is past, and so is the one the  *)
(* consumer holds, which is later than the stored one.                     *)
(***************************************************************************)
Line == chan \o pkt
Past(n) == n <= emitted /\ \A i \in DOMAIN Line : n < Line[i].n
Last == log[Len(log)].n
Holds == con \in {"process", "append"}

LogInv ==
  /\ Inv /\ SnifP!OrderInv
  /\ log # <<>> => Past(Last)
  /\ Holds => Past(cur.n)
  /\ Holds /\ log # <<>> => Last < cur.n

(* What is past stays past, whatever the read loop and the consumer do.    *)
LEMMA PastStays ==
  ASSUME LogInv, [Next]_vars, NEW n \in Nat, Past(n)
  PROVE  Past(n)'
<1>1. /\ [SnifP!Next]_(SnifP!vars)
      /\ chan \in Seq(SnifP!Item) /\ pkt \in Seq(SnifP!Item) /\ Len(pkt) <= 1 /\ emitted \in Nat
  BY SnifferSteps DEF LogInv, Inv, SnifInv, SnifP!TypeInv, SnifP!TypeOK
<1> USE DEF Past, Line
<1>2. CASE UNCHANGED <<chan, pkt, emitted>>
  BY <1>2
<1>3. ASSUME NEW b \in Body, SnifP!ReadPacket(b) PROVE Past(n)'
  <2>1. /\ pkt = <<>> /\ chan' = chan /\ emitted' = emitted + 1
        /\ pkt' = <<[n |-> emitted + 1, body |-> b]>>
    BY <1>3 DEF SnifP!ReadPacket, LogInv, SnifP!OrderInv
  <2> DEFINE x == [n |-> emitted + 1, body |-> b]
             l == chan \o <<x>>
  <2>2. /\ chan \o pkt = chan /\ x.n = emitted + 1
        /\ DOMAIN l = 1 .. Len(chan) + 1 /\ DOMAIN chan = 1 .. Len(chan) /\ Len(chan) \in Nat
        /\ l[Len(chan) + 1] = x /\ \A i \in DOMAIN chan : l[i] = chan[i]
    BY <1>1, <2>1
  <2>3. chan' \o pkt' = l
    BY <2>1
  <2> HIDE DEF x, l
  <2>4. \A i \in DOMAIN l : n < l[i].n
    <3> SUFFICES ASSUME NEW i \in DOMAIN l PROVE n < l[i].n
      OBVIOUS
    <3>1. CASE i = Len(chan) + 1
      BY <1>1, <2>2, <3>1
    <3>2. CASE i # Len(chan) + 1
      BY <2>2, <3>2
    <3> QED
      BY <3>1, <3>2
  <2> QED
    BY <1>1, <2>1, <2>3, <2>4
<1>4. CASE SnifP!Deliver
  <2>1. /\ chan' = chan \/ chan' = chan \o pkt
        /\ pkt' = <<>> /\ emitted' = emitted
    BY <1>4 DEF SnifP!Deliver
  <2>2. chan' \o pkt' = chan'
    <3>1. chan \o pkt \in Seq(SnifP!Item)
      BY <1>1
    <3>2. chan' \in Seq(SnifP!Item)
      BY <1>1, <2>1, <3>1
    <3>3. \A s \in Seq(SnifP!Item) : s \o <<>> = s
      OBVIOUS
    <3> QED
      BY <2>1, <3>2, <3>3
  <2>3. \A i \in DOMAIN chan : i \in DOMAIN Line /\ Line[i] = chan[i]
    BY <1>1
  <2> QED
    BY <2>1, <2>2, <2>3
<1>5. CASE SnifP!Take
  <2>1. chan # <<>> /\ chan' = Tail(chan) /\ pkt' = pkt /\ emitted' = emitted
    BY <1>5 DEF SnifP!Take
  <2>2. \A i \in DOMAIN (Tail(chan) \o pkt) :
          i + 1 \in DOMAIN Line /\ (Tail(chan) \o pkt)[i] = Line[i + 1]
    BY <1>1, <2>1
  <2> QED
    BY <2>1, <2>2
<1>6. CASE SnifP!Start
  BY <1>2, <1>6 DEF SnifP!Start, SnifP!OpenFails, SnifP!Open, SnifP!InitLock,
     SnifP!InitWrite, SnifP!readVars
<1>7. CASE SnifP!StopSwap \/ SnifP!StopClosePort \/ SnifP!StopCloseChan \/ SnifP!ReadEnds
  BY <1>2, <1>7 DEF SnifP!StopSwap, SnifP!StopClosePort, SnifP!StopCloseChan,
     SnifP!ReadEnds, SnifP!readVars
<1>8. ASSUME NEW c \in Caller, NEW op, NEW f,
             SnifP!Begin(c, op, f) \/ SnifP!Lock(c) \/ SnifP!BuildFrame(c)
      PROVE  Past(n)'
  BY <1>2, <1>8 DEF SnifP!Begin, SnifP!Lock, SnifP!BuildFrame, SnifP!readVars
<1>9. ASSUME NEW c \in Caller, NEW ok \in BOOLEAN, SnifP!WriteFrame(c, ok)
      PROVE  Past(n)'
  BY <1>2, <1>9 DEF SnifP!WriteFrame, SnifP!readVars
<1>10. CASE UNCHANGED SnifP!vars
  BY <1>2, <1>10 DEF SnifP!vars, SnifP!snifVars, SnifP!readVars
<1> HIDE DEF Past, Line
<1>11. CASE SnifP!Calm
  BY <1>3, <1>5, <1>6, <1>7, <1>8, <1>9, <1>11 DEF SnifP!Calm, SnifP!CallStep
<1> QED
  BY <1>1, <1>4, <1>7, <1>10, <1>11 DEF SnifP!Next

(* What a step does to the stored packets and to the one held.             *)
LEMMA LogFacts ==
  ASSUME Next
  PROVE  \/ Sto!Recv /\ UNCHANGED snifOwn
         \/ Sto!AppendPacket /\ UNCHANGED own
         \/ UNCHANGED log /\ (Holds' => Holds /\ UNCHANGED cur)
<1> USE DEF Holds
<1>1. CASE UNCHANGED storeVars
  BY <1>1 DEF storeVars
<1>2. CASE Start
  <2>1. CASE StartStore \/ StartFailed
    BY <2>1 DEF StartStore, StartFailed, Sto!StartConsumer, Sto!CloseStop
  <2>2. CASE ~(StartStore \/ StartFailed)
    BY <1>1, <1>2, <2>2 DEF Start, StartSniffer, FailedStartReturns, StartWithoutFollow,
       StartFollow, StartFollowInvalid, StartFollowDone, parts
  <2> QED
    BY <2>1, <2>2
<1>3. CASE Stop
  <2>1. CASE StopStore
    BY <2>1 DEF StopStore, Sto!CloseStop
  <2>2. CASE ~StopStore
    BY <1>1, <1>3, <2>2 DEF Stop, StopTuner, StopSniffer, StoppingSniffer, StopReturns, parts
  <2> QED
    BY <2>1, <2>2
<1>4. CASE AutoTune
  BY <1>1, <1>4 DEF AutoTune, TuneProceeds, TuneFires, TuneCancelled, TuneCheck,
     TuneReadFlags, TuneKeeps, TuneNarrows, TuneReturns, parts
<1>5. CASE Consumer
  BY <1>5 DEF Consumer, capVars, Sto!Consume, Sto!ConsumerExit, Sto!Process
<1>6. ASSUME NEW f \in Filters, SetFilter(f)
      PROVE  UNCHANGED log /\ (Holds' => Holds /\ UNCHANGED cur)
  BY <1>6 DEF SetFilter, Sto!SetFilter
<1>7. ASSUME NEW addr \in FollowArgs, SetFollow(addr) PROVE UNCHANGED storeVars
  BY <1>7 DEF SetFollow
<1> HIDE DEF Holds
<1> QED
  BY <1>1, <1>2, <1>3, <1>4, <1>5, <1>6, <1>7 DEF Next, ReadLoop, Command

LEMMA LogStep == Once /\ LogInv /\ [Next]_vars => LogInv'
<1> SUFFICES ASSUME Once, LogInv, [Next]_vars PROVE LogInv'
  OBVIOUS
<1>1. Inv' /\ SnifP!OrderInv'
  <2>1. Inv'
    BY InvStep DEF LogInv
  <2>2. [SnifP!Next]_(SnifP!vars)
    BY SnifferSteps DEF LogInv
  <2> QED
    BY <2>1, <2>2, SnifAssumptions, SnifP!OrderStep DEF LogInv
<1>2. /\ log \in Seq(Sto!Item) /\ (Holds => cur \in Sto!Item)
      /\ chan \in Seq(Sto!Item) /\ pkt \in Seq(Sto!Item) /\ emitted \in Nat
  BY DEF LogInv, Inv, StoreTypes, SnifInv, SnifP!TypeInv, SnifP!TypeOK, SnifP!Item, Sto!Item,
         Holds
<1>3. \A item \in Sto!Item : item.n \in Nat
  BY DEF Sto!Item
<1>4. (log # <<>> => Last \in Nat) /\ (Holds => cur.n \in Nat)
  <2>1. log # <<>> => log[Len(log)] \in Sto!Item
    BY <1>2
  <2> QED
    BY <1>2, <1>3, <2>1 DEF Last
<1>5. CASE UNCHANGED log /\ (Holds' => Holds /\ UNCHANGED cur)
  <2>1. UNCHANGED Last
    BY <1>5 DEF Last
  <2>2. log' # <<>> => Past(Last)'
    <3> SUFFICES ASSUME log' # <<>> PROVE Past(Last)'
      OBVIOUS
    <3>1. Last \in Nat /\ Past(Last)
      BY <1>4, <1>5 DEF LogInv
    <3>2. \A n \in Nat : Past(n) => Past(n)'
      BY PastStays
    <3> QED
      BY <2>1, <3>1, <3>2 DEF Past, Line
  <2>3. Holds' => Past(cur.n)'
    <3> SUFFICES ASSUME Holds' PROVE Past(cur.n)'
      OBVIOUS
    <3>1. cur.n \in Nat /\ Past(cur.n) /\ cur' = cur
      BY <1>4, <1>5 DEF LogInv
    <3>2. \A n \in Nat : Past(n) => Past(n)'
      BY PastStays
    <3> QED
      BY <3>1, <3>2 DEF Past, Line
  <2> QED
    BY <1>1, <1>5, <2>1, <2>2, <2>3 DEF LogInv
<1>6. CASE Sto!Recv /\ UNCHANGED snifOwn
  <2>1. /\ chan # <<>> /\ cur' = Head(chan) /\ chan' = Tail(chan) /\ log' = log
        /\ pkt' = pkt /\ emitted' = emitted
    BY <1>6 DEF Sto!Recv, snifOwn
  <2>2. /\ 1 \in DOMAIN Line /\ Line[1] = Head(chan)
        /\ \A i \in DOMAIN (Tail(chan) \o pkt) :
             i + 1 \in DOMAIN Line /\ 1 < i + 1 /\ (Tail(chan) \o pkt)[i] = Line[i + 1]
    BY <1>2, <2>1 DEF Line
  <2>3. SnifP!Increasing(Line) /\ SnifP!Upto(Line, emitted)
    BY DEF LogInv, SnifP!OrderInv, Line
  <2>4. Past(cur.n)'
    <3>1. cur'.n <= emitted'
      BY <2>1, <2>2, <2>3 DEF SnifP!Upto
    <3>2. \A i \in DOMAIN (Tail(chan) \o pkt) : cur'.n < (Tail(chan) \o pkt)[i].n
      BY <2>1, <2>2, <2>3 DEF SnifP!Increasing
    <3> QED
      BY <2>1, <3>1, <3>2 DEF Past, Line
  <2>5. log # <<>> => Past(Last)' /\ Last' < cur'.n
    <3> SUFFICES ASSUME log # <<>> PROVE Past(Last)' /\ Last' < cur'.n
      OBVIOUS
    <3>1. Last \in Nat /\ Past(Last) /\ Last' = Last
      BY <1>4, <2>1 DEF LogInv, Last
    <3>2. Past(Last)'
      BY <3>1, PastStays DEF Past, Line
    <3> QED
      BY <2>1, <2>2, <3>1, <3>2 DEF Past
  <2> QED
    BY <1>1, <2>1, <2>4, <2>5 DEF LogInv
<1>7. CASE Sto!AppendPacket
  <2>1. Holds /\ log' = Append(log, cur) /\ ~Holds'
    BY <1>7 DEF Sto!AppendPacket, Holds
  <2>2. Last' = cur.n
    BY <1>2, <2>1 DEF Last
  <2>3. \A n \in Nat : Past(n) => Past(n)'
    BY PastStays
  <2>4. Past(Last)'
    BY <1>4, <2>1, <2>2, <2>3 DEF LogInv, Past, Line
  <2> QED
    BY <1>1, <2>1, <2>4 DEF LogInv
<1>8. CASE UNCHANGED vars
  BY <1>5, <1>8 DEF vars, parts, storeVars, Holds
<1> QED
  BY <1>5, <1>6, <1>7, <1>8, LogFacts

(* The owner goes from Start to the end of Stop and never back.            *)
LEMMA OwnMoves ==
  ASSUME Once, Inv, Next
  PROVE  \/ own' = own
         \/ /\ own \notin {"failed", "down"} /\ own' # "new"
            /\ own = "new" => own' \notin {"failed", "down"}
            /\ UNCHANGED log
<1>1. OwnInv /\ MaxStops \in Nat /\ MaxStops <= 1 /\ stops \in Nat
  BY CaptureAssumption DEF Once, Inv, CaptureTypes
<1>2. CASE Start
  BY <1>2 DEF Start, StartStore, StartSniffer, StartFailed, FailedStartReturns,
     StartWithoutFollow, StartFollow, StartFollowInvalid, StartFollowDone, SpawnTuner,
     Sto!StartConsumer, Sto!CloseStop, parts, storeVars, capVars
<1>3. CASE StopTuner
  <2>1. own # "down"
    BY <1>1, <1>3 DEF StopTuner, OwnInv, Stopping
  <2> QED
    BY <1>3, <2>1 DEF StopTuner, Ready, parts, storeVars
<1>4. CASE Stop /\ ~StopTuner
  BY <1>4 DEF Stop, StopSniffer, StoppingSniffer, StopStore, StopReturns, Sto!CloseStop,
     parts, storeVars, capVars
<1>5. CASE AutoTune \/ ReadLoop \/ Consumer
  BY <1>5 DEF AutoTune, TuneProceeds, TuneFires, TuneCancelled, TuneCheck, TuneReadFlags,
     TuneKeeps, TuneNarrows, TuneReturns, ReadLoop, Consumer, capVars
<1>6. ASSUME NEW c \in Caller, Command(c) PROVE own' = own
  BY <1>6 DEF Command, capVars
<1>7. ASSUME NEW f \in Filters, SetFilter(f) PROVE own' = own
  BY <1>7 DEF SetFilter, capVars
<1>8. ASSUME NEW addr \in FollowArgs, SetFollow(addr) PROVE own' = own
  BY <1>8 DEF SetFollow
<1> QED
  BY <1>2, <1>3, <1>4, <1>5, <1>6, <1>7, <1>8 DEF Next

(* A step of the capture is a step of its log, or changes neither.         *)
LEMMA LogSimulation == Once /\ LogInv /\ [Next]_vars => [Promised!Next]_<<Phase, log>>
<1> SUFFICES ASSUME Once, LogInv, [Next]_vars PROVE [Promised!Next]_<<Phase, log>>
  OBVIOUS
<1>1. Inv /\ OwnInv /\ StoreTypes
  BY DEF LogInv, Inv
<1>2. CASE Sto!AppendPacket /\ UNCHANGED own
  <2>1. /\ con = "append" /\ cur \in Sto!Item /\ log \in Seq(Sto!Item)
        /\ log' = Append(log, cur)
    BY <1>1, <1>2 DEF Sto!AppendPacket, StoreTypes
  <2>2. Phase = "on" /\ Phase' = Phase
    BY <1>1, <1>2, <2>1 DEF OwnInv, Phase
  <2>3. Len(log') = Len(log) + 1 /\ log'[Len(log')] = cur
    BY <2>1
  <2>4. cur \in Promised!Item
    BY <2>1 DEF Sto!Item, Promised!Item
  <2>5. log # <<>> => log[Len(log)].n < cur.n
    BY <2>1 DEF LogInv, Holds, Last
  <2>6. Promised!Store
    BY <2>1, <2>2, <2>3, <2>4, <2>5 DEF Promised!Store
  <2> QED
    BY <2>6 DEF Promised!Next
<1>3. CASE own' = own /\ UNCHANGED log
  BY <1>3 DEF Phase
<1>4. CASE Next /\ own' # own
  <2>1. /\ own \notin {"failed", "down"} /\ own' # "new" /\ UNCHANGED log
        /\ own = "new" => own' \notin {"failed", "down"}
    BY <1>1, <1>4, OwnMoves
  <2>2. CASE own = "new"
    BY <2>1, <2>2 DEF Phase, Promised!Next, Promised!Begin
  <2>3. CASE own # "new" /\ own' \in {"failed", "down"}
    BY <2>1, <2>3 DEF Phase, Promised!Next, Promised!Finish
  <2>4. CASE own # "new" /\ own' \notin {"failed", "down"}
    BY <2>1, <2>4 DEF Phase
  <2> QED
    BY <2>2, <2>3, <2>4
<1>5. Sto!Recv => UNCHANGED log
  BY DEF Sto!Recv
<1>6. CASE UNCHANGED vars
  BY <1>3, <1>6 DEF vars, parts, storeVars, capVars
<1> QED
  BY <1>2, <1>3, <1>4, <1>5, <1>6, LogFacts

(* Readers of a capture see the log it promises: only later packets are    *)
(* ever appended, nothing is stored before Start or after Stop, whatever   *)
(* the channel loses and whichever case the consumer's select takes.       *)
THEOREM ImplementsLog == Once => (Spec => ImplementsCaptureLog)
<1> SUFFICES ASSUME Once PROVE Spec => ImplementsCaptureLog
  OBVIOUS
<1>1. Init => LogInv /\ Promised!Init
  <2> SUFFICES ASSUME Init PROVE LogInv /\ Promised!Init
    OBVIOUS
  <2>1. /\ chan = <<>> /\ pkt = <<>> /\ log = <<>> /\ con = "none" /\ own = "new"
        /\ rdr = "none" /\ Line = <<>>
    BY DEF Init, Snif!Init, Sto!Init, Line
  <2>2. SnifP!OrderInv
    BY <2>1, InvInit DEF Inv, SnifInv, SnifP!OrderInv, SnifP!Increasing, SnifP!Upto, Line
  <2> QED
    BY <2>1, <2>2, InvInit DEF LogInv, Holds, Promised!Init, Phase
<1> QED
  BY <1>1, LogStep, LogSimulation, PTL DEF Spec, ImplementsCaptureLog, Promised!Spec
=============================================================================
