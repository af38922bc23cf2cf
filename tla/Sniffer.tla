------------------------------ MODULE Sniffer ------------------------------
(***************************************************************************)
(* The Sniffer of package sniffer and the dongle at the other end of its   *)
(* serial port. Goroutines: the owner, which calls Start and Stop; the     *)
(* read loop, which decodes packets off the port and sends them to the     *)
(* packet channel without ever blocking; and callers of Follow and         *)
(* UpdateScanFlags, which write command frames under writeMu.              *)
(*                                                                         *)
(* The serial bytes are abstracted: a read returns a whole packet or ends  *)
(* the loop. The firmware keeps what its last command made of it: idle,    *)
(* scanning with some flags, or following a device.                        *)
(***************************************************************************)
EXTENDS Naturals, Sequences

CONSTANTS
  Caller,      \* goroutines that call Follow and UpdateScanFlags
  FlagChoice,  \* flag bytes they ask for, as sets of scan flags
  Body,        \* packet bodies
  ChanSize,    \* channelSize
  CounterMod,  \* txCounter is a uint16: 65536 in the code
  Free,        \* writeMu is unlocked
  Owner,       \* the goroutine that calls Start and Stop
  PortErrors,  \* whether reads and writes may fail on an open port
  MaxPackets,  \* bound on the packets of a behaviour
  MaxCalls     \* bound on the calls of one caller

ScanFlag == {"SCAN_RSP", "EXT_ADV", "CODED_PHY"}
ScanFlagAll == {"SCAN_RSP", "EXT_ADV"}

(* The frames sendInitSequence writes, in order.                           *)
InitSequence == <<"SET_ADV_HOP_SEQ", "REQ_VERSION", "REQ_PING",
                  "REQ_TIMESTAMP", "REQ_SCAN_CONT", "SET_TEMPORARY_KEY">>
FrameId == {InitSequence[i] : i \in DOMAIN InitSequence} \cup {"REQ_FOLLOW"}
Frame == [id : FrameId, ctr : 0 .. CounterMod - 1, flags : SUBSET ScanFlag]
NoFrame == [id |-> "SET_TEMPORARY_KEY", ctr |-> CounterMod - 1, flags |-> {}]

Item == [n : Nat \ {0}, body : Body]

ASSUME SizesAssumption ==
  /\ ChanSize \in Nat \ {0} /\ CounterMod \in Nat \ {0, 1, 2}
  /\ MaxPackets \in Nat /\ MaxCalls \in Nat /\ PortErrors \in BOOLEAN
ASSUME NamesAssumption ==
  /\ FlagChoice \subseteq SUBSET ScanFlag
  /\ Owner \notin Caller /\ Free \notin Caller \cup {Owner}

VARIABLES
  life,        \* Start: "new", "init", "up" or "failed"
  sent,        \* frames of the init sequence written so far
  stop,        \* Stop: "no", "close", "wait" or "done"
  running,     \* s.running
  port,        \* "none", "open" or "closed"
  rdr,         \* read loop: "none", "read", "send" or "done"
  pkt,         \* the packet that is decoded and not yet sent, if any
  chan,        \* s.packets
  chanClosed,
  emitted,     \* number of the last packet the read loop decoded
  writeMu,     \* who holds writeMu
  call,        \* per caller: control point, request, frame and outcome
  calls,       \* per caller: number of calls begun
  scanFlags,   \* s.scanFlags
  txCounter,   \* s.txCounter
  built,       \* the last frame that was built
  fw,          \* the firmware: mode and flags of its last REQ_SCAN_CONT
  unsent,      \* history: the last REQ_SCAN_CONT could not be written
  panic        \* a goroutine panicked: send on or close of a closed channel

wireVars == <<writeMu, call, calls, scanFlags, txCounter, built, fw, unsent>>
readVars == <<rdr, pkt, chan, emitted>>
ownVars == <<life, sent, stop, running, port, chanClosed>>
snifVars == <<ownVars, readVars, wireVars>>
vars == <<snifVars, panic>>

Call == [pc : {"idle", "checked", "locked", "write"},
         op : {"FOLLOW", "SCAN"}, flags : SUBSET ScanFlag,
         frame : Frame, ok : BOOLEAN]

TypeOK ==
  /\ life \in {"new", "init", "up", "failed"}
  /\ sent \in 0 .. Len(InitSequence)
  /\ stop \in {"no", "close", "wait", "done"}
  /\ running \in BOOLEAN
  /\ port \in {"none", "open", "closed"}
  /\ rdr \in {"none", "read", "send", "done"}
  /\ pkt \in Seq(Item) /\ Len(pkt) <= 1
  /\ chan \in Seq(Item) /\ Len(chan) <= ChanSize
  /\ chanClosed \in BOOLEAN
  /\ emitted \in Nat
  /\ writeMu \in Caller \cup {Owner, Free}
  /\ call \in [Caller -> Call]
  /\ calls \in [Caller -> Nat]
  /\ scanFlags \in SUBSET ScanFlag
  /\ txCounter \in 0 .. CounterMod - 1
  /\ built \in Frame
  /\ fw \in [mode : {"idle", "scan", "follow"}, flags : SUBSET ScanFlag]
  /\ unsent \in BOOLEAN
  /\ panic \in BOOLEAN

-----------------------------------------------------------------------------
(* What the firmware makes of a frame. REQ_SCAN_CONT ends follow mode.     *)
React(frame) ==
  CASE frame.id = "REQ_SCAN_CONT" -> [mode |-> "scan", flags |-> frame.flags]
    [] frame.id = "REQ_FOLLOW"    -> [fw EXCEPT !.mode = "follow"]
    [] OTHER                      -> fw

(* port.Write of a frame, which succeeds or not.                           *)
Write(frame, ok) ==
  /\ ok => port = "open"
  /\ ok \/ PortErrors \/ port # "open"
  /\ fw' = IF ok THEN React(frame) ELSE fw
  /\ unsent' = IF frame.id = "REQ_SCAN_CONT" THEN ~ok ELSE unsent

(* Faulty variant: the counter stops at its last value instead of wrapping. *)
BumpSaturates(c) == IF c = CounterMod - 1 THEN c ELSE c + 1

(* buildV1Frame with the counter. sendCmd and sendReqScanContLocked stamp  *)
(* the frame and then advance the counter; Follow advances it first.       *)
Bump(c) == (c + 1) % CounterMod
Build(id, flags) ==
  /\ txCounter' = Bump(txCounter)
  /\ built' = [id |-> id, flags |-> flags,
               ctr |-> IF id = "REQ_FOLLOW" THEN Bump(txCounter) ELSE txCounter]

-----------------------------------------------------------------------------
(* Start.                                                                  *)

OpenFails ==
  /\ life = "new"
  /\ life' = "failed"
  /\ UNCHANGED <<sent, stop, running, port, chanClosed, readVars, wireVars>>

(* openNativePort succeeds and the read loop is spawned. sendInitSequence  *)
(* takes writeMu once and holds it for all its frames.                     *)
Open ==
  /\ life = "new"
  /\ life' = "init" /\ port' = "open" /\ running' = TRUE /\ rdr' = "read"
  /\ UNCHANGED <<sent, stop, chanClosed, pkt, chan, emitted, wireVars>>

InitLock ==
  /\ life = "init" /\ sent = 0 /\ writeMu = Free
  /\ writeMu' = Owner
  /\ UNCHANGED <<ownVars, readVars, call, calls, scanFlags, txCounter, built, fw, unsent>>

(* Faulty variant: a failed Start leaves the port open.                    *)
InitWriteLeaks(ok) ==
  /\ life = "init" /\ writeMu = Owner
  /\ Build(InitSequence[sent + 1],
           IF InitSequence[sent + 1] = "REQ_SCAN_CONT" THEN scanFlags ELSE {})
  /\ Write(built', ok)
  /\ IF ok
     THEN /\ sent' = sent + 1
          /\ life' = IF sent' = Len(InitSequence) THEN "up" ELSE "init"
          /\ UNCHANGED <<running, port>>
     ELSE life' = "failed" /\ running' = FALSE /\ UNCHANGED <<sent, port>>
  /\ writeMu' = IF life' = "init" THEN Owner ELSE Free
  /\ UNCHANGED <<stop, chanClosed, readVars, call, calls, scanFlags>>

(* One frame of the sequence; after the last one Start returns nil. A      *)
(* write error ends Start: the port is closed, the read loop is not        *)
(* waited for and the channel stays open.                                  *)
InitWrite(ok) ==
  /\ life = "init" /\ writeMu = Owner
  /\ Build(InitSequence[sent + 1],
           IF InitSequence[sent + 1] = "REQ_SCAN_CONT" THEN scanFlags ELSE {})
  /\ Write(built', ok)
  /\ IF ok
     THEN /\ sent' = sent + 1
          /\ life' = IF sent' = Len(InitSequence) THEN "up" ELSE "init"
          /\ UNCHANGED <<running, port>>
     ELSE /\ life' = "failed" /\ running' = FALSE /\ port' = "closed"
          /\ UNCHANGED sent
  /\ writeMu' = IF life' = "init" THEN Owner ELSE Free
  /\ UNCHANGED <<stop, chanClosed, readVars, call, calls, scanFlags>>

Start == OpenFails \/ Open \/ InitLock \/ \E ok \in BOOLEAN : InitWrite(ok)

-----------------------------------------------------------------------------
(* Stop. Swap lets one call through; the others return at once.            *)

StopSwap ==
  /\ life = "up" /\ running
  /\ running' = FALSE /\ stop' = "close"
  /\ UNCHANGED <<life, sent, port, chanClosed, readVars, wireVars>>

StopClosePort ==
  /\ stop = "close"
  /\ port' = "closed" /\ stop' = "wait"
  /\ UNCHANGED <<life, sent, running, chanClosed, readVars, wireVars>>

(* Faulty variant: the channel is closed without waiting for the read loop. *)
StopCloseChanEarly ==
  /\ stop = "wait"
  /\ panic' = (panic \/ chanClosed)
  /\ chanClosed' = TRUE /\ stop' = "done"
  /\ UNCHANGED <<life, sent, running, port, readVars, wireVars>>

(* wg.Wait returns and the channel is closed.                              *)
StopCloseChan ==
  /\ stop = "wait" /\ rdr = "done"
  /\ panic' = (panic \/ chanClosed)
  /\ chanClosed' = TRUE /\ stop' = "done"
  /\ UNCHANGED <<life, sent, running, port, readVars, wireVars>>

-----------------------------------------------------------------------------
(* The read loop. A timeout while running reads again; noise, truncated    *)
(* frames and parse errors are skipped.                                    *)

ReadPacket(b) ==
  /\ rdr = "read" /\ port = "open" /\ emitted < MaxPackets
  /\ emitted' = emitted + 1
  /\ pkt' = <<[n |-> emitted + 1, body |-> b]>>
  /\ rdr' = "send"
  /\ UNCHANGED <<chan, ownVars, wireVars>>

(* Faulty variants: the bound of the channel is off by one; in a loop that  *)
(* retries, break leaves the select only, so that the packet is sent again *)
(* until the channel is full.                                              *)
DeliverOver ==
  /\ rdr = "send"
  /\ chan' = IF Len(chan) <= ChanSize THEN chan \o pkt ELSE chan
  /\ panic' = (panic \/ chanClosed)
  /\ pkt' = <<>> /\ rdr' = "read"
  /\ UNCHANGED <<emitted, ownVars, wireVars>>
DeliverRepeats ==
  /\ rdr = "send"
  /\ panic' = (panic \/ chanClosed)
  /\ IF Len(chan) < ChanSize
     THEN chan' = chan \o pkt /\ UNCHANGED <<rdr, pkt>>
     ELSE pkt' = <<>> /\ rdr' = "read" /\ UNCHANGED chan
  /\ UNCHANGED <<emitted, ownVars, wireVars>>

(* Non-blocking send: a full channel loses the packet. Either way the loop *)
(* has done with it.                                                       *)
Deliver ==
  /\ rdr = "send"
  /\ chan' = IF Len(chan) < ChanSize THEN chan \o pkt ELSE chan
  /\ panic' = (panic \/ chanClosed)
  /\ pkt' = <<>> /\ rdr' = "read"
  /\ UNCHANGED <<emitted, ownVars, wireVars>>

(* A timeout ends the loop once running is false, an error at once: the    *)
(* port is closed or, with running still true, the dongle has failed.      *)
ReadEnds ==
  /\ rdr = "read"
  /\ port = "closed" \/ ~running \/ PortErrors
  /\ rdr' = "done"
  /\ UNCHANGED <<pkt, chan, emitted, ownVars, wireVars>>

-----------------------------------------------------------------------------
(* Follow and UpdateScanFlags. A call on a sniffer that is not running, or *)
(* with an invalid address, returns an error and changes nothing. running  *)
(* is true from the open on, but blecap, the one user of a sniffer, calls  *)
(* them only when Start has returned nil.                                  *)

Begin(c, op, flags) ==
  /\ life = "up" /\ running
  /\ call[c].pc = "idle" /\ calls[c] < MaxCalls
  /\ call' = [call EXCEPT ![c].pc = "checked", ![c].op = op, ![c].flags = flags]
  /\ calls' = [calls EXCEPT ![c] = @ + 1]
  /\ UNCHANGED <<ownVars, readVars, writeMu, scanFlags, txCounter, built, fw, unsent>>

(* Faulty variant: no mutual exclusion.                                    *)
LockBarges(c) ==
  /\ call[c].pc = "checked"
  /\ writeMu' = c
  /\ call' = [call EXCEPT ![c].pc = "locked"]
  /\ UNCHANGED <<ownVars, readVars, calls, scanFlags, txCounter, built, fw, unsent>>

Lock(c) ==
  /\ call[c].pc = "checked" /\ writeMu = Free
  /\ writeMu' = c
  /\ call' = [call EXCEPT ![c].pc = "locked"]
  /\ UNCHANGED <<ownVars, readVars, calls, scanFlags, txCounter, built, fw, unsent>>

(* scanFlags is assigned before the frame is known to be written.          *)
BuildFrame(c) ==
  /\ call[c].pc = "locked"
  /\ IF call[c].op = "FOLLOW"
     THEN Build("REQ_FOLLOW", {}) /\ UNCHANGED scanFlags
     ELSE Build("REQ_SCAN_CONT", call[c].flags) /\ scanFlags' = call[c].flags
  /\ call' = [call EXCEPT ![c].pc = "write", ![c].frame = built']
  /\ UNCHANGED <<ownVars, readVars, writeMu, calls, fw, unsent>>

(* Faulty variant: the error return keeps the mutex.                       *)
WriteFrameKeepsLock(c, ok) ==
  /\ call[c].pc = "write"
  /\ Write(call[c].frame, ok)
  /\ call' = [call EXCEPT ![c].pc = "idle", ![c].ok = ok]
  /\ writeMu' = IF ok THEN Free ELSE c
  /\ UNCHANGED <<ownVars, readVars, calls, scanFlags, txCounter, built>>

WriteFrame(c, ok) ==
  /\ call[c].pc = "write"
  /\ Write(call[c].frame, ok)
  /\ call' = [call EXCEPT ![c].pc = "idle", ![c].ok = ok]
  /\ writeMu' = Free
  /\ UNCHANGED <<ownVars, readVars, calls, scanFlags, txCounter, built>>

CallStep(c) == Lock(c) \/ BuildFrame(c) \/ \E ok \in BOOLEAN : WriteFrame(c, ok)

-----------------------------------------------------------------------------
(* The consumer of the channel.                                            *)
Take ==
  /\ chan # <<>>
  /\ chan' = Tail(chan)
  /\ UNCHANGED <<rdr, pkt, emitted, ownVars, wireVars>>

Init ==
  /\ life = "new" /\ sent = 0 /\ stop = "no"
  /\ running = FALSE /\ port = "none" /\ chanClosed = FALSE
  /\ rdr = "none" /\ pkt = <<>> /\ chan = <<>> /\ emitted = 0
  /\ writeMu = Free
  /\ call = [c \in Caller |-> [pc |-> "idle", op |-> "FOLLOW", flags |-> {},
                               frame |-> NoFrame, ok |-> TRUE]]
  /\ calls = [c \in Caller |-> 0]
  /\ scanFlags = ScanFlagAll
  /\ txCounter = 0 /\ built = NoFrame
  /\ fw = [mode |-> "idle", flags |-> {}] /\ unsent = FALSE
  /\ panic = FALSE

(* Steps that cannot panic.                                                *)
Calm ==
  \/ Start \/ StopSwap \/ StopClosePort
  \/ \E b \in Body : ReadPacket(b)
  \/ ReadEnds
  \/ \E c \in Caller : \/ \E f \in FlagChoice : Begin(c, "SCAN", f)
                       \/ Begin(c, "FOLLOW", {})
                       \/ CallStep(c)
  \/ Take

Next == (Calm /\ UNCHANGED panic) \/ StopCloseChan \/ Deliver

Spec == Init /\ [][Next]_vars

(* Runnable goroutines are scheduled, port.Write returns, and a read of a  *)
(* closed port returns an error.                                           *)
Fairness ==
  /\ WF_vars(StopClosePort /\ UNCHANGED panic)
  /\ WF_vars(StopCloseChan)
  /\ WF_vars(Deliver)
  /\ WF_vars(port = "closed" /\ ReadEnds /\ UNCHANGED panic)
  /\ \A c \in Caller : SF_vars(CallStep(c) /\ UNCHANGED panic)

FairSpec == Spec /\ Fairness

-----------------------------------------------------------------------------
(* Stop closes the packet channel only once the read loop can no longer    *)
(* send to it, and only once, however calls and packets interleave.        *)
NoPanic == ~panic

(* Whenever nobody is writing, the firmware scans with the flags ScanFlags *)
(* reports, unless the last REQ_SCAN_CONT could not be written: two        *)
(* updates never reach the wire in the other order than scanFlags.         *)
FlagsAgree == life = "up" /\ writeMu = Free /\ ~unsent => fw.flags = scanFlags

(* The channel keeps the order of the dongle and no packet twice, although *)
(* packets are lost while it is full.                                      *)
InOrder == \A i, j \in DOMAIN chan : i < j => chan[i].n < chan[j].n

(* Two frames in a row carry the same counter in one case only: a command  *)
(* sent right after REQ_FOLLOW, which advances the counter before it is    *)
(* used while every other command advances it afterwards.                  *)
CounterReuse ==
  [][built'.ctr = built.ctr =>
       built.id = "REQ_FOLLOW" /\ built'.id # "REQ_FOLLOW"]_<<built, txCounter>>

(* A failed Start leaves no read loop behind for good, although it returns *)
(* without waiting for it.                                                 *)
FailedStartEnds == (life = "failed" /\ rdr # "none") ~> rdr = "done"

(* A call that found the sniffer running returns, even when Stop closes    *)
(* the port under it.                                                      *)
CallsReturn == \A c \in Caller : call[c].pc # "idle" ~> call[c].pc = "idle"
=============================================================================
