------------------------------ MODULE Capture ------------------------------
(***************************************************************************)
(* The Capture of package blecap: it owns a Sniffer and a Store joined by  *)
(* the packet channel, starts and stops them in order, and runs the        *)
(* auto-tuner, a goroutine that after an observation period narrows the    *)
(* scan flags. This module composes the two components with the owner's    *)
(* Start, SetFilter, SetFollow and Stop and with the auto-tuner.           *)
(*                                                                         *)
(* The owner calls one operation at a time, as main and the handlers that  *)
(* hold sessMu do; the read loop, the consumer and the auto-tuner run      *)
(* beside it.                                                              *)
(***************************************************************************)
EXTENDS Naturals, Sequences, FiniteSets

CONSTANTS
  Address, Entry, Covers, Body, NoItem, ChanSize, MaxPackets,  \* of Store
  CounterMod, Free, Owner, PortErrors, MaxCalls,               \* of Sniffer
  FollowAddrs, \* addresses of WithFollow, from {"none", "valid", "invalid"}
  FollowArgs,  \* arguments of SetFollow, from {"valid", "empty"}
  Filters,     \* filters that WithFilter and SetFilter may install
  MaxStops     \* bound on the calls of Stop

Controller == "controller"
Tuner == "tuner"
Caller == {Controller, Tuner}
FlagChoice == SUBSET {"SCAN_RSP", "EXT_ADV"}

ASSUME CaptureAssumption ==
  /\ FollowAddrs \subseteq {"none", "valid", "invalid"}
  /\ FollowArgs \subseteq {"valid", "empty"}
  /\ Filters \subseteq SUBSET Entry
  /\ MaxStops \in Nat

VARIABLES
  life, sent, stop, running, port, rdr, pkt, writeMu, call, calls,
  scanFlags, txCounter, built, fw, unsent,           \* of the sniffer
  con, cur, storeStop, filter, log, seenExt, mark,   \* of the store
  chan, chanClosed, emitted, panic,                  \* of both
  own,        \* control point of the owner
  stops,      \* calls of Stop
  tuneStop,   \* stopTuneCh has been closed
  tune,       \* control point of the auto-tuner
  tuneCur,    \* the flags it read
  extSeen,    \* history: seenExtAdv when it read them
  followAddr, \* the address of WithFollow
  want        \* history: what the last SetFollow asked for

Snif == INSTANCE Sniffer
Sto == INSTANCE Store

(* The assumptions of the two components.                                  *)
ASSUME PartsAssumption ==
  /\ Snif!SizesAssumption /\ Snif!NamesAssumption
  /\ Sto!BodyAssumption /\ Sto!SizeAssumption

snifOwn == <<life, sent, stop, running, port, rdr, pkt, emitted, writeMu, call,
             calls, scanFlags, txCounter, built, fw, unsent, chanClosed>>
storeVars == <<con, cur, storeStop, filter, log, seenExt, mark>>
tuneVars == <<tune, tuneCur, extSeen>>
capVars == <<own, stops, tuneStop, tuneVars, want, followAddr>>
parts == <<snifOwn, chan, panic, storeVars>>
vars == <<parts, capVars>>

TypeOK ==
  /\ Snif!TypeOK /\ Sto!TypeOK
  /\ own \in {"new", "starting", "startFollow", "startErr", "failing", "failed",
              "up", "waitTune", "snifStop", "storeWait", "down"}
  /\ stops \in Nat
  /\ tuneStop \in BOOLEAN
  /\ tune \in {"none", "wait", "check", "flags", "ext", "update", "done"}
  /\ tuneCur \in SUBSET Snif!ScanFlag
  /\ extSeen \in BOOLEAN
  /\ followAddr \in FollowAddrs
  /\ want \in {"none", "valid", "empty"}

-----------------------------------------------------------------------------
(* Start: the store's consumer first, then the sniffer, then the follow    *)
(* command, then the auto-tuner.                                           *)

StartStore ==
  /\ own = "new" /\ own' = "starting"
  /\ Sto!StartConsumer
  /\ UNCHANGED <<snifOwn, chan, panic, stops, tuneStop, tuneVars, want, followAddr>>

StartSniffer ==
  /\ own = "starting"
  /\ Snif!Start
  /\ UNCHANGED <<panic, storeVars, capVars>>

(* snif.Start failed: the store is stopped and waited for.                 *)
StartFailed ==
  /\ own = "starting" /\ life = "failed" /\ own' = "failing"
  /\ Sto!CloseStop
  /\ UNCHANGED <<snifOwn, chan, stops, tuneStop, tuneVars, want, followAddr>>

FailedStartReturns ==
  /\ own = "failing" /\ Sto!ConsumerGone /\ own' = "failed"
  /\ UNCHANGED <<parts, stops, tuneStop, tuneVars, want, followAddr>>

SpawnTuner == own' = "up" /\ tune' = "wait" /\ UNCHANGED <<tuneCur, extSeen>>

StartWithoutFollow ==
  /\ own = "starting" /\ life = "up" /\ followAddr = "none"
  /\ SpawnTuner
  /\ UNCHANGED <<parts, stops, tuneStop, want, followAddr>>

StartFollow ==
  /\ own = "starting" /\ life = "up" /\ followAddr = "valid"
  /\ own' = "startFollow"
  /\ Snif!Begin(Controller, "FOLLOW", {})
  /\ UNCHANGED <<panic, storeVars, stops, tuneStop, tuneVars, want, followAddr>>

(* A follow address that does not parse, or a follow command that cannot   *)
(* be written, makes Start return an error and stops nothing.              *)
StartFollowInvalid ==
  /\ own = "starting" /\ life = "up" /\ followAddr = "invalid"
  /\ own' = "startErr"
  /\ UNCHANGED <<parts, stops, tuneStop, tuneVars, want, followAddr>>

StartFollowDone ==
  /\ own = "startFollow" /\ call[Controller].pc = "idle"
  /\ IF call[Controller].ok THEN SpawnTuner
                            ELSE own' = "startErr" /\ UNCHANGED tuneVars
  /\ UNCHANGED <<parts, stops, tuneStop, want, followAddr>>

Start == \/ StartStore \/ StartSniffer \/ StartFailed \/ FailedStartReturns
         \/ StartWithoutFollow \/ StartFollow \/ StartFollowInvalid \/ StartFollowDone

-----------------------------------------------------------------------------
(* SetFilter and SetFollow on a running capture.                           *)

Ready == own = "up" /\ call[Controller].pc = "idle"

SetFilter(f) ==
  /\ Ready
  /\ Sto!SetFilter(f)
  /\ UNCHANGED <<snifOwn, chan, panic, capVars>>

(* followAddr is left alone. An empty address does not parse: Follow       *)
(* returns an error and sends nothing.                                     *)
SetFollow(addr) ==
  /\ Ready
  /\ want' = addr
  /\ IF addr = "valid" THEN Snif!Begin(Controller, "FOLLOW", {})
                       ELSE UNCHANGED <<snifOwn, chan>>
  /\ UNCHANGED <<panic, storeVars, own, stops, tuneStop, tuneVars, followAddr>>

-----------------------------------------------------------------------------
(* Stop: the auto-tuner, then the sniffer, then the store, each waited for. *)

(* Faulty variant: stopTuneCh is not closed before the wait.               *)
StopTunerSilent ==
  /\ Ready \/ own = "down"
  /\ stops < MaxStops /\ stops' = stops + 1
  /\ own' = "waitTune"
  /\ UNCHANGED <<parts, tuneStop, tuneVars, want, followAddr>>

StopTuner ==
  /\ Ready \/ own = "down"
  /\ stops < MaxStops /\ stops' = stops + 1
  /\ tuneStop' = TRUE /\ own' = "waitTune"
  /\ UNCHANGED <<parts, tuneVars, want, followAddr>>

(* Faulty variant: the auto-tuner is not waited for.                       *)
StopSnifferEager ==
  /\ own = "waitTune" /\ own' = "snifStop"
  /\ IF running THEN Snif!StopSwap ELSE UNCHANGED <<snifOwn, chan>>
  /\ UNCHANGED <<panic, storeVars, stops, tuneStop, tuneVars, want, followAddr>>

(* snif.Stop, which returns at once when the sniffer does not run.         *)
StopSniffer ==
  /\ own = "waitTune" /\ tune \in {"none", "done"} /\ own' = "snifStop"
  /\ IF running THEN Snif!StopSwap ELSE UNCHANGED <<snifOwn, chan>>
  /\ UNCHANGED <<panic, storeVars, stops, tuneStop, tuneVars, want, followAddr>>

StoppingSniffer ==
  /\ own = "snifStop"
  /\ (Snif!StopClosePort /\ UNCHANGED panic) \/ Snif!StopCloseChan
  /\ UNCHANGED <<storeVars, capVars>>

StopStore ==
  /\ own = "snifStop" /\ stop \notin {"close", "wait"} /\ own' = "storeWait"
  /\ Sto!CloseStop
  /\ UNCHANGED <<snifOwn, chan, stops, tuneStop, tuneVars, want, followAddr>>

(* Faulty variant: the consumer is not waited for.                         *)
StopReturnsEarly ==
  /\ own = "storeWait" /\ own' = "down"
  /\ UNCHANGED <<parts, stops, tuneStop, tuneVars, want, followAddr>>

StopReturns ==
  /\ own = "storeWait" /\ Sto!ConsumerGone /\ own' = "down"
  /\ UNCHANGED <<parts, stops, tuneStop, tuneVars, want, followAddr>>

Stop == StopTuner \/ StopSniffer \/ StoppingSniffer \/ StopStore \/ StopReturns

-----------------------------------------------------------------------------
(* autoTuneLoop, one shared read or write a step.                          *)

TuneStep(from, to) == tune = from /\ tune' = to

(* The observation period ends, or stopTuneCh is closed first.             *)
TuneFires ==
  /\ TuneStep("wait", "check")
  /\ UNCHANGED <<parts, own, stops, tuneStop, tuneCur, extSeen, want, followAddr>>

TuneCancelled ==
  /\ TuneStep("wait", "done") /\ tuneStop
  /\ UNCHANGED <<parts, own, stops, tuneStop, tuneCur, extSeen, want, followAddr>>

(* Faulty variant: follow mode does not suppress the auto-tuner.           *)
TuneCheckFilterOnly ==
  /\ TuneStep("check", IF filter = {} THEN "done" ELSE "flags")
  /\ UNCHANGED <<parts, own, stops, tuneStop, tuneCur, extSeen, want, followAddr>>

(* followAddr is what WithFollow was given, not what SetFollow asked for.  *)
TuneCheck ==
  /\ TuneStep("check", IF filter = {} \/ followAddr # "none" THEN "done" ELSE "flags")
  /\ UNCHANGED <<parts, own, stops, tuneStop, tuneCur, extSeen, want, followAddr>>

(* ScanFlags takes writeMu.                                                *)
TuneReadFlags ==
  /\ TuneStep("flags", "ext") /\ writeMu = Free
  /\ tuneCur' = scanFlags /\ extSeen' = seenExt
  /\ UNCHANGED <<parts, own, stops, tuneStop, want, followAddr>>

(* Faulty variant: the evidence is ignored.                                *)
NeededBlindly == tuneCur \ {"EXT_ADV"}

(* The flags still needed: EXT_ADV goes unless an extended packet is in    *)
(* the store; the other flags are kept.                                    *)
Needed == IF seenExt THEN tuneCur ELSE tuneCur \ {"EXT_ADV"}

TuneKeeps ==
  /\ TuneStep("ext", "done") /\ Needed = tuneCur
  /\ UNCHANGED <<parts, own, stops, tuneStop, tuneCur, extSeen, want, followAddr>>

(* UpdateScanFlags, whose error is ignored.                                *)
TuneNarrows ==
  /\ TuneStep("ext", "update") /\ Needed # tuneCur
  /\ Snif!Begin(Tuner, "SCAN", Needed)
  /\ UNCHANGED <<panic, storeVars, own, stops, tuneStop, tuneCur, extSeen, want, followAddr>>

TuneReturns ==
  /\ TuneStep("update", "done") /\ call[Tuner].pc = "idle"
  /\ UNCHANGED <<parts, own, stops, tuneStop, tuneCur, extSeen, want, followAddr>>

TuneProceeds == \/ TuneCancelled \/ TuneCheck \/ TuneReadFlags
                \/ TuneKeeps \/ TuneNarrows \/ TuneReturns
AutoTune == TuneFires \/ TuneProceeds

-----------------------------------------------------------------------------
(* The steps of the read loop, of commands under way and of the consumer.  *)

ReadLoop ==
  /\ \/ (Snif!ReadEnds \/ \E b \in Body : Snif!ReadPacket(b)) /\ UNCHANGED panic
     \/ Snif!Deliver
  /\ UNCHANGED <<storeVars, capVars>>

Command(c) == Snif!CallStep(c) /\ UNCHANGED <<panic, storeVars, capVars>>

Consumer == Sto!Consume /\ UNCHANGED <<snifOwn, panic, capVars>>

-----------------------------------------------------------------------------
Init ==
  /\ Snif!Init
  /\ Sto!Init /\ filter \in Filters
  /\ own = "new" /\ stops = 0 /\ tuneStop = FALSE
  /\ tune = "none" /\ tuneCur = {} /\ extSeen = FALSE
  /\ followAddr \in FollowAddrs /\ want = "none"

Next ==
  \/ Start \/ Stop \/ AutoTune \/ ReadLoop \/ Consumer
  \/ \E c \in Caller : Command(c)
  \/ \E f \in Filters : SetFilter(f)
  \/ \E addr \in FollowArgs : SetFollow(addr)

Spec == Init /\ [][Next]_vars

(* Goroutines that can run are scheduled and port.Write returns. The timer *)
(* of the observation period need not fire and the owner need not stop.    *)
Fairness ==
  /\ WF_vars(StopSniffer \/ StoppingSniffer \/ StopStore \/ StopReturns)
  /\ WF_vars(FailedStartReturns)
  /\ WF_vars(Snif!Deliver /\ UNCHANGED <<storeVars, capVars>>)
  /\ WF_vars(port = "closed" /\ Snif!ReadEnds /\ UNCHANGED <<panic, storeVars, capVars>>)
  /\ WF_vars(Consumer)
  /\ WF_vars(TuneProceeds)
  /\ \A c \in Caller : SF_vars(Command(c))

FairSpec == Spec /\ Fairness

-----------------------------------------------------------------------------
(* No goroutine sends on or closes a closed channel: the stop order of the *)
(* three parts is right for every interleaving.                            *)
NoPanic == ~panic

(* What ends leaves nothing behind. After Stop there is no goroutine, no    *)
(* open port, no command under way and no mutex held; after a failed       *)
(* snif.Start only the read loop may be left, on its closed port.          *)
NothingLeft ==
  own \in {"down", "failed"} =>
    /\ con = "done" /\ port # "open" /\ ~running
    /\ writeMu = Free /\ \A c \in Caller : call[c].pc = "idle"
    /\ own = "down" => rdr = "done" /\ tune = "done" /\ chanClosed

(* The auto-tuner never turns off a capability that the store had seen     *)
(* used by the time it read the scan flags, be it after the observation    *)
(* period had ended, and never SCAN_RSP.                                   *)
EvidenceKept ==
  "SCAN_RSP" \in scanFlags /\ (extSeen => "EXT_ADV" \in scanFlags)

(* A capture that was started in follow mode is never put back to plain    *)
(* scanning, whatever the auto-tuner and SetFollow do.                     *)
FollowKept == [][followAddr # "none" /\ fw.mode = "follow" => fw'.mode # "scan"]_fw

(* "Auto-tune is suppressed when follow mode is active because sending a   *)
(* new REQ_SCAN_CONT resets the firmware's follow state": follow mode,     *)
(* also that of SetFollow, is never reset to plain scanning.               *)
FollowNeverReset == [][fw.mode = "follow" => fw'.mode # "scan"]_fw

(* "Pass an empty string to clear follow mode (the firmware will revert to *)
(* passive scanning)": after SetFollow("") the firmware does not follow.   *)
EmptyFollowClears ==
  want = "empty" /\ call[Controller].pc = "idle" => fw.mode # "follow"

(* "It is safe to call Stop more than once."                               *)
StopRepeatable == stops > 1 => ~panic

(* Stop returns, whatever the auto-tuner, the read loop, the consumer and  *)
(* a command under way are doing when it is called.                        *)
StopTerminates == own = "waitTune" ~> own = "down"

(* The capture implements the log it promises to its readers.              *)
Phase == CASE own = "new" -> "off"
           [] own \in {"down", "failed"} -> "over"
           [] OTHER -> "on"
Promised == INSTANCE CaptureLog WITH phase <- Phase
ImplementsCaptureLog == Promised!Spec
=============================================================================
