----------------------------- MODULE McpServer -----------------------------
(***************************************************************************)
(* The capture sessions of package mcpserver: tool handlers and auto-stop  *)
(* timers that run under sessMu, and file writers that run without it.     *)
(* What the tools show of a session's packets is in Readers.               *)
(*                                                                         *)
(* A capture is what CaptureLog promises of it: while it is on, its log    *)
(* grows. Packets are their indices, so a log is its length, a page is an  *)
(* interval and an output file the interval of packets written to it.      *)
(***************************************************************************)
EXTENDS Integers

CONSTANTS
  Session,     \* the sessions that sniffer_start makes
  None,        \* sess is nil
  PageSize,    \* packets of one write to the file: 64 in the code
  MaxPackets   \* bound on the packets of a capture

ASSUME ServerAssumption ==
  /\ None \notin Session
  /\ PageSize \in Nat \ {0} /\ MaxPackets \in Nat

VARIABLES
  sess,    \* the current session
  step,    \* control point of the holder of sessMu; "free" when unlocked
  target,  \* the session the holder works on
  count,   \* the value of Count the holder keeps
  cap,     \* per session: "off", "on" or "over", as in CaptureLog, or "failed"
  len,     \* per session: packets stored
  base,    \* per session: baseIndex
  timer,   \* per session: "none", "armed", "fired" or "done"
  writer,  \* per session: file writer "none", "spawned", "loop" or "done"
  wstop,   \* per session: writerStop is closed
  first,   \* per session: offset at which the file writer began
  wrote,   \* per session: offset of the file writer
  backlog, \* history: packets the final drain found unwritten
  ended,   \* history: who ended the session, "no", "tool" or "timer"
  leaked,  \* history: captures that a failed sniffer_start left on
  panic    \* close of a closed channel, of a session or of its capture

capVars == <<cap, len>>
fileVars == <<writer, first, wrote, backlog>>
lockVars == <<sess, step, target, count>>
histVars == <<ended, leaked>>
vars == <<lockVars, capVars, base, timer, fileVars, wstop, histVars, panic>>

TypeOK ==
  /\ sess \in Session \cup {None}
  /\ step \in {"free", "started", "clear", "stopCap", "stopFile", "stopWait",
               "timerFile", "timerWait", "timerCap"}
  /\ target \in Session \cup {None}
  /\ count \in Nat
  /\ cap \in [Session -> {"off", "on", "over", "failed"}]
  /\ len \in [Session -> Nat]
  /\ base \in [Session -> Nat]
  /\ timer \in [Session -> {"none", "armed", "fired", "done"}]
  /\ writer \in [Session -> {"none", "spawned", "loop", "done"}]
  /\ wstop \in [Session -> BOOLEAN]
  /\ first \in [Session -> Nat] /\ wrote \in [Session -> Nat] /\ backlog \in [Session -> Nat]
  /\ ended \in [Session -> {"no", "tool", "timer"}]
  /\ leaked \subseteq Session
  /\ panic \in BOOLEAN

Least(a, b) == IF a < b THEN a ELSE b

-----------------------------------------------------------------------------
(* A capture that is on stores packets.                                    *)
Capture(s) ==
  /\ cap[s] = "on" /\ len[s] < MaxPackets
  /\ len' = [len EXCEPT ![s] = @ + 1]
  /\ UNCHANGED <<lockVars, cap, base, timer, fileVars, wstop, histVars, panic>>

(* Capture.Stop, which panics when the capture has ended already.          *)
EndCapture(s) ==
  /\ cap' = [cap EXCEPT ![s] = "over"]
  /\ panic' = (panic \/ cap[s] \in {"over", "failed"})

-----------------------------------------------------------------------------
(* sniffer_start. With a session in place it changes nothing.              *)

(* The holder of sessMu returns: its locals are gone.                      *)
Unlock == step' = "free" /\ target' = None /\ count' = 0

Startable(s) == step = "free" /\ sess = None /\ cap[s] = "off"

(* The port is opened for exclusive use: a capture still on keeps others   *)
(* from starting.                                                          *)
PortFree == \A t \in Session : cap[t] # "on"

(* No device, an invalid filter, or a sniffer that does not start.         *)
StartFails(s) ==
  /\ Startable(s)
  /\ cap' = [cap EXCEPT ![s] = "failed"]
  /\ UNCHANGED <<lockVars, len, base, timer, fileVars, wstop, histVars, panic>>

(* The follow command of cap.Start fails: its error is returned, and the   *)
(* capture it has started is dropped without a Stop.                       *)
StartFollowFails(s) ==
  /\ Startable(s) /\ PortFree
  /\ cap' = [cap EXCEPT ![s] = "on"] /\ leaked' = leaked \cup {s}
  /\ UNCHANGED <<lockVars, len, base, timer, fileVars, wstop, ended, panic>>

StartCapture(s) ==
  /\ Startable(s) /\ PortFree
  /\ cap' = [cap EXCEPT ![s] = "on"]
  /\ step' = "started" /\ target' = s
  /\ UNCHANGED <<sess, count, len, base, timer, fileVars, wstop, histVars, panic>>

(* Faulty variant: the error return leaves the capture on.                 *)
StartFileFailsOn ==
  /\ step = "started" /\ Unlock
  /\ UNCHANGED <<sess, capVars, base, timer, fileVars, wstop, histVars, panic>>

(* The output file cannot be opened: the capture is stopped again.         *)
StartFileFails ==
  /\ step = "started" /\ Unlock /\ EndCapture(target)
  /\ UNCHANGED <<sess, len, base, timer, fileVars, wstop, histVars>>

StartSession(file, timed) ==
  /\ step = "started" /\ Unlock
  /\ sess' = target
  /\ writer' = [writer EXCEPT ![target] = IF file THEN "spawned" ELSE "none"]
  /\ timer' = [timer EXCEPT ![target] = IF timed THEN "armed" ELSE "none"]
  /\ UNCHANGED <<capVars, base, first, wrote, backlog, wstop, histVars, panic>>

Start == \/ \E s \in Session : StartFails(s) \/ StartFollowFails(s) \/ StartCapture(s)
         \/ StartFileFails
         \/ \E file, timed \in BOOLEAN : StartSession(file, timed)

-----------------------------------------------------------------------------
(* sniffer_clear_packets, and sniffer_set_filter with discard_existing:    *)
(* Count, then the assignment of baseIndex. The log may grow in between.   *)

ClearCount ==
  /\ step = "free" /\ sess # None
  /\ step' = "clear" /\ target' = sess /\ count' = len[sess]
  /\ UNCHANGED <<sess, capVars, base, timer, fileVars, wstop, histVars, panic>>

(* Faulty variant: one packet too many is hidden.                          *)
ClearSetPast ==
  /\ step = "clear" /\ Unlock
  /\ base' = [base EXCEPT ![target] = count + 1]
  /\ UNCHANGED <<sess, capVars, timer, fileVars, wstop, histVars, panic>>

ClearSet ==
  /\ step = "clear" /\ Unlock
  /\ base' = [base EXCEPT ![target] = count]
  /\ UNCHANGED <<sess, capVars, timer, fileVars, wstop, histVars, panic>>

-----------------------------------------------------------------------------
(* sniffer_stop: the capture first, then the file writer. Without a        *)
(* session it changes nothing. timer.Stop has no effect on a timer that    *)
(* has fired.                                                              *)

(* Faulty variant: the difference the wrong way round.                     *)
StopBeginSwapped ==
  /\ step = "free" /\ sess # None
  /\ step' = "stopCap" /\ target' = sess /\ count' = base[sess] - len[sess]
  /\ timer' = [timer EXCEPT ![sess] = IF @ = "armed" THEN "done" ELSE @]
  /\ UNCHANGED <<sess, capVars, base, fileVars, wstop, histVars, panic>>

StopBegin ==
  /\ step = "free" /\ sess # None
  /\ step' = "stopCap" /\ target' = sess /\ count' = len[sess] - base[sess]
  /\ timer' = [timer EXCEPT ![sess] = IF @ = "armed" THEN "done" ELSE @]
  /\ UNCHANGED <<sess, capVars, base, fileVars, wstop, histVars, panic>>

StopCapture ==
  /\ step = "stopCap" /\ step' = "stopFile" /\ EndCapture(target)
  /\ UNCHANGED <<sess, target, count, len, base, timer, fileVars, wstop, histVars>>

(* close(writerStop), unless the session has no writer.                    *)
CloseWriterStop ==
  IF writer[target] = "none"
  THEN UNCHANGED <<wstop, panic>>
  ELSE /\ panic' = (panic \/ wstop[target])
       /\ wstop' = [wstop EXCEPT ![target] = TRUE]

(* Faulty variant: the writer is waited for but not told to end.           *)
StopFileSilent ==
  /\ step = "stopFile" /\ step' = "stopWait"
  /\ UNCHANGED <<sess, target, count, capVars, base, timer, fileVars, wstop, histVars, panic>>

StopFile ==
  /\ step = "stopFile" /\ step' = "stopWait"
  /\ CloseWriterStop
  /\ UNCHANGED <<sess, target, count, capVars, base, timer, fileVars, histVars>>

WriterGone == writer[target] \in {"none", "done"}

StopReturns ==
  /\ step = "stopWait" /\ WriterGone
  /\ Unlock /\ sess' = None
  /\ ended' = [ended EXCEPT ![target] = "tool"]
  /\ UNCHANGED <<capVars, base, timer, fileVars, wstop, leaked, panic>>

Stop == StopBegin \/ StopCapture \/ StopFile \/ StopReturns

-----------------------------------------------------------------------------
(* The auto-stop timer. Its function waits for sessMu and acts only if its *)
(* session is still the current one. It ends the file writer first and the *)
(* capture afterwards.                                                     *)

TimerExpires(s) ==
  /\ timer[s] = "armed"
  /\ timer' = [timer EXCEPT ![s] = "fired"]
  /\ UNCHANGED <<lockVars, capVars, base, fileVars, wstop, histVars, panic>>

(* Faulty variant: the timer acts on its session, current or not.          *)
TimerLocksBlindly(s) ==
  /\ timer[s] = "fired" /\ step = "free"
  /\ timer' = [timer EXCEPT ![s] = "done"]
  /\ step' = "timerFile" /\ target' = s
  /\ UNCHANGED <<sess, count, capVars, base, fileVars, wstop, histVars, panic>>

TimerLocks(s) ==
  /\ timer[s] = "fired" /\ step = "free"
  /\ timer' = [timer EXCEPT ![s] = "done"]
  /\ IF sess = s THEN step' = "timerFile" /\ target' = s ELSE UNCHANGED <<step, target>>
  /\ UNCHANGED <<sess, count, capVars, base, fileVars, wstop, histVars, panic>>

TimerFile ==
  /\ step = "timerFile" /\ step' = "timerWait"
  /\ CloseWriterStop
  /\ UNCHANGED <<sess, target, count, capVars, base, timer, fileVars, histVars>>

TimerWaited ==
  /\ step = "timerWait" /\ WriterGone /\ step' = "timerCap"
  /\ UNCHANGED <<sess, target, count, capVars, base, timer, fileVars, wstop, histVars, panic>>

(* Faulty variant: the session is dropped without stopping its capture.    *)
TimerDrops ==
  /\ step = "timerCap" /\ Unlock /\ sess' = None
  /\ ended' = [ended EXCEPT ![target] = "timer"]
  /\ UNCHANGED <<capVars, base, timer, fileVars, wstop, leaked, panic>>

TimerStops ==
  /\ step = "timerCap" /\ Unlock /\ sess' = None /\ EndCapture(target)
  /\ ended' = [ended EXCEPT ![target] = "timer"]
  /\ UNCHANGED <<len, base, timer, fileVars, wstop, leaked>>

TimerRuns == TimerFile \/ TimerWaited \/ TimerStops

-----------------------------------------------------------------------------
(* fileWriterLoop. Its goroutine reads baseIndex when it first runs, with  *)
(* no lock. A tick, or the final drain, writes one page.                   *)

WriterStarts(s) ==
  /\ writer[s] = "spawned" /\ writer' = [writer EXCEPT ![s] = "loop"]
  /\ first' = [first EXCEPT ![s] = base[s]]
  /\ wrote' = [wrote EXCEPT ![s] = base[s]]
  /\ UNCHANGED <<lockVars, capVars, base, timer, backlog, wstop, histVars, panic>>

WritePage(s) == wrote' = [wrote EXCEPT ![s] = Least(@ + PageSize, len[s])]

WriterTick(s) ==
  /\ writer[s] = "loop" /\ wrote[s] < len[s]
  /\ WritePage(s)
  /\ UNCHANGED <<lockVars, capVars, base, timer, writer, first, backlog, wstop, histVars, panic>>

(* Faulty variant: the writer ends without a final drain.                  *)
WriterQuits(s) ==
  /\ writer[s] = "loop" /\ wstop[s]
  /\ writer' = [writer EXCEPT ![s] = "done"]
  /\ backlog' = [backlog EXCEPT ![s] = len[s] - wrote[s]]
  /\ UNCHANGED <<lockVars, capVars, base, timer, first, wrote, wstop, histVars, panic>>

WriterDrain(s) ==
  /\ writer[s] = "loop" /\ wstop[s]
  /\ WritePage(s)
  /\ writer' = [writer EXCEPT ![s] = "done"]
  /\ backlog' = [backlog EXCEPT ![s] = len[s] - wrote[s]]
  /\ UNCHANGED <<lockVars, capVars, base, timer, first, wstop, histVars, panic>>

Writer(s) == WriterStarts(s) \/ WriterTick(s) \/ WriterDrain(s)

-----------------------------------------------------------------------------
Init ==
  /\ sess = None /\ step = "free" /\ target = None /\ count = 0
  /\ cap = [s \in Session |-> "off"] /\ len = [s \in Session |-> 0]
  /\ base = [s \in Session |-> 0] /\ timer = [s \in Session |-> "none"]
  /\ writer = [s \in Session |-> "none"] /\ wstop = [s \in Session |-> FALSE]
  /\ first = [s \in Session |-> 0] /\ wrote = [s \in Session |-> 0]
  /\ backlog = [s \in Session |-> 0]
  /\ ended = [s \in Session |-> "no"] /\ leaked = {} /\ panic = FALSE

Next ==
  \/ Start \/ ClearCount \/ ClearSet \/ Stop \/ TimerRuns
  \/ \E s \in Session : Capture(s) \/ TimerExpires(s) \/ TimerLocks(s) \/ Writer(s)

Spec == Init /\ [][Next]_vars

(* A handler that has sessMu goes on, the ticker of a writer fires, and    *)
(* sync.Mutex starves no waiter: a timer function that waits for sessMu    *)
(* gets it. Nobody need call a tool and no timer need expire.              *)
Fairness ==
  /\ WF_vars(StopCapture \/ StopFile \/ StopReturns)
  /\ WF_vars(ClearSet)
  /\ WF_vars(StartFileFails \/ \E file, timed \in BOOLEAN : StartSession(file, timed))
  /\ WF_vars(TimerRuns)
  /\ \A s \in Session :
       SF_vars(TimerLocks(s)) /\ WF_vars(WriterStarts(s)) /\ SF_vars(WriterDrain(s))

FairSpec == Spec /\ Fairness

-----------------------------------------------------------------------------
(* writerStop of a session is closed once and its capture stopped once,    *)
(* whether the tool, its timer or both at nearly the same time end it.     *)
NoPanic == ~panic

(* A session is forgotten only when its capture has been stopped: a timer  *)
(* that fires late never ends the session of a later sniffer_start.        *)
ForgottenWhenStopped == [][sess # None /\ sess' # sess => cap'[sess] = "over"]_sess

(* Whenever sessMu is free, a capture that is on belongs to the session or *)
(* was left on by a sniffer_start that failed at the follow command; and   *)
(* no file writer runs but that of the session.                            *)
NothingElseRuns ==
  step = "free" => \A s \in Session \ {sess} :
    /\ cap[s] = "on" => s \in leaked
    /\ writer[s] \in {"none", "done"}

(* The packets that a file of its own holds: none is left out between the  *)
(* first and the last, since each page begins where the one before ended.  *)
InFile(s) == first[s] + 1 .. wrote[s]

(* After sniffer_stop the file lacks a packet in two cases only. Those     *)
(* before the place where the writer began are missing, and no client sees *)
(* them either, since a clear has hidden them. The last may be missing, if *)
(* more than a page was left for the final drain.                          *)
FlushedByPage ==
  \A s \in Session : ended[s] = "tool" /\ writer[s] = "done" =>
    \A i \in 1 .. len[s] \ InFile(s) :
      (i <= first[s] /\ i <= base[s]) \/ (i > wrote[s] /\ backlog[s] > PageSize)

(* What a handler subtracts from Count never exceeds it: sniffer_status,   *)
(* sniffer_clear_packets and sniffer_stop report no negative count.        *)
NeverNegative == \A s \in Session : base[s] <= len[s]

(* Every handler and timer function that has taken sessMu releases it.     *)
HandlersReturn == step # "free" ~> step = "free"

(* An auto-stop that is due ends its capture, unless sniffer_stop does.    *)
AutoStopHappens == \A s \in Session : timer[s] = "fired" ~> cap[s] = "over"

(* "If an output file is open, flushes any remaining packets and closes it *)
(* before returning": after sniffer_stop no packet remains to be written.  *)
FlushedAtStop ==
  \A s \in Session : ended[s] = "tool" /\ writer[s] = "done" => wrote[s] = len[s]
=============================================================================
