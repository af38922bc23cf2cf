-------------------------------- MODULE Port --------------------------------
(***************************************************************************)
(* The serial ports of package sniffer on Linux and the descriptors behind *)
(* them. A port keeps the number of its descriptor, not the open file: its *)
(* read loop names the number again in every read, and an open that comes  *)
(* after the close may have been given the same number.                    *)
(*                                                                         *)
(* Sniffers are started and stopped under sessMu, as startCapture and its  *)
(* counterparts do; read loops run beside it. The kernel is external: open *)
(* takes the lowest free descriptor, and a read under way is not disturbed *)
(* by a close. VTIME makes it return within 100 ms, with or without a byte.*)
(***************************************************************************)
EXTENDS Integers, FiniteSetsExt

CONSTANTS
  Sniffer,   \* the sniffers that are started
  None,      \* no sniffer, and no open file behind a descriptor
  File,      \* the open output file
  Fd         \* bound on descriptors

ASSUME PortAssumption ==
  /\ None \notin Sniffer \cup {File} /\ File \notin Sniffer /\ Fd \subseteq Nat

VARIABLES
  table,   \* what is open behind each descriptor: a sniffer's tty or File
  port,    \* per sniffer: the call its port needs next, or its state
  fd,      \* per sniffer: the descriptor its port keeps
  sess,    \* the sniffer of the session
  loop,    \* per sniffer: read loop "none", "idle", "read" or "done"
  src,     \* per sniffer: the tty behind its read under way
  stray    \* history: <<s, t>> where the loop of s took a byte from t's tty

loopVars == <<loop, src, stray>>
vars == <<table, port, fd, sess, loopVars>>

(* The calls of openNativePort that end it when they fail.                 *)
Call == {"TCGETS", "TCSETS", "TIOCMSET", "SetNonblock"}
NextCall ==
  [c \in Call |-> CASE c = "TCGETS" -> "TCSETS" [] c = "TCSETS" -> "TIOCMSET"
                    [] c = "TIOCMSET" -> "SetNonblock" [] OTHER -> "init"]

TypeOK ==
  /\ table \in [Fd -> Sniffer \cup {File, None}]
  /\ port \in [Sniffer -> Call \cup {"new", "init", "up", "closing", "failed", "stopped"}]
  /\ fd \in [Sniffer -> Fd \cup {-1}]
  /\ sess \in Sniffer \cup {None}
  /\ loop \in [Sniffer -> {"none", "idle", "read", "done"}]
  /\ src \in [Sniffer -> Sniffer \cup {None}]
  /\ stray \subseteq {p \in Sniffer \X Sniffer : p[1] # p[2]}

-----------------------------------------------------------------------------
Free == {d \in Fd : table[d] = None}
IsOpen(file) == \E d \in Fd : table[d] = file

(* sniffer.running.                                                        *)
Running(s) == port[s] \in {"init", "up"}

(* sessMu is free.                                                         *)
Quiet == \A s \in Sniffer : port[s] \in {"new", "up", "failed", "stopped"}

(* TIOCEXCL is set before the last call.                                   *)
Exclusive(s) == port[s] \in {"SetNonblock", "init", "up"} /\ IsOpen(s)

-----------------------------------------------------------------------------
(* Start: openNativePort, the read loop, then the init sequence.           *)

(* The baud rate is not known, or the open fails.                          *)
OpenFails(s) ==
  /\ Quiet /\ sess = None /\ port[s] = "new"
  /\ port' = [port EXCEPT ![s] = "failed"]
  /\ UNCHANGED <<table, fd, sess, loopVars>>

(* TIOCEXCL is taken to succeed; the code does not look at its error.      *)
Open(s) ==
  /\ Quiet /\ sess = None /\ port[s] = "new"
  /\ Free # {} /\ ~\E t \in Sniffer : Exclusive(t)
  /\ table' = [table EXCEPT ![Min(Free)] = s]
  /\ fd' = [fd EXCEPT ![s] = Min(Free)]
  /\ port' = [port EXCEPT ![s] = "TCGETS"]
  /\ UNCHANGED <<sess, loopVars>>

(* The last call starts the read loop.                                     *)
Configure(s) ==
  /\ port[s] \in Call
  /\ port' = [port EXCEPT ![s] = NextCall[@]]
  /\ loop' = [loop EXCEPT ![s] = IF port[s] = "SetNonblock" THEN "idle" ELSE @]
  /\ UNCHANGED <<table, fd, sess, src, stray>>

(* close(fd) frees the number, whatever uses it.                           *)
Close(s) == table' = [table EXCEPT ![fd[s]] = None]

(* Faulty variant: one of the calls returns without closing.               *)
ConfigureFailsOpen(s) ==
  /\ port[s] \in Call
  /\ port' = [port EXCEPT ![s] = "failed"]
  /\ IF port[s] = "TIOCMSET" THEN UNCHANGED table ELSE Close(s)
  /\ UNCHANGED <<fd, sess, loopVars>>

ConfigureFails(s) ==
  /\ port[s] \in Call
  /\ port' = [port EXCEPT ![s] = "failed"] /\ Close(s)
  /\ UNCHANGED <<fd, sess, loopVars>>

(* The init sequence cannot be written: the port is closed, and the read   *)
(* loop is not waited for.                                                 *)
InitFails(s) ==
  /\ port[s] = "init"
  /\ port' = [port EXCEPT ![s] = "failed"] /\ Close(s)
  /\ UNCHANGED <<fd, sess, loopVars>>

(* startCapture makes the session, with or without an output file. If the  *)
(* follow command fails, the sniffer is left up and forgotten.             *)
StartSession(s, file) ==
  /\ port[s] = "init" /\ (file => Free # {})
  /\ port' = [port EXCEPT ![s] = "up"] /\ sess' = s
  /\ table' = IF file THEN [table EXCEPT ![Min(Free)] = File] ELSE table
  /\ UNCHANGED <<fd, loopVars>>

StartForgets(s) ==
  /\ port[s] = "init" /\ port' = [port EXCEPT ![s] = "up"]
  /\ UNCHANGED <<table, fd, sess, loopVars>>

(* Stop, also of a capture whose output file cannot be opened. It waits    *)
(* for the read loop; then the file writer closes its file.                *)
StopCloses(s) ==
  /\ port[s] = "init" \/ (port[s] = "up" /\ sess = s /\ Quiet)
  /\ port' = [port EXCEPT ![s] = "closing"] /\ Close(s)
  /\ UNCHANGED <<fd, sess, loopVars>>

(* Faulty variant: the read loop is not waited for.                        *)
StopReturnsEarly(s) ==
  /\ port[s] = "closing"
  /\ port' = [port EXCEPT ![s] = "stopped"] /\ sess' = None
  /\ table' = [d \in Fd |-> IF table[d] = File THEN None ELSE table[d]]
  /\ UNCHANGED <<fd, loopVars>>

StopReturns(s) ==
  /\ port[s] = "closing" /\ loop[s] = "done"
  /\ port' = [port EXCEPT ![s] = "stopped"] /\ sess' = None
  /\ table' = [d \in Fd |-> IF table[d] = File THEN None ELSE table[d]]
  /\ UNCHANGED <<fd, loopVars>>

-----------------------------------------------------------------------------
(* The read loop. A read fails at once on a descriptor that is free or     *)
(* open for writing only, which ends the loop.                             *)

ReadBegins(s) ==
  /\ loop[s] = "idle"
  /\ IF table[fd[s]] \in Sniffer
     THEN loop' = [loop EXCEPT ![s] = "read"] /\ src' = [src EXCEPT ![s] = table[fd[s]]]
     ELSE loop' = [loop EXCEPT ![s] = "done"] /\ UNCHANGED src
  /\ UNCHANGED <<table, port, fd, sess, stray>>

Returned(s, next) ==
  /\ loop[s] = "read"
  /\ loop' = [loop EXCEPT ![s] = next] /\ src' = [src EXCEPT ![s] = None]
  /\ UNCHANGED <<table, port, fd, sess>>

(* After a byte the loop goes on without a look at running.                *)
ReadByte(s) ==
  /\ Returned(s, "idle")
  /\ stray' = IF src[s] = s THEN stray ELSE stray \cup {<<s, src[s]>>}

ReadTimesOut(s) == Returned(s, IF Running(s) THEN "idle" ELSE "done") /\ UNCHANGED stray

ReadFails(s) == Returned(s, "done") /\ UNCHANGED stray

ReadLoop(s) == ReadBegins(s) \/ ReadByte(s) \/ ReadTimesOut(s) \/ ReadFails(s)

-----------------------------------------------------------------------------
Init ==
  /\ table = [d \in Fd |-> None]
  /\ port = [s \in Sniffer |-> "new"] /\ fd = [s \in Sniffer |-> -1]
  /\ sess = None
  /\ loop = [s \in Sniffer |-> "none"] /\ src = [s \in Sniffer |-> None]
  /\ stray = {}

Next == \E s \in Sniffer :
  \/ OpenFails(s) \/ Open(s) \/ Configure(s) \/ ConfigureFails(s) \/ InitFails(s)
  \/ (\E file \in BOOLEAN : StartSession(s, file)) \/ StartForgets(s)
  \/ StopCloses(s) \/ StopReturns(s) \/ ReadLoop(s)

Spec == Init /\ [][Next]_vars

-----------------------------------------------------------------------------
(* The read loop of a sniffer never takes a byte off the port of another,  *)
(* although descriptors are used again, unless its own Start had failed:   *)
(* then it may be running still when the next sniffer opens its port.      *)
OwnBytes == \A p \in stray : port[p[1]] = "failed"

(* No descriptor outlives what it was opened for, on no path through Start *)
(* and Stop: a tty its port, an output file its session.                   *)
NothingLeaks ==
  \A d \in Fd :
    /\ table[d] \in Sniffer =>
         fd[table[d]] = d /\ port[table[d]] \in Call \cup {"init", "up"}
    /\ table[d] = File => sess # None
=============================================================================
