----------------------------- MODULE CaptureLog -----------------------------
(***************************************************************************)
(* What a capture promises to those who read it (Capture of package        *)
(* blecap, through Get and Count): a log of packets that only grows, while *)
(* the capture is on, by packets later than all those it holds. Nothing is *)
(* stored before Start or once Stop has returned.                          *)
(***************************************************************************)
EXTENDS Naturals, Sequences

CONSTANT Body   \* packet bodies

VARIABLES
  phase,  \* "off", "on" or "over"
  log     \* the stored packets

Item == [n : Nat \ {0}, body : Body]

Init == phase = "off" /\ log = <<>>

Begin == phase = "off" /\ phase' = "on" /\ UNCHANGED log

Store ==
  /\ phase = "on" /\ UNCHANGED phase
  /\ Len(log') = Len(log) + 1
  /\ LET item == log'[Len(log')]
     IN /\ item \in Item
        /\ log' = Append(log, item)
        /\ log # <<>> => log[Len(log)].n < item.n

Finish == phase = "on" /\ phase' = "over" /\ UNCHANGED log

Next == Begin \/ Store \/ Finish

Spec == Init /\ [][Next]_<<phase, log>>
=============================================================================
