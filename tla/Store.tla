------------------------------- MODULE Store -------------------------------
(***************************************************************************)
(* The packet store of package bledata: a consumer goroutine takes raw     *)
(* packets off the sniffer's channel, drops those the address filter does  *)
(* not admit and appends the others to a log that readers page through.    *)
(* The filter is replaced at any time by another goroutine; it is guarded  *)
(* by filterMu and the log by mu, so a packet judged under one filter may  *)
(* be appended after the next one is in place.                             *)
(*                                                                         *)
(* A packet is an item: its number n in the order the dongle delivered it, *)
(* and a body that keeps what the store looks at.                          *)
(***************************************************************************)
EXTENDS Naturals, Sequences

CONSTANTS
  Address,     \* BLE addresses
  Entry,       \* filter entries: full addresses or OUI prefixes
  Covers,      \* Covers[e]: the addresses that have entry e as a prefix
  Body,        \* packet bodies
  NoItem,      \* value of cur before the first packet
  ChanSize,    \* capacity of the sniffer's channel (WithChannelSize)
  MaxPackets   \* bound on the packets of a behaviour

PacketIds == {"ADV", "AUX", "DATA", "OTHER"}

Item == [n : Nat \ {0}, body : Body]

ASSUME BodyAssumption ==
  /\ Body \subseteq [id : PacketIds, ext : BOOLEAN, addrs : SUBSET Address]
  /\ Covers \in [Entry -> SUBSET Address]
  /\ NoItem \notin Item
ASSUME SizeAssumption == ChanSize \in Nat \ {0} /\ MaxPackets \in Nat

VARIABLES
  chan,        \* the channel of packets between read loop and consumer
  chanClosed,  \* the channel has been closed
  emitted,     \* number of the last packet the read loop decoded
  con,         \* control point of the consumer goroutine
  cur,         \* the packet the consumer holds
  storeStop,   \* stopCh has been closed
  filter,      \* current filter; empty admits every packet
  log,         \* the stored packets, oldest first
  seenExt,     \* seenExtAdv
  mark,        \* history: length of log when filter was last replaced
  panic        \* a goroutine panicked: close of a closed channel

storeVars == <<con, cur, storeStop, filter, log, seenExt, mark>>
vars == <<chan, chanClosed, emitted, panic, storeVars>>

TypeOK ==
  /\ chan \in Seq(Item) /\ Len(chan) <= ChanSize
  /\ chanClosed \in BOOLEAN
  /\ emitted \in Nat
  /\ con \in {"none", "select", "process", "append", "done"}
  /\ cur \in Item \cup {NoItem}
  /\ storeStop \in BOOLEAN
  /\ filter \in SUBSET Entry
  /\ log \in Seq(Item)
  /\ seenExt \in BOOLEAN
  /\ mark \in Nat
  /\ panic \in BOOLEAN

-----------------------------------------------------------------------------
(* The filter and the classification of packets.                           *)

Matches(f, addrs) == \E e \in f, a \in addrs : a \in Covers[e]

(* Data PDUs are never filtered; other event ids are never stored.         *)
Admitted(f, b) ==
  \/ b.id = "DATA"
  \/ b.id \in {"ADV", "AUX"} /\ (f = {} \/ Matches(f, b.addrs))

(* An AUX PDU, or an advertising PDU whose type nibble is 7.               *)
IsExtAdv(b) == b.id = "AUX" \/ (b.id = "ADV" /\ b.ext)

-----------------------------------------------------------------------------
(* The consumer goroutine.                                                 *)

StartConsumer ==
  /\ con = "none"
  /\ con' = "select"
  /\ UNCHANGED <<cur, storeStop, filter, log, seenExt, mark>>

Recv ==
  /\ con = "select" /\ chan # <<>>
  /\ cur' = Head(chan) /\ chan' = Tail(chan)
  /\ con' = "process"
  /\ UNCHANGED <<storeStop, filter, log, seenExt, mark>>

(* Faulty variant: the loop ends as soon as the source is closed, with     *)
(* packets still buffered.                                                 *)
ConsumerExitHasty ==
  /\ con = "select"
  /\ storeStop \/ chanClosed
  /\ con' = "done"
  /\ UNCHANGED <<chan, cur, storeStop, filter, log, seenExt, mark>>

(* The channel is closed and empty (ok is false), or stopCh is closed. The *)
(* select takes either ready case: packets may remain in the channel.      *)
ConsumerExit ==
  /\ con = "select"
  /\ storeStop \/ (chanClosed /\ chan = <<>>)
  /\ con' = "done"
  /\ UNCHANGED <<chan, cur, storeStop, filter, log, seenExt, mark>>

(* Faulty variant: the AUX branch forgets the filter.                      *)
ProcessLegacyOnly ==
  /\ con = "process"
  /\ con' = IF cur.body.id = "AUX" \/ Admitted(filter, cur.body) THEN "append" ELSE "select"
  /\ UNCHANGED <<chan, cur, storeStop, filter, log, seenExt, mark>>

(* The filter is read once, under filterMu, and released before the append. *)
Process ==
  /\ con = "process"
  /\ con' = IF Admitted(filter, cur.body) THEN "append" ELSE "select"
  /\ UNCHANGED <<chan, cur, storeStop, filter, log, seenExt, mark>>

(* Faulty variants: ADV_EXT_IND on a primary channel is no evidence; it is *)
(* handled both as a legacy and as an extended packet.                     *)
AppendAuxOnly ==
  /\ con = "append"
  /\ log' = Append(log, cur)
  /\ seenExt' = (seenExt \/ cur.body.id = "AUX")
  /\ con' = "select"
  /\ UNCHANGED <<chan, cur, storeStop, filter, mark>>

AppendTwice ==
  /\ con = "append"
  /\ log' = IF cur.body.id = "ADV" /\ cur.body.ext THEN log \o <<cur, cur>> ELSE Append(log, cur)
  /\ seenExt' = (seenExt \/ IsExtAdv(cur.body))
  /\ con' = "select"
  /\ UNCHANGED <<chan, cur, storeStop, filter, mark>>

AppendPacket ==
  /\ con = "append"
  /\ log' = Append(log, cur)
  /\ seenExt' = (seenExt \/ IsExtAdv(cur.body))
  /\ con' = "select"
  /\ UNCHANGED <<chan, cur, storeStop, filter, mark>>

Consume == Recv \/ ConsumerExit \/ Process \/ AppendPacket

(* What wg.Wait waits for; a store never started has nothing to wait for.  *)
ConsumerGone == con \in {"none", "done"}

-----------------------------------------------------------------------------
(* The operations of other goroutines.                                     *)

(* A rejected entry returns an error and changes nothing.                  *)
SetFilter(f) ==
  /\ filter' = f /\ mark' = Len(log)
  /\ UNCHANGED <<con, cur, storeStop, log, seenExt>>

(* The first half of Stop; the caller then waits for ConsumerGone.         *)
CloseStop ==
  /\ panic' = (panic \/ storeStop)
  /\ storeStop' = TRUE
  /\ UNCHANGED <<con, cur, filter, log, seenExt, mark>>

(* Faulty variant: the bound of the channel is off by one.                 *)
ProduceOver(b) ==
  /\ ~chanClosed /\ emitted < MaxPackets
  /\ emitted' = emitted + 1
  /\ chan' = IF Len(chan) <= ChanSize
             THEN Append(chan, [n |-> emitted + 1, body |-> b]) ELSE chan

(* The read loop at the other end of the channel: it never blocks, a full  *)
(* channel loses the packet. It closes the channel when it has ended.      *)
Produce(b) ==
  /\ ~chanClosed /\ emitted < MaxPackets
  /\ emitted' = emitted + 1
  /\ chan' = IF Len(chan) < ChanSize
             THEN Append(chan, [n |-> emitted + 1, body |-> b]) ELSE chan

CloseSource == ~chanClosed /\ chanClosed' = TRUE

-----------------------------------------------------------------------------
Init ==
  /\ chan = <<>> /\ chanClosed = FALSE /\ emitted = 0
  /\ con = "none" /\ cur = NoItem /\ storeStop = FALSE
  /\ filter \in SUBSET Entry
  /\ log = <<>> /\ seenExt = FALSE /\ mark = 0
  /\ panic = FALSE

(* The program stops a store once, after it has started it.                *)
Next ==
  \/ StartConsumer /\ UNCHANGED <<chan, chanClosed, emitted, panic>>
  \/ Consume /\ UNCHANGED <<chanClosed, emitted, panic>>
  \/ \E f \in SUBSET Entry :
       SetFilter(f) /\ UNCHANGED <<chan, chanClosed, emitted, panic>>
  \/ con # "none" /\ ~storeStop /\ CloseStop
       /\ UNCHANGED <<chan, chanClosed, emitted>>
  \/ \E b \in Body :
       Produce(b) /\ UNCHANGED <<chanClosed, panic, storeVars>>
  \/ CloseSource /\ UNCHANGED <<chan, emitted, panic, storeVars>>

Spec == Init /\ [][Next]_vars

(* The Go scheduler eventually runs a runnable goroutine.                  *)
FairSpec == Spec /\ WF_vars(Consume /\ UNCHANGED <<chanClosed, emitted, panic>>)

-----------------------------------------------------------------------------
(* "SetFilter replaces the current address filter atomically": the filter  *)
(* is read before the append, so a packet judged under the old filter may  *)
(* still be stored, but only one, and nothing after it.                    *)
OnlyFirstMayStray ==
  \A i \in DOMAIN log : i > mark + 1 => Admitted(filter, log[i].body)

(* The auto-tuner's evidence is exact: seenExtAdv is set if and only if an *)
(* extended advertising packet is in the store (append, under mu).         *)
SeenExtExact == seenExt <=> \E i \in DOMAIN log : IsExtAdv(log[i].body)

(* Nothing is stored twice or out of the order in which it was delivered,  *)
(* whatever the channel loses when it is full.                             *)
LogInOrder ==
  \A i, j \in DOMAIN log : i < j => log[i].n < log[j].n

(* A stored packet is never changed or removed: pages that a reader copied *)
(* out with Get stay valid and clearing is virtual.                        *)
AppendOnly ==
  [][/\ Len(log') \in {Len(log), Len(log) + 1}
     /\ SubSeq(log', 1, Len(log)) = log]_log

(* With the source closed and no Stop, the consumer ends only after taking *)
(* every buffered packet.                                                  *)
DrainsWhenClosed == (chanClosed /\ con # "none") ~> (con = "done" /\ (storeStop \/ chan = <<>>))
=============================================================================
