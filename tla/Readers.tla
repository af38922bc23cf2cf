------------------------------ MODULE Readers ------------------------------
(***************************************************************************)
(* Those who read the store of a running capture, in either mode of the    *)
(* program: the printer of the command line against main's final Stop, and *)
(* the tool sniffer_get_packets, with the baseIndex that hides packets,    *)
(* against sniffer_set_filter, sniffer_clear_packets and sniffer_stop. The *)
(* store is an instance of Store; the capture before it is the channel's   *)
(* other end, as in Store.                                                 *)
(*                                                                         *)
(* Handlers hold sessMu, but get_packets only for its snapshot; the other  *)
(* readers lock no more than one Get or Count. Packets handed out are      *)
(* their indices in the log, and what pdu_type and address select is a set *)
(* of bodies.                                                              *)
(***************************************************************************)
EXTENDS Integers, Sequences, FiniteSets

CONSTANTS
  Address, Entry, Covers, Body, NoItem, ChanSize, MaxPackets,   \* of Store
  Request,       \* what a client asks for first
  DefaultLimit,  \* limit of a page when none is asked for: 50
  MaxLimit,      \* largest limit of a page: 200
  PrintSize      \* packets the printer takes at a time: 64

ASSUME ReadersAssumption ==
  /\ Request \subseteq [query : SUBSET Body, limit : Int, offset : Int]
  /\ DefaultLimit \in Nat \ {0} /\ MaxLimit \in Nat \ {0} /\ PrintSize \in Nat \ {0}

VARIABLES
  chan, chanClosed, emitted, con, cur, storeStop, filter, log, seenExt, mark, panic,
  cli,      \* the mode: command line, or MCP server
  owner,    \* control point of main, or of start and stop in the server
  total,    \* the number of packets that the end reports
  discard,  \* sniffer_set_filter is between the filter and baseIndex
  base,     \* baseIndex
  fresh,    \* history: baseIndex was moved after the last filter change
  walk,     \* a client that pages with sniffer_get_packets
  off,      \* offset of the printer
  page,     \* the packets it prints
  shown,    \* how many of them it has printed
  out       \* all it has printed

Sto == INSTANCE Store

(* The assumptions of the store.                                           *)
ASSUME StoreAssumption == Sto!BodyAssumption /\ Sto!SizeAssumption

sourceVars == <<chan, chanClosed, emitted>>
storeVars == <<con, cur, storeStop, filter, log, seenExt, mark>>
parts == <<sourceVars, storeVars, panic>>
sessVars == <<discard, base, fresh>>
printVars == <<off, page, shown, out>>
ownVars == <<cli, owner, total>>
vars == <<parts, ownVars, sessVars, walk, printVars>>

Walk == [pc : {"idle", "ask", "count", "get", "done"}, query : SUBSET Body,
         limit : Int, offset : Int, lo : Nat, hi : Nat, got : Seq(Nat),
         from : Nat,       \* history: the first offset
         same : BOOLEAN]   \* history: every call found the same baseIndex

TypeOK ==
  /\ Sto!TypeOK
  /\ cli \in BOOLEAN
  /\ owner \in {"new", "on", "stopping", "waiting", "off"}
  /\ total \in Int
  /\ discard \in BOOLEAN
  /\ base \in Nat
  /\ fresh \in BOOLEAN
  /\ walk \in Walk
  /\ off \in Nat
  /\ page \in Seq(Nat)
  /\ shown \in 0..Len(page)
  /\ out \in Seq(Nat)

-----------------------------------------------------------------------------
(* What the readers ask of the store. Each is one step, under mu.          *)

Count == Len(log)

Least(a, b) == IF a < b THEN a ELSE b

Get(offset, limit) ==
  IF offset >= Count \/ limit <= 0 THEN <<>>
  ELSE [i \in 1 .. Least(offset + limit, Count) - offset |-> offset + i]

-----------------------------------------------------------------------------
(* The capture: cap.Start, cap.Stop with its callers, and the packets.     *)

Start ==
  /\ owner = "new" /\ owner' = "on"
  /\ Sto!StartConsumer
  /\ UNCHANGED <<sourceVars, panic, cli, total, sessVars, walk, printVars>>

(* main's timer or a signal; or sniffer_stop, which counts beforehand.     *)
StopBegin ==
  /\ owner = "on" /\ ~discard /\ owner' = "stopping"
  /\ total' = IF cli THEN total ELSE Count - base
  /\ UNCHANGED <<parts, cli, sessVars, walk, printVars>>

StopSource ==
  /\ owner = "stopping" /\ Sto!CloseSource
  /\ UNCHANGED <<chan, emitted, panic, storeVars, ownVars, sessVars, walk, printVars>>

StopStore ==
  /\ owner = "stopping" /\ chanClosed /\ owner' = "waiting"
  /\ Sto!CloseStop
  /\ UNCHANGED <<sourceVars, cli, total, sessVars, walk, printVars>>

(* main counts once Stop has returned, and exits; the server forgets the   *)
(* session.                                                                *)
StopReturns ==
  /\ owner = "waiting" /\ Sto!ConsumerGone /\ owner' = "off"
  /\ total' = IF cli THEN Count ELSE total
  /\ UNCHANGED <<parts, cli, sessVars, walk, printVars>>

Stop == StopBegin \/ StopSource \/ StopStore \/ StopReturns

Packets ==
  /\ owner # "new"
  /\ \/ Sto!Consume /\ UNCHANGED <<chanClosed, emitted>>
     \/ \E b \in Body : Sto!Produce(b) /\ UNCHANGED <<chanClosed, storeVars>>
  /\ UNCHANGED <<panic, ownVars, sessVars, walk, printVars>>

-----------------------------------------------------------------------------
(* The tools that change what is visible. They hold sessMu.                *)

Session == ~cli /\ owner = "on"

SetFilter(f, d) ==
  /\ Session /\ ~discard
  /\ Sto!SetFilter(f)
  /\ fresh' = FALSE /\ discard' = d
  /\ UNCHANGED <<sourceVars, panic, ownVars, base, walk, printVars>>

(* Faulty variant: the last packet counts as visible.                      *)
HideLess ==
  /\ base' = (IF Count = 0 THEN 0 ELSE Count - 1) /\ fresh' = TRUE /\ discard' = FALSE
  /\ UNCHANGED <<parts, ownVars, walk, printVars>>

(* discard_existing, once the filter is in place, and clear_packets.       *)
Hide ==
  /\ base' = Count /\ fresh' = TRUE /\ discard' = FALSE
  /\ UNCHANGED <<parts, ownVars, walk, printVars>>

SetFilterDiscards == discard /\ Hide
ClearPackets == Session /\ ~discard /\ Hide

-----------------------------------------------------------------------------
(* sniffer_get_packets, called page after page by a client that goes on    *)
(* after the last packet of an answer until it says that there is no more. *)

Ask(r) ==
  /\ ~cli /\ owner # "new" /\ walk.pc = "idle"
  /\ walk' = [walk EXCEPT !.pc = "ask", !.query = r.query, !.limit = r.limit,
                          !.offset = r.offset, !.lo = base,
                          !.from = IF r.offset < 0 THEN 0 ELSE r.offset]
  /\ UNCHANGED <<parts, ownVars, sessVars, printVars>>

(* Without a session the answer is empty.                                  *)
GetSnapshot ==
  /\ walk.pc = "ask" /\ ~discard /\ owner \in {"on", "off"}
  /\ walk' = IF owner = "off"
             THEN [walk EXCEPT !.pc = "done", !.same = FALSE]
             ELSE [walk EXCEPT !.pc = "count", !.lo = base,
                               !.same = walk.same /\ walk.lo = base]
  /\ UNCHANGED <<parts, ownVars, sessVars, printVars>>

GetCount ==
  /\ walk.pc = "count"
  /\ walk' = [walk EXCEPT !.pc = "get", !.hi = Count]
  /\ UNCHANGED <<parts, ownVars, sessVars, printVars>>

Limit(asked) == IF asked <= 0 THEN DefaultLimit ELSE Least(asked, MaxLimit)
Offset(asked, found) == IF asked < 0 THEN 0 ELSE Least(asked, found)

(* Those of the packets that the query selects, in the order of the log:   *)
(* at place k the one with k of them up to itself.                         *)
Selected(packets) ==
  LET passing == {i \in {packets[n] : n \in DOMAIN packets} : log[i].body \in walk.query}
      UpTo(i) == Cardinality({j \in passing : j <= i})
  IN  [k \in 1..Cardinality(passing) |-> CHOOSE i \in passing : UpTo(i) = k]

(* Faulty variant: the end of a full page counts as the end of all.        *)
GetPageStops ==
  /\ walk.pc = "get"
  /\ LET filtered == Selected(Get(walk.lo, walk.hi - walk.lo))
         first == Offset(walk.offset, Len(filtered))
         end == Least(first + Limit(walk.limit), Len(filtered))
     IN  walk' = [walk EXCEPT !.pc = IF end + 1 < Len(filtered) THEN "ask" ELSE "done",
                              !.offset = end,
                              !.got = @ \o SubSeq(filtered, first + 1, end)]
  /\ UNCHANGED <<parts, ownVars, sessVars, printVars>>

GetPage ==
  /\ walk.pc = "get"
  /\ LET filtered == Selected(Get(walk.lo, walk.hi - walk.lo))
         first == Offset(walk.offset, Len(filtered))
         end == Least(first + Limit(walk.limit), Len(filtered))
     IN  walk' = [walk EXCEPT !.pc = IF end < Len(filtered) THEN "ask" ELSE "done",
                              !.offset = end,
                              !.got = @ \o SubSeq(filtered, first + 1, end)]
  /\ UNCHANGED <<parts, ownVars, sessVars, printVars>>

GetPackets == GetSnapshot \/ GetCount \/ GetPage

-----------------------------------------------------------------------------
(* printPackets, a goroutine that lives until the program exits.           *)

Printing == cli /\ owner \notin {"new", "off"}

(* Faulty variant: only a full page is printed.                            *)
PrintPollFull ==
  /\ Printing /\ page = <<>>
  /\ page' = Get(off, PrintSize) /\ Len(page') = PrintSize
  /\ UNCHANGED <<parts, ownVars, sessVars, walk, off, shown, out>>

PrintPoll ==
  /\ Printing /\ page = <<>>
  /\ page' = Get(off, PrintSize) /\ page' # <<>>
  /\ UNCHANGED <<parts, ownVars, sessVars, walk, off, shown, out>>

PrintPacket ==
  /\ Printing /\ shown < Len(page)
  /\ out' = Append(out, page[shown + 1]) /\ shown' = shown + 1
  /\ UNCHANGED <<parts, ownVars, sessVars, walk, off, page>>

(* Faulty variants: the offset does not move; the printer does not start   *)
(* at the first packet of the next page.                                   *)
PrintStays ==
  /\ Printing /\ page # <<>> /\ shown = Len(page)
  /\ page' = <<>> /\ shown' = 0
  /\ UNCHANGED <<parts, ownVars, sessVars, walk, off, out>>
PrintKeepsIndex ==
  /\ Printing /\ page # <<>> /\ shown = Len(page)
  /\ off' = off + Len(page) /\ page' = <<>>
  /\ UNCHANGED <<parts, ownVars, sessVars, walk, shown, out>>

PrintAdvances ==
  /\ Printing /\ page # <<>> /\ shown = Len(page)
  /\ off' = off + Len(page) /\ page' = <<>> /\ shown' = 0
  /\ UNCHANGED <<parts, ownVars, sessVars, walk, out>>

Printer == PrintPoll \/ PrintPacket \/ PrintAdvances

-----------------------------------------------------------------------------
Init ==
  /\ Sto!Init
  /\ cli \in BOOLEAN /\ owner = "new" /\ total = 0
  /\ discard = FALSE /\ base = 0 /\ fresh = FALSE
  /\ walk = [pc |-> "idle", query |-> {}, limit |-> 0, offset |-> 0,
             lo |-> 0, hi |-> 0, got |-> <<>>, from |-> 0, same |-> TRUE]
  /\ off = 0 /\ page = <<>> /\ shown = 0 /\ out = <<>>

Next ==
  \/ Start \/ Stop \/ Packets
  \/ \E f \in SUBSET Entry, d \in BOOLEAN : SetFilter(f, d)
  \/ SetFilterDiscards \/ ClearPackets
  \/ \E r \in Request : Ask(r)
  \/ GetPackets \/ Printer

Spec == Init /\ [][Next]_vars

(* The printer's goroutine is scheduled and its sleep ends.                *)
FairSpec == Spec /\ WF_vars(Printer)

-----------------------------------------------------------------------------
(* Once packets have been discarded, or cleared, after the last change of  *)
(* the filter, what is visible passes the filter; only the first visible   *)
(* packet, judged while the filter changed, may not.                       *)
VisiblePasses ==
  fresh => \A i \in DOMAIN log : i > base + 1 => Sto!Admitted(filter, log[i].body)

(* A client never gets a packet twice or out of order, although the log    *)
(* grows and baseIndex moves between its calls. While baseIndex stays      *)
(* where it is, it gets every selected packet that is visible at its end,  *)
(* from the offset on at which it began.                                   *)
PagesFit ==
  /\ \A i, j \in DOMAIN walk.got : i < j => walk.got[i] < walk.got[j]
  /\ walk.pc = "done" /\ walk.same =>
       LET all == Selected([i \in 1 .. walk.hi - walk.lo |-> walk.lo + i])
       IN  walk.got = SubSeq(all, walk.from + 1, Len(all))

(* The command line prints the packets in the order of the log, none       *)
(* twice, and reports their final number.                                  *)
PrintsTheLog ==
  /\ out = [i \in 1 .. Len(out) |-> i] /\ Len(out) <= Count
  /\ cli /\ owner = "off" => total = Count

(* It prints every packet that is stored, unless the program is stopped.   *)
PrintsAll == \A k \in 1..MaxPackets : cli /\ Count >= k ~> Len(out) >= k \/ owner # "on"
=============================================================================
