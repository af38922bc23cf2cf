--------------------------- MODULE ReadersProofs ---------------------------
(***************************************************************************)
(* Proofs about Readers for every filter, every set of packet bodies and   *)
(* requests, every size of channel and page and any number of packets.     *)
(***************************************************************************)
EXTENDS Readers, FiniteSetTheorems, TLAPS

StoP == INSTANCE StoreProofs

(* The store keeps the invariants proved of it.                            *)
StoreInv == StoP!StrayInv /\ StoP!OrderInv

(* How far the owner has come tells whether the consumer runs.             *)
OwnInv ==
  /\ owner \in {"new", "on", "stopping", "waiting", "off"}
  /\ owner = "new" <=> con = "none"
  /\ storeStop => owner \in {"waiting", "off"}
  /\ owner = "off" => con = "done"

(* baseIndex is a place in the log, and after the last change of the       *)
(* filter if it was moved since then.                                      *)
HiddenInv ==
  /\ base \in Nat /\ base <= Len(log)
  /\ fresh => mark <= base

(* The printer has printed what comes before its offset and the first      *)
(* packets of its page, which starts at the offset and is in the log.      *)
PrintInv ==
  /\ off \in Nat /\ shown \in Nat /\ page \in Seq(Nat) /\ out \in Seq(Nat)
  /\ shown <= Len(page) /\ off + Len(page) <= Len(log)
  /\ Len(out) = off + shown
  /\ \A i \in DOMAIN page : page[i] = off + i
  /\ \A i \in DOMAIN out : out[i] = i
  /\ cli /\ owner = "off" => total = Len(log)

(* The packets of a log s behind l, up to i, that Q selects.               *)
Chosen(s, Q, l, i) == {j \in l + 1 .. i : s[j].body \in Q}
Rank(s, Q, l, i) == Cardinality(Chosen(s, Q, l, i))

(* Where the next page of a walk w begins.                                 *)
At(w) == IF w.offset < 0 THEN 0 ELSE w.offset

(* A walk through the log s: the packets got so far are in the order of    *)
(* the log, lie within what the last call looked at, and come before the   *)
(* next page, in the counting of the last call and of every later one.     *)
Ordered(w, s) ==
  /\ \A i, j \in DOMAIN w.got : i < j => w.got[i] < w.got[j]
  /\ \A i \in DOMAIN w.got :
       w.got[i] # 0 /\ w.got[i] <= w.hi /\ Rank(s, w.query, w.lo, w.got[i]) <= At(w)

(* While baseIndex stays where it is, they are the selected packets from   *)
(* the first offset on, up to the next page or to the end.                 *)
Gapless(w, s) ==
  /\ \A i \in DOMAIN w.got :
       /\ w.got[i] \in Chosen(s, w.query, w.lo, w.hi)
       /\ Rank(s, w.query, w.lo, w.got[i]) = w.from + i
  /\ w.pc # "done" => w.from + Len(w.got) = At(w)
  /\ w.pc = "done" =>
       LET all == Rank(s, w.query, w.lo, w.hi)
       IN  IF w.from < all THEN w.from + Len(w.got) = all ELSE w.got = <<>>

WalkInv ==
  /\ walk \in Walk
  /\ walk.lo <= base /\ walk.hi <= Len(log)
  /\ walk.pc = "get" => walk.lo <= walk.hi
  /\ walk.pc = "idle" => walk.got = <<>>
  /\ Ordered(walk, log)
  /\ walk.same => Gapless(walk, log)

(* What the other variables hold.                                          *)
KindInv == cli \in BOOLEAN /\ total \in Int /\ discard \in BOOLEAN /\ fresh \in BOOLEAN

Inv == StoreInv /\ OwnInv /\ HiddenInv /\ PrintInv /\ WalkInv /\ KindInv

-----------------------------------------------------------------------------
(***************************************************************************)
(* Every step is, for the store, one of its own steps or none: the store   *)
(* keeps among its readers what was proved of it alone.                    *)
(***************************************************************************)
LEMMA StoAssumptions == StoP!BodyAssumption /\ StoP!SizeAssumption
BY StoreAssumption DEF StoP!BodyAssumption, StoP!SizeAssumption, Sto!BodyAssumption,
   Sto!SizeAssumption, StoP!PacketIds, Sto!PacketIds, StoP!Item, Sto!Item

(* StoreProofs names the definitions of Store anew: they are the same.     *)
LEMMA SameAdmitted == \A f, b : Sto!Admitted(f, b) <=> StoP!Admitted(f, b)
BY DEF Sto!Admitted, StoP!Admitted, Sto!Matches, StoP!Matches

LEMMA SameStore ==
  /\ Sto!Recv <=> StoP!Recv
  /\ Sto!ConsumerExit <=> StoP!ConsumerExit
  /\ Sto!Process <=> StoP!Process
  /\ Sto!AppendPacket <=> StoP!AppendPacket
  /\ Sto!Consume <=> StoP!Consume
  /\ \A b : Sto!Produce(b) <=> StoP!Produce(b)
<1>1. (Sto!Recv <=> StoP!Recv) /\ (Sto!ConsumerExit <=> StoP!ConsumerExit)
  BY DEF Sto!Recv, StoP!Recv, Sto!ConsumerExit, StoP!ConsumerExit
<1>2. Sto!Process <=> StoP!Process
  BY SameAdmitted DEF Sto!Process, StoP!Process
<1>3. Sto!AppendPacket <=> StoP!AppendPacket
  BY DEF Sto!AppendPacket, StoP!AppendPacket, Sto!IsExtAdv, StoP!IsExtAdv
<1>4. \A b : Sto!Produce(b) <=> StoP!Produce(b)
  BY DEF Sto!Produce, StoP!Produce
<1> QED
  BY <1>1, <1>2, <1>3, <1>4 DEF Sto!Consume, StoP!Consume

LEMMA StoreSteps == Inv /\ [Next]_vars => [StoP!Next]_(StoP!vars)
<1> SUFFICES ASSUME Inv, [Next]_vars PROVE [StoP!Next]_(StoP!vars)
  OBVIOUS
<1> USE DEF sourceVars, storeVars, parts
<1>1. CASE UNCHANGED parts
  BY <1>1 DEF StoP!vars, StoP!storeVars
<1>2. CASE Start
  BY <1>2 DEF Start, Sto!StartConsumer, StoP!StartConsumer, StoP!Next
<1>3. CASE StopSource
  BY <1>3 DEF StopSource, Sto!CloseSource, StoP!CloseSource, StoP!Next, StoP!storeVars
<1>4. CASE StopStore
  <2>1. con # "none" /\ ~storeStop
    BY <1>4 DEF StopStore, Inv, OwnInv
  <2> QED
    BY <1>4, <2>1 DEF StopStore, Sto!CloseStop, StoP!CloseStop, StoP!Next
<1>5. CASE Packets
  <2>1. CASE Sto!Consume /\ UNCHANGED <<chanClosed, emitted, panic>>
    BY <2>1, SameStore DEF StoP!Next
  <2>2. ASSUME NEW b \in Body, Sto!Produce(b), UNCHANGED <<chanClosed, storeVars, panic>>
        PROVE  StoP!Next
    BY <2>2, SameStore DEF StoP!Next, StoP!storeVars
  <2> QED
    BY <1>5, <2>1, <2>2 DEF Packets
<1>6. ASSUME NEW f \in SUBSET Entry, NEW d \in BOOLEAN, SetFilter(f, d)
      PROVE  StoP!Next
  BY <1>6 DEF SetFilter, Sto!SetFilter, StoP!SetFilter, StoP!Next
<1> HIDE DEF parts
<1>7. CASE StopBegin \/ StopReturns \/ SetFilterDiscards \/ ClearPackets
  BY <1>1, <1>7 DEF StopBegin, StopReturns, SetFilterDiscards, ClearPackets, Hide
<1>8. CASE (\E r \in Request : Ask(r)) \/ GetPackets \/ Printer
  BY <1>1, <1>8 DEF Ask, GetPackets, GetSnapshot, GetCount, GetPage, Printer,
     PrintPoll, PrintPacket, PrintAdvances
<1> QED
  BY <1>1, <1>2, <1>3, <1>4, <1>5, <1>6, <1>7, <1>8 DEF Next, Stop, vars

LEMMA StoreStep == Inv /\ [Next]_vars => StoreInv'
BY StoreSteps, StoAssumptions, StoP!StrayStep, StoP!OrderStep DEF Inv, StoreInv

-----------------------------------------------------------------------------
(***************************************************************************)
(* What a step may do to the log: only the consumer appends, while it      *)
(* runs.                                                                   *)
(***************************************************************************)
LEMMA LogGrows ==
  ASSUME Inv, [Next]_vars
  PROVE  /\ log \in Seq(StoP!Item) /\ Len(log) \in Nat /\ mark \in Nat
         /\ Len(log') \in Nat /\ Len(log) <= Len(log')
         /\ \A i \in 1..Len(log) : log'[i] = log[i]
         /\ log' # log => con = "append" /\ Packets
<1>1. log \in Seq(StoP!Item) /\ mark \in Nat /\ log' \in Seq(StoP!Item)
  BY StoreStep DEF Inv, StoreInv, StoP!StrayInv, StoP!TypeInv, StoP!TypeOK
<1> USE DEF sourceVars, storeVars, parts
<1>2. CASE Packets
  <2>1. CASE Sto!AppendPacket
    BY <1>1, <1>2, <2>1 DEF Sto!AppendPacket
  <2>2. CASE ~Sto!AppendPacket
    BY <1>1, <1>2, <2>2 DEF Packets, Sto!Consume, Sto!Recv, Sto!ConsumerExit, Sto!Process
  <2> QED
    BY <2>1, <2>2
<1>3. CASE ~Packets
  <2>1. UNCHANGED log
    <3>1. CASE Start \/ Stop
      BY <3>1 DEF Start, Stop, StopBegin, StopSource, StopStore, StopReturns,
         Sto!StartConsumer, Sto!CloseStop
    <3>2. CASE \E f \in SUBSET Entry, d \in BOOLEAN : SetFilter(f, d)
      BY <3>2 DEF SetFilter, Sto!SetFilter
    <3>3. CASE UNCHANGED parts
      BY <3>3
    <3> HIDE DEF parts
    <3>4. CASE SetFilterDiscards \/ ClearPackets \/ GetPackets \/ Printer
               \/ \E r \in Request : Ask(r)
      BY <3>3, <3>4 DEF SetFilterDiscards, ClearPackets, Hide, Ask, GetPackets, GetSnapshot,
         GetCount, GetPage, Printer, PrintPoll, PrintPacket, PrintAdvances
    <3> QED
      BY <1>3, <3>1, <3>2, <3>3, <3>4 DEF Next, vars
  <2> QED
    BY <1>1, <2>1
<1> QED
  BY <1>2, <1>3

LEMMA OwnStep == Inv /\ [Next]_vars => OwnInv'
<1> SUFFICES ASSUME Inv, [Next]_vars PROVE OwnInv'
  OBVIOUS
<1> USE DEF OwnInv, sourceVars, storeVars, parts, ownVars
<1>1. OwnInv
  BY DEF Inv
<1>2. CASE UNCHANGED <<con, storeStop, owner>>
  BY <1>1, <1>2
<1>3. CASE Start
  BY <1>1, <1>3 DEF Start, Sto!StartConsumer
<1>4. CASE Stop
  BY <1>1, <1>4 DEF Stop, StopBegin, StopSource, StopStore, StopReturns, Sto!CloseStop,
     Sto!ConsumerGone
<1>5. CASE Packets
  <2>1. CASE Sto!Consume
    BY <1>1, <1>5, <2>1 DEF Packets, Sto!Consume, Sto!Recv, Sto!ConsumerExit, Sto!Process,
       Sto!AppendPacket
  <2> QED
    BY <1>2, <1>5, <2>1 DEF Packets
<1>6. ASSUME NEW f \in SUBSET Entry, NEW d \in BOOLEAN, SetFilter(f, d) PROVE OwnInv'
  BY <1>2, <1>6 DEF SetFilter, Sto!SetFilter
<1>7. CASE \/ SetFilterDiscards \/ ClearPackets \/ GetPackets \/ Printer
           \/ \E r \in Request : Ask(r)
  BY <1>2, <1>7 DEF SetFilterDiscards, ClearPackets, Hide, Ask, GetPackets, GetSnapshot,
     GetCount, GetPage, Printer, PrintPoll, PrintPacket, PrintAdvances
<1>8. CASE UNCHANGED vars
  BY <1>2, <1>8 DEF vars
<1> QED
  BY <1>3, <1>4, <1>5, <1>6, <1>7, <1>8 DEF Next

LEMMA HiddenStep == Inv /\ [Next]_vars => HiddenInv'
<1> SUFFICES ASSUME Inv, [Next]_vars PROVE HiddenInv'
  OBVIOUS
<1>1. /\ HiddenInv /\ mark <= Len(log) /\ mark \in Nat
      /\ Len(log) \in Nat /\ Len(log') \in Nat /\ Len(log) <= Len(log')
  BY LogGrows DEF Inv, StoreInv, StoP!StrayInv
<1> USE DEF HiddenInv, sourceVars, storeVars, parts, sessVars
<1>2. CASE UNCHANGED <<base, fresh, mark>>
  BY <1>1, <1>2
<1>3. CASE Start \/ Stop
  BY <1>2, <1>3 DEF Start, Stop, StopBegin, StopSource, StopStore, StopReturns,
     Sto!StartConsumer, Sto!CloseStop
<1>4. CASE Packets
  BY <1>2, <1>4 DEF Packets, Sto!Consume, Sto!Recv, Sto!ConsumerExit, Sto!Process,
     Sto!AppendPacket
<1>5. ASSUME NEW f \in SUBSET Entry, NEW d \in BOOLEAN, SetFilter(f, d) PROVE HiddenInv'
  BY <1>1, <1>5 DEF SetFilter, Sto!SetFilter
<1>6. CASE SetFilterDiscards \/ ClearPackets
  <2>1. base' = Len(log) /\ mark' = mark /\ log' = log
    BY <1>6 DEF SetFilterDiscards, ClearPackets, Hide, Count
  <2> QED
    BY <1>1, <2>1
<1>7. CASE GetPackets \/ Printer \/ \E r \in Request : Ask(r)
  BY <1>2, <1>7 DEF Ask, GetPackets, GetSnapshot, GetCount, GetPage, Printer, PrintPoll,
     PrintPacket, PrintAdvances
<1>8. CASE UNCHANGED vars
  BY <1>2, <1>8 DEF vars
<1> QED
  BY <1>3, <1>4, <1>5, <1>6, <1>7, <1>8 DEF Next

(* What the printer takes is the part of the log from its offset on.       *)
LEMMA PageFacts ==
  ASSUME NEW n \in Nat, NEW k \in Nat, Len(log) \in Nat, Get(n, k) # <<>>
  PROVE  /\ Get(n, k) \in Seq(Nat) /\ n + Len(Get(n, k)) <= Len(log)
         /\ \A i \in DOMAIN Get(n, k) : Get(n, k)[i] = n + i
<1> DEFINE m == Least(n + k, Len(log)) - n
           s == [i \in 1 .. m |-> n + i]
<1>1. n < Len(log) /\ k > 0 /\ Get(n, k) = s
  BY DEF Get, Count
<1>2. m \in Nat /\ n + m <= Len(log)
  BY <1>1 DEF Least
<1> HIDE DEF m
<1>3. s \in Seq(Nat) /\ Len(s) = m /\ DOMAIN s = 1 .. m /\ \A i \in 1 .. m : s[i] = n + i
  BY <1>2
<1> QED
  BY <1>1, <1>2, <1>3

LEMMA PrintStep == Inv /\ [Next]_vars => PrintInv'
<1> SUFFICES ASSUME Inv, [Next]_vars PROVE PrintInv'
  OBVIOUS
<1>1. /\ PrintInv /\ Len(log) \in Nat /\ Len(log') \in Nat /\ Len(log) <= Len(log')
      /\ log' # log => con = "append" /\ Packets
      /\ owner = "off" => con = "done"
  BY LogGrows DEF Inv, OwnInv
<1>2. owner = "off" => UNCHANGED log
  BY <1>1
(* What the end reports, and the printer, which stops before that.         *)
<1> DEFINE Reported == cli /\ owner = "off" => total = Len(log)
           Printed == UNCHANGED printVars
<1> USE DEF sourceVars, storeVars, parts, ownVars
<1>3. CASE Printed /\ Reported'
  BY <1>1, <1>3 DEF PrintInv, printVars
<1>4. CASE Printed /\ UNCHANGED ownVars
  BY <1>1, <1>2, <1>3, <1>4 DEF PrintInv
<1>5. CASE Start \/ StopBegin \/ StopStore
  <2>1. owner' # "off" /\ Printed
    BY <1>5 DEF Start, StopBegin, StopStore
  <2> QED
    BY <1>3, <2>1
<1>6. CASE StopReturns
  <2>1. log' = log /\ cli' = cli /\ (cli => total' = Len(log)) /\ Printed
    BY <1>6 DEF StopReturns, Count
  <2> QED
    BY <1>3, <2>1
<1>7. CASE StopSource \/ Packets
  BY <1>4, <1>7 DEF StopSource, Packets
<1>8. ASSUME NEW f \in SUBSET Entry, NEW d \in BOOLEAN, SetFilter(f, d) PROVE PrintInv'
  BY <1>4, <1>8 DEF SetFilter
<1>9. CASE SetFilterDiscards \/ ClearPackets \/ GetPackets \/ \E r \in Request : Ask(r)
  BY <1>4, <1>9 DEF SetFilterDiscards, ClearPackets, Hide, Ask, GetPackets, GetSnapshot,
     GetCount, GetPage
<1>10. CASE PrintPoll
  <2>1. /\ page = <<>> /\ page' = Get(off, PrintSize) /\ page' # <<>>
        /\ owner' # "off" /\ UNCHANGED <<log, off, shown, out>>
    BY <1>10 DEF PrintPoll, Printing
  <2>2. /\ page' \in Seq(Nat) /\ off + Len(page') <= Len(log)
        /\ \A i \in DOMAIN page' : page'[i] = off + i
    BY <1>1, <2>1, PageFacts, ReadersAssumption DEF PrintInv
  <2>3. shown = 0 /\ Len(page') \in Nat
    BY <1>1, <2>1, <2>2 DEF PrintInv
  <2> QED
    BY <1>1, <2>1, <2>2, <2>3 DEF PrintInv
<1>11. CASE PrintPacket
  <2>1. /\ shown < Len(page) /\ out' = Append(out, page[shown + 1]) /\ shown' = shown + 1
        /\ owner' # "off" /\ UNCHANGED <<log, off, page>>
    BY <1>11 DEF PrintPacket, Printing
  <2>2. /\ Len(page) \in Nat /\ Len(out) \in Nat /\ DOMAIN page = 1 .. Len(page)
        /\ DOMAIN out = 1 .. Len(out) /\ off \in Nat /\ shown \in Nat
        /\ shown + 1 \in DOMAIN page
    BY <1>1, <2>1 DEF PrintInv
  <2>3. page[shown + 1] = Len(out) + 1
    <3>1. /\ \A i \in DOMAIN page : page[i] = off + i
          /\ Len(out) = off + shown
      BY <1>1 DEF PrintInv
    <3>2. page[shown + 1] = off + (shown + 1)
      BY <2>2, <3>1
    <3> QED
      BY <2>2, <3>1, <3>2
  <2>4. /\ out' \in Seq(Nat) /\ Len(out') = Len(out) + 1
        /\ \A i \in DOMAIN out' : out'[i] = i
    BY <1>1, <2>1, <2>2, <2>3 DEF PrintInv
  <2> QED
    BY <1>1, <2>1, <2>2, <2>4 DEF PrintInv
<1>12. CASE PrintAdvances
  <2>1. /\ shown = Len(page) /\ off' = off + Len(page) /\ page' = <<>> /\ shown' = 0
        /\ owner' # "off" /\ UNCHANGED <<log, out>>
    BY <1>12 DEF PrintAdvances, Printing
  <2> QED
    BY <1>1, <2>1 DEF PrintInv
<1>13. CASE UNCHANGED vars
  BY <1>4, <1>13 DEF vars
<1> QED
  BY <1>5, <1>6, <1>7, <1>8, <1>9, <1>10, <1>11, <1>12, <1>13 DEF Next, Stop, Printer

-----------------------------------------------------------------------------
(***************************************************************************)
(* The pages of sniffer_get_packets. A packet's rank is its place among    *)
(* the selected packets from baseIndex on.                                 *)
(***************************************************************************)
UpTo(S, i) == Cardinality({j \in S : j <= i})

(* In a finite set of numbers every element has a place of its own, and    *)
(* every place is taken.                                                   *)
LEMMA Places ==
  ASSUME NEW S, S \subseteq Nat, IsFiniteSet(S)
  PROVE  /\ Cardinality(S) \in Nat
         /\ \A i \in S : UpTo(S, i) \in 1..Cardinality(S)
         /\ \A i, j \in S : i < j => UpTo(S, i) < UpTo(S, j)
         /\ \A k \in 1..Cardinality(S) : \E i \in S : UpTo(S, i) = k
<1> DEFINE Below(i) == {j \in S : j <= i}
           n == Cardinality(S)
<1>1. n \in Nat
  BY FS_CardinalityType
<1>2. ASSUME NEW i \in Nat
      PROVE  /\ IsFiniteSet(Below(i)) /\ UpTo(S, i) = Cardinality(Below(i))
             /\ UpTo(S, i) \in Nat /\ UpTo(S, i) <= n
  <2>1. Below(i) \in SUBSET S /\ UpTo(S, i) = Cardinality(Below(i))
    BY DEF UpTo
  <2>2. IsFiniteSet(Below(i)) /\ Cardinality(Below(i)) <= n
    BY <2>1, FS_Subset
  <2> HIDE DEF Below
  <2> QED
    BY <2>1, <2>2, FS_CardinalityType
<1>3. ASSUME NEW i \in S, NEW j \in S, i < j
      PROVE  UpTo(S, i) < UpTo(S, j)
  <2>0. i \in Nat /\ j \in Nat /\ S \subseteq Nat
    OBVIOUS
  <2>1. Below(i) \in SUBSET Below(j)
    <3>1. \A x \in S : x <= i => x <= j
      BY <1>3, <2>0
    <3> QED
      BY <3>1
  <2>4. j \in Below(j) /\ j \notin Below(i)
    BY <1>3, <2>0
  <2>2. /\ IsFiniteSet(Below(j)) /\ UpTo(S, i) \in Nat /\ UpTo(S, j) \in Nat
        /\ UpTo(S, i) = Cardinality(Below(i)) /\ UpTo(S, j) = Cardinality(Below(j))
    BY <1>2, <2>0
  <2> HIDE DEF Below
  <2>3. Cardinality(Below(i)) <= Cardinality(Below(j))
        /\ Cardinality(Below(i)) # Cardinality(Below(j))
    BY <2>1, <2>2, <2>4, FS_Subset
  <2> QED
    BY <2>2, <2>3
<1>4. ASSUME NEW i \in S
      PROVE  UpTo(S, i) \in 1..n
  <2>1. i \in Below(i) /\ i \in Nat
    OBVIOUS
  <2>2. UpTo(S, i) \in Nat /\ UpTo(S, i) <= n /\ IsFiniteSet(Below(i))
        /\ UpTo(S, i) = Cardinality(Below(i))
    BY <1>2, <2>1
  <2> HIDE DEF Below, n
  <2>3. UpTo(S, i) # 0
    BY <2>1, <2>2, FS_EmptySet
  <2> QED
    BY <1>1, <2>2, <2>3
<1>5. \A k \in 1..n : \E i \in S : UpTo(S, i) = k
  <2> DEFINE f == [i \in S |-> UpTo(S, i)]
  <2>1. f \in [S -> 1..n]
    BY <1>4
  <2>2. \A i, j \in S : f[i] = f[j] => i = j
    <3> SUFFICES ASSUME NEW i \in S, NEW j \in S, i # j
                 PROVE  UpTo(S, i) # UpTo(S, j)
      OBVIOUS
    <3>1. i < j \/ j < i
      OBVIOUS
    <3>2. UpTo(S, i) \in 1..n /\ UpTo(S, j) \in 1..n
      BY <1>4
    <3>3. CASE i < j
      <4>1. UpTo(S, i) < UpTo(S, j)
        BY <1>3, <3>3
      <4> HIDE DEF n
      <4> QED
        BY <1>1, <3>2, <4>1
    <3>4. CASE j < i
      <4>1. UpTo(S, j) < UpTo(S, i)
        BY <1>3, <3>4
      <4> HIDE DEF n
      <4> QED
        BY <1>1, <3>2, <4>1
    <3> QED
      BY <3>1, <3>3, <3>4
  <2>3. f \in Injection(S, 1..n)
    BY <2>1, <2>2 DEF Injection, IsInjective
  <2>4. IsFiniteSet(1..n) /\ Cardinality(1..n) = n
    <3> HIDE DEF n
    <3>1. Cardinality(1..n) = IF 1 > n THEN 0 ELSE n - 1 + 1
      BY <1>1, FS_Interval
    <3> QED
      BY <1>1, <3>1, FS_Interval
  <2>5. f \in Surjection(S, 1..n)
    <3> HIDE DEF f
    <3> QED
      BY <2>3, <2>4, FS_Injection
  <2>6. \A k \in 1..n : \E i \in S : f[i] = k
    BY <2>5 DEF Surjection
  <2> QED
    BY <2>6
<1> QED
  BY <1>1, <1>3, <1>4, <1>5

LEMMA RankFacts ==
  ASSUME NEW s, NEW Q, NEW l \in Nat, NEW i \in Nat
  PROVE  /\ IsFiniteSet(Chosen(s, Q, l, i)) /\ Chosen(s, Q, l, i) \subseteq Nat
         /\ Rank(s, Q, l, i) \in Nat
<1>1. Chosen(s, Q, l, i) \subseteq Nat /\ \A j \in Chosen(s, Q, l, i) : j <= i
  BY DEF Chosen
<1>2. IsFiniteSet(Chosen(s, Q, l, i))
  BY <1>1, FS_BoundedSetOfNaturals
<1> QED
  BY <1>1, <1>2, FS_CardinalityType DEF Rank

(* Ranks grow along the log, and fall when baseIndex moves on.             *)
LEMMA RankGrows ==
  ASSUME NEW s, NEW Q, NEW l \in Nat, NEW m \in Nat, NEW i \in Nat, NEW j \in Nat,
         m <= l, i <= j
  PROVE  Rank(s, Q, l, i) <= Rank(s, Q, m, j)
<1>1. Chosen(s, Q, l, i) \in SUBSET Chosen(s, Q, m, j)
  BY DEF Chosen
<1>2. IsFiniteSet(Chosen(s, Q, m, j))
  BY RankFacts
<1> QED
  BY <1>1, <1>2, FS_Subset DEF Rank

(* What the query selects of the packets behind l, up to h: each rank up   *)
(* to the last is that of one packet, and the packets are in this order.   *)
IsSelection(all, s, Q, l, h) ==
  /\ all \in Seq(Nat) /\ Len(all) = Rank(s, Q, l, h)
  /\ \A k \in DOMAIN all : all[k] \in Chosen(s, Q, l, h) /\ Rank(s, Q, l, all[k]) = k
  /\ \A i \in Chosen(s, Q, l, h) :
       Rank(s, Q, l, i) \in DOMAIN all /\ all[Rank(s, Q, l, i)] = i

LEMMA SelectedFacts ==
  ASSUME NEW l \in Nat, NEW h \in Nat,
         NEW packets, packets = [i \in 1 .. h - l |-> l + i]
  PROVE  IsSelection(Selected(packets), log, walk.query, l, h)
<1> DEFINE all == Selected(packets)
           S == Chosen(log, walk.query, l, h)
           passing == {i \in {packets[n] : n \in DOMAIN packets} : log[i].body \in walk.query}
           R(i) == Rank(log, walk.query, l, i)
<1>1. {packets[n] : n \in DOMAIN packets} = l + 1 .. h
  <2>1. ASSUME NEW i \in l + 1 .. h
        PROVE  i \in {packets[n] : n \in DOMAIN packets}
    <3>1. i - l \in DOMAIN packets /\ packets[i - l] = i
      OBVIOUS
    <3> QED
      BY <3>1
  <2>2. ASSUME NEW n \in DOMAIN packets
        PROVE  packets[n] \in l + 1 .. h
    OBVIOUS
  <2> QED
    BY <2>1, <2>2
<1>2. passing = S
  BY <1>1 DEF Chosen
<1>3. all = [k \in 1..Cardinality(S) |-> CHOOSE i \in S : UpTo(S, i) = k]
  <2> DEFINE InOrder(P) == [k \in 1..Cardinality(P) |-> CHOOSE i \in P : UpTo(P, i) = k]
  <2>1. all = InOrder(passing)
    BY DEF Selected, UpTo
  <2> HIDE DEF passing, InOrder, S, all
  <2>2. all = InOrder(S)
    BY <1>2, <2>1
  <2> QED
    BY <2>2 DEF InOrder
<1>4. \A i \in S : UpTo(S, i) = R(i)
  <2> SUFFICES ASSUME NEW i \in S PROVE UpTo(S, i) = R(i)
    OBVIOUS
  <2>1. {j \in S : j <= i} = Chosen(log, walk.query, l, i)
    BY DEF Chosen
  <2> QED
    BY <2>1 DEF UpTo, Rank
<1>5. S \subseteq Nat /\ IsFiniteSet(S) /\ Cardinality(S) = R(h) /\ R(h) \in Nat
  BY RankFacts DEF Rank
<1> HIDE DEF passing, R, all, S
<1>6. /\ \A i \in S : R(i) \in 1..R(h)
      /\ \A i, j \in S : i < j => R(i) < R(j)
      /\ \A k \in 1..R(h) : \E i \in S : R(i) = k
  <2>1. /\ \A i \in S : UpTo(S, i) \in 1..Cardinality(S)
        /\ \A i, j \in S : i < j => UpTo(S, i) < UpTo(S, j)
        /\ \A k \in 1..Cardinality(S) : \E i \in S : UpTo(S, i) = k
    BY <1>5, Places
  <2> QED
    BY <1>4, <1>5, <2>1
<1>7. \A i, j \in S : R(i) = R(j) => i = j
  <2> SUFFICES ASSUME NEW i \in S, NEW j \in S, i # j PROVE R(i) # R(j)
    OBVIOUS
  <2>1. i \in Nat /\ j \in Nat /\ R(i) \in Nat /\ R(j) \in Nat
    BY <1>5, RankFacts DEF R
  <2>2. i < j \/ j < i
    BY <2>1
  <2> QED
    BY <1>6, <2>1, <2>2
<1>8. ASSUME NEW k \in 1..R(h)
      PROVE  /\ all[k] \in S
             /\ R(all[k]) = k
  <2>1. \E i \in S : UpTo(S, i) = k
    BY <1>4, <1>6
  <2>2. all[k] = CHOOSE i \in S : UpTo(S, i) = k
    BY <1>3, <1>5
  <2> QED
    BY <1>4, <2>1, <2>2
<1>9. ASSUME NEW i \in S
      PROVE  R(i) \in 1..R(h) /\ all[R(i)] = i
  BY <1>6, <1>7, <1>8
<1>10. all \in Seq(Nat) /\ Len(all) = R(h)
  <2>1. DOMAIN all = 1..R(h)
    BY <1>3, <1>5
  <2>2. all = [k \in 1..R(h) |-> all[k]]
    BY <1>3, <1>5
  <2>3. \A k \in 1..R(h) : all[k] \in Nat
    BY <1>5, <1>8
  <2>4. all \in [1..R(h) -> Nat]
    BY <2>2, <2>3
  <2> QED
    BY <1>5, <2>1, <2>4
<1>11. DOMAIN all = 1..R(h)
  BY <1>5, <1>10
<1>12. \A k \in DOMAIN all : all[k] \in S /\ R(all[k]) = k
  BY <1>8, <1>11
<1>13. \A i \in S : R(i) \in DOMAIN all /\ all[R(i)] = i
  BY <1>9, <1>11
<1> QED
  BY <1>10, <1>12, <1>13 DEF R, S, all, IsSelection

(* What is appended to the log changes no rank in it.                      *)
Extends(t, s) == Len(s) \in Nat /\ \A j \in 1..Len(s) : t[j] = s[j]

LEMMA RankKept ==
  ASSUME NEW s, NEW t, Extends(t, s), NEW Q, NEW l \in Nat, NEW i \in Nat, i <= Len(s)
  PROVE  Chosen(t, Q, l, i) = Chosen(s, Q, l, i) /\ Rank(t, Q, l, i) = Rank(s, Q, l, i)
<1>1. \A j \in l + 1 .. i : t[j] = s[j]
  BY DEF Extends
<1>2. Chosen(t, Q, l, i) = Chosen(s, Q, l, i)
  BY <1>1 DEF Chosen
<1> QED
  BY <1>2 DEF Rank

(* A walk stays in order, and gapless, while the log grows.                *)
LEMMA WalkKept ==
  ASSUME NEW w \in Walk, NEW s, NEW t, Extends(t, s), w.hi <= Len(s)
  PROVE  /\ Ordered(w, s) => Ordered(w, t)
         /\ Ordered(w, s) /\ Gapless(w, s) => Gapless(w, t)
<1>1. w.lo \in Nat /\ w.hi \in Nat /\ w.got \in Seq(Nat)
  BY DEF Walk
<1>2. ASSUME Ordered(w, s), NEW i \in DOMAIN w.got
      PROVE  /\ Rank(t, w.query, w.lo, w.got[i]) = Rank(s, w.query, w.lo, w.got[i])
             /\ w.got[i] <= w.hi
  <2>1. w.got[i] \in Nat
    BY <1>1
  <2>2. w.got[i] <= w.hi
    BY <1>2 DEF Ordered
  <2>3. w.got[i] <= Len(s)
    BY <1>1, <2>1, <2>2 DEF Extends
  <2>4. \A j \in Nat : j <= Len(s) => Rank(t, w.query, w.lo, j) = Rank(s, w.query, w.lo, j)
    <3> SUFFICES ASSUME NEW j \in Nat, j <= Len(s)
                 PROVE  Rank(t, w.query, w.lo, j) = Rank(s, w.query, w.lo, j)
      OBVIOUS
    <3> QED
      BY <1>1, RankKept
  <2> QED
    BY <2>1, <2>2, <2>3, <2>4
<1>3. /\ Chosen(t, w.query, w.lo, w.hi) = Chosen(s, w.query, w.lo, w.hi)
      /\ Rank(t, w.query, w.lo, w.hi) = Rank(s, w.query, w.lo, w.hi)
  BY <1>1, RankKept
<1>4. Ordered(w, s) => Ordered(w, t)
  BY <1>2 DEF Ordered
<1>5. Ordered(w, s) /\ Gapless(w, s) => Gapless(w, t)
  BY <1>2, <1>3 DEF Gapless
<1> QED
  BY <1>4, <1>5

(* The next call finds the baseIndex where it was or further on, and the   *)
(* log longer.                                                             *)
LEMMA NextCall ==
  ASSUME NEW w \in Walk, NEW v \in Walk, NEW s, Ordered(w, s),
         v.query = w.query, v.got = w.got, v.from = w.from, v.offset = w.offset,
         w.lo <= v.lo, w.hi <= v.hi
  PROVE  /\ Ordered(v, s)
         /\ Gapless(w, s) /\ v.lo = w.lo /\ w.pc # "done" /\ v.pc # "done" => Gapless(v, s)
<1>1. /\ w.lo \in Nat /\ w.hi \in Nat /\ v.lo \in Nat /\ v.hi \in Nat
      /\ w.got \in Seq(Nat) /\ w.offset \in Int
  BY DEF Walk
<1>2. At(v) = At(w) /\ At(w) \in Nat
  BY <1>1 DEF At
<1>3. ASSUME NEW i \in DOMAIN w.got
      PROVE  v.got[i] <= v.hi /\ Rank(s, v.query, v.lo, v.got[i]) <= At(v)
  <2>1. w.got[i] \in Nat
    BY <1>1
  <2>2. w.got[i] <= w.hi /\ Rank(s, w.query, w.lo, w.got[i]) <= At(w)
    BY DEF Ordered
  <2>3. Rank(s, w.query, v.lo, w.got[i]) <= Rank(s, w.query, w.lo, w.got[i])
    BY <1>1, <2>1, RankGrows
  <2>4. /\ Rank(s, w.query, v.lo, w.got[i]) \in Nat
        /\ Rank(s, w.query, w.lo, w.got[i]) \in Nat
    BY <1>1, <2>1, RankFacts
  <2> QED
    BY <1>1, <1>2, <2>1, <2>2, <2>3, <2>4
<1>4. Ordered(v, s)
  BY <1>3 DEF Ordered
<1>5. ASSUME Gapless(w, s), v.lo = w.lo, w.pc # "done", v.pc # "done"
      PROVE  Gapless(v, s)
  <2>1. Chosen(s, w.query, w.lo, w.hi) \subseteq Chosen(s, v.query, v.lo, v.hi)
    BY <1>1, <1>5 DEF Chosen
  <2> QED
    BY <1>2, <1>5, <2>1 DEF Gapless
<1> QED
  BY <1>4, <1>5

(* A page begins where it was asked for, or at the end if that is beyond   *)
(* it, and does not end before it begins.                                  *)
Bounded(first, end, asked, n) ==
  /\ first \in Nat /\ end \in Nat /\ first <= end /\ end <= n
  /\ first = IF asked < 0 THEN 0 ELSE IF asked < n THEN asked ELSE n

LEMMA PageBounds ==
  ASSUME NEW asked \in Int, NEW limit \in Int, NEW n \in Nat
  PROVE  Bounded(Offset(asked, n), Least(Offset(asked, n) + Limit(limit), n), asked, n)
<1> DEFINE first == Offset(asked, n)
           end == Least(first + Limit(limit), n)
<1>1. Limit(limit) \in Nat
  BY ReadersAssumption DEF Limit, Least
<1>2. first \in Nat /\ first = IF asked < 0 THEN 0 ELSE IF asked < n THEN asked ELSE n
  BY DEF Offset, Least
<1>3. first <= n
  BY <1>2
<1>4. end = IF first + Limit(limit) < n THEN first + Limit(limit) ELSE n
  BY DEF Least
<1> HIDE DEF first, end
<1>5. end \in Nat /\ first <= end /\ end <= n
  BY <1>1, <1>2, <1>3, <1>4
<1>6. Bounded(first, end, asked, n)
  BY <1>2, <1>5 DEF Bounded
<1> QED
  BY <1>6 DEF first, end

(* What a call looks at is the log behind baseIndex.                       *)
LEMMA GetVisible ==
  ASSUME NEW l \in Nat, NEW h \in Nat, Len(log) \in Nat, l <= h, h <= Len(log)
  PROVE  Get(l, h - l) = [i \in 1 .. h - l |-> l + i]
<1>1. CASE h = l
  <2>1. Get(l, h - l) = <<>>
    BY <1>1 DEF Get
  <2>2. 1 .. h - l = {}
    BY <1>1
  <2>3. [i \in 1 .. h - l |-> l + i] = <<>>
    BY <2>2
  <2> QED
    BY <2>1, <2>3
<1>2. CASE h # l
  <2>1. /\ ~ (l >= Len(log)) /\ ~ (h - l <= 0)
        /\ Least(l + (h - l), Len(log)) - l = h - l
    BY <1>2 DEF Least
  <2> QED
    BY <2>1 DEF Get, Count
<1> QED
  BY <1>1, <1>2

(* Sequences of indices.                                                   *)
LEMMA SameSequence ==
  ASSUME NEW a \in Seq(Nat), NEW b \in Seq(Nat), NEW n \in Nat, Len(a) = n, Len(b) = n,
         \A i \in 1..n : a[i] = b[i]
  PROVE  a = b
OBVIOUS

LEMMA Concat ==
  ASSUME NEW g \in Seq(Nat), NEW part \in Seq(Nat)
  PROVE  /\ g \o part \in Seq(Nat) /\ Len(g \o part) = Len(g) + Len(part)
         /\ \A i \in 1..Len(g) : (g \o part)[i] = g[i]
         /\ \A i \in Len(g) + 1 .. Len(g) + Len(part) : (g \o part)[i] = part[i - Len(g)]
OBVIOUS

Taken(all, first, end) == SubSeq(all, first + 1, end)

LEMMA TakenFacts ==
  ASSUME NEW all \in Seq(Nat), NEW first \in Nat, NEW end \in Nat,
         first <= end, end <= Len(all)
  PROVE  /\ Taken(all, first, end) \in Seq(Nat) /\ Len(Taken(all, first, end)) = end - first
         /\ \A k \in 1 .. end - first : Taken(all, first, end)[k] = all[first + k]
BY DEF Taken

(* g is followed by what lies behind first in all, up to end.              *)
Joined(both, g, all, first, end) ==
  /\ both \in Seq(Nat) /\ Len(both) = Len(g) + (end - first)
  /\ \A i \in 1..Len(g) : both[i] = g[i]
  /\ \A i \in Len(g) + 1 .. Len(g) + (end - first) : both[i] = all[first + (i - Len(g))]

LEMMA Glued ==
  ASSUME NEW g \in Seq(Nat), NEW all \in Seq(Nat), NEW first \in Nat, NEW end \in Nat,
         first <= end, end <= Len(all)
  PROVE  Joined(g \o Taken(all, first, end), g, all, first, end)
<1> DEFINE part == Taken(all, first, end)
<1>1. /\ part \in Seq(Nat) /\ Len(part) = end - first
      /\ \A k \in 1 .. end - first : part[k] = all[first + k]
  BY TakenFacts
<1> HIDE DEF part
<1>2. /\ g \o part \in Seq(Nat) /\ Len(g \o part) = Len(g) + Len(part)
      /\ \A i \in 1..Len(g) : (g \o part)[i] = g[i]
      /\ \A i \in Len(g) + 1 .. Len(g) + Len(part) : (g \o part)[i] = part[i - Len(g)]
  BY <1>1, Concat
<1>3. ASSUME NEW i \in Len(g) + 1 .. Len(g) + (end - first)
      PROVE  (g \o part)[i] = all[first + (i - Len(g))]
  <2>1. i - Len(g) \in 1 .. end - first
    OBVIOUS
  <2> QED
    BY <1>1, <1>2, <2>1
<1>4. Len(g \o part) = Len(g) + (end - first)
  BY <1>1, <1>2
<1> QED
  BY <1>2, <1>3, <1>4 DEF part, Joined

(* The walk w takes from all that are selected those behind first, up to   *)
(* end, and becomes v.                                                     *)
Takes(w, v, s, all, first, end) ==
  /\ IsSelection(all, s, w.query, w.lo, w.hi)
  /\ first \in Nat /\ end \in Nat /\ first <= end /\ end <= Len(all)
  /\ first = IF At(w) < Len(all) THEN At(w) ELSE Len(all)
  /\ v = [w EXCEPT !.pc = IF end < Len(all) THEN "ask" ELSE "done",
                    !.offset = end, !.got = w.got \o SubSeq(all, first + 1, end)]

(* The packets of the new walk, one after the other, and their ranks.      *)
LEMMA PageRanks ==
  ASSUME NEW w \in Walk, NEW v, NEW s, NEW all, NEW first, NEW end, Ordered(w, s),
         Takes(w, v, s, all, first, end)
  PROVE  /\ v.got \in Seq(Nat) /\ Len(v.got) = Len(w.got) + (end - first)
         /\ \A i \in 1..Len(w.got) :
              /\ v.got[i] = w.got[i] /\ w.got[i] \in Nat /\ w.got[i] <= w.hi
              /\ Rank(s, w.query, w.lo, w.got[i]) \in Nat
              /\ Rank(s, w.query, w.lo, w.got[i]) <= At(w)
              /\ Rank(s, w.query, w.lo, w.got[i]) <= Len(all)
         /\ \A i \in Len(w.got) + 1 .. Len(w.got) + (end - first) :
              /\ first = At(w) /\ v.got[i] \in Nat /\ v.got[i] <= w.hi
              /\ v.got[i] \in Chosen(s, w.query, w.lo, w.hi)
              /\ Rank(s, w.query, w.lo, v.got[i]) = At(w) + (i - Len(w.got))
<1> DEFINE R(i) == Rank(s, w.query, w.lo, i)
           m == Len(w.got)
           n == Len(all)
<1>1. /\ w.lo \in Nat /\ w.hi \in Nat /\ w.from \in Nat /\ w.offset \in Int
      /\ w.got \in Seq(Nat)
  BY DEF Walk
<1>2. /\ m \in Nat /\ n \in Nat /\ At(w) \in Nat /\ all \in Seq(Nat)
      /\ first \in Nat /\ end \in Nat /\ first <= end /\ end <= n
      /\ first = IF At(w) < n THEN At(w) ELSE n
  BY <1>1 DEF At, Takes, IsSelection
<1>8. v.got = w.got \o Taken(all, first, end)
  BY DEF Takes, IsSelection, Taken, Walk
<1>6. /\ v.got \in Seq(Nat) /\ Len(v.got) = m + (end - first)
      /\ \A i \in 1..m : v.got[i] = w.got[i]
      /\ \A i \in m + 1 .. m + (end - first) : v.got[i] = all[first + (i - m)]
  <2>1. Joined(v.got, w.got, all, first, end)
    BY <1>1, <1>2, <1>8, Glued
  <2> QED
    BY <2>1 DEF Joined
<1>3. /\ DOMAIN w.got = 1..m /\ DOMAIN all = 1..n
      /\ \A i \in 1..m : w.got[i] \in Nat
      /\ \A k \in 1..n : all[k] \in Nat
  <2>1. DOMAIN w.got = 1..m /\ \A i \in 1..m : w.got[i] \in Nat
    BY <1>1
  <2>2. DOMAIN all = 1..n /\ \A k \in 1..n : all[k] \in Nat
    <3>1. all \in Seq(Nat)
      BY <1>2
    <3> QED
      BY <3>1
  <2> QED
    BY <2>1, <2>2
<1>4. \A i \in Nat : R(i) \in Nat
  BY <1>1, RankFacts
<1>5. ASSUME NEW i \in 1..m
      PROVE  /\ w.got[i] \in Nat /\ w.got[i] <= w.hi
             /\ R(w.got[i]) \in Nat /\ R(w.got[i]) <= At(w) /\ R(w.got[i]) <= n
  <2>1. w.got[i] <= w.hi /\ R(w.got[i]) <= At(w)
    BY <1>3 DEF Ordered
  <2>2. R(w.got[i]) <= R(w.hi)
    BY <1>1, <1>3, <2>1, RankGrows
  <2>3. R(w.hi) = n
    BY DEF Takes, IsSelection
  <2> QED
    BY <1>3, <1>4, <2>1, <2>2, <2>3
<1> HIDE DEF m, n, R
<1>7. ASSUME NEW i \in m + 1 .. m + (end - first)
      PROVE  /\ first = At(w) /\ v.got[i] \in Nat /\ v.got[i] <= w.hi
             /\ v.got[i] \in Chosen(s, w.query, w.lo, w.hi)
             /\ R(v.got[i]) = At(w) + (i - m)
  <2>1. i \in Int /\ m + 1 <= i /\ i <= m + (end - first)
    BY <1>2
  <2>6. first < end
    BY <1>2, <2>1
  <2>7. first = At(w)
    BY <1>2, <2>6
  <2>8. 1 <= first + (i - m) /\ first + (i - m) <= end
    BY <1>2, <2>1
  <2>2. first + (i - m) \in 1..n
    BY <1>2, <2>1, <2>8
  <2>3. v.got[i] = all[first + (i - m)]
    BY <1>6
  <2>4. /\ v.got[i] \in Chosen(s, w.query, w.lo, w.hi) /\ v.got[i] \in Nat
        /\ R(v.got[i]) = first + (i - m)
    BY <1>3, <2>2, <2>3 DEF Takes, IsSelection, R
  <2>5. v.got[i] <= w.hi
    BY <1>1, <2>4 DEF Chosen
  <2> QED
    BY <2>4, <2>5, <2>7
<1> QED
  BY <1>5, <1>6, <1>7 DEF m, n, R

(* What a page adds comes after what the walk has got.                     *)
LEMMA PageInOrder ==
  ASSUME NEW w \in Walk, NEW v, NEW s, NEW all, NEW first, NEW end, Ordered(w, s),
         Takes(w, v, s, all, first, end)
  PROVE  Ordered(v, s)
<1> DEFINE R(i) == Rank(s, w.query, w.lo, i)
           m == Len(w.got)
           n == Len(all)
           new == end - first
<1>1. /\ w.lo \in Nat /\ w.hi \in Nat /\ w.offset \in Int /\ w.got \in Seq(Nat)
  BY DEF Walk
<1>2. /\ m \in Nat /\ n \in Nat /\ At(w) \in Nat /\ new \in Nat
      /\ first \in Nat /\ end \in Nat /\ first <= end /\ end <= n /\ new = end - first
      /\ first = IF At(w) < n THEN At(w) ELSE n
  BY <1>1 DEF At, Takes, IsSelection
<1>3. /\ v.lo = w.lo /\ v.hi = w.hi /\ v.query = w.query /\ At(v) = end
  <2>1. /\ v.lo = w.lo /\ v.hi = w.hi /\ v.query = w.query /\ v.offset = end
    BY DEF Takes, IsSelection, Walk
  <2> QED
    BY <1>2, <2>1 DEF At
<1>4. /\ v.got \in Seq(Nat) /\ Len(v.got) = m + new
      /\ \A i \in 1..m :
           /\ v.got[i] = w.got[i] /\ w.got[i] \in Nat /\ w.got[i] <= w.hi
           /\ R(w.got[i]) \in Nat /\ R(w.got[i]) <= At(w) /\ R(w.got[i]) <= n
      /\ \A i \in m + 1 .. m + new :
           /\ first = At(w) /\ v.got[i] \in Nat /\ v.got[i] <= w.hi
           /\ R(v.got[i]) = At(w) + (i - m)
  BY PageRanks
<1>5. DOMAIN w.got = 1..m /\ DOMAIN v.got = 1 .. m + new
  BY <1>1, <1>4
<1>6. \A i, j \in Nat : j <= i => R(j) <= R(i)
  <2> SUFFICES ASSUME NEW i \in Nat, NEW j \in Nat, j <= i
               PROVE  R(j) <= R(i)
    OBVIOUS
  <2> QED
    BY <1>1, RankGrows
<1>7. /\ \A i, j \in DOMAIN w.got : i < j => w.got[i] < w.got[j]
      /\ \A i \in DOMAIN w.got : w.got[i] # 0
  BY DEF Ordered
<1>10. R(0) = 0
  <2>1. Chosen(s, w.query, w.lo, 0) = {}
    BY <1>1 DEF Chosen
  <2> QED
    BY <2>1, FS_EmptySet DEF Rank
<1> HIDE DEF R, m, n, new
<1>8. ASSUME NEW i \in DOMAIN v.got
      PROVE  v.got[i] # 0 /\ v.got[i] <= v.hi /\ R(v.got[i]) <= At(v)
  <2>1. CASE i \in 1..m
    <3>1. /\ v.got[i] <= w.hi /\ R(v.got[i]) <= At(w) /\ R(v.got[i]) <= n
          /\ R(v.got[i]) \in Nat /\ v.got[i] # 0
      BY <1>4, <1>5, <1>7, <2>1
    <3>2. At(w) <= end \/ n <= end
      BY <1>2
    <3> QED
      BY <1>2, <1>3, <3>1, <3>2
  <2>2. CASE i \in m + 1 .. m + new
    <3>1. v.got[i] <= w.hi /\ R(v.got[i]) = At(w) + (i - m) /\ first = At(w)
      BY <1>4, <2>2
    <3>2. i \in Int /\ m + 1 <= i /\ i <= m + new
      BY <1>2, <2>2
    <3>3. R(v.got[i]) # 0
      BY <1>2, <3>1, <3>2
    <3> QED
      BY <1>2, <1>3, <1>10, <3>1, <3>2, <3>3
  <2> QED
    BY <1>2, <1>5, <2>1, <2>2
<1>9. ASSUME NEW i \in DOMAIN v.got, NEW j \in DOMAIN v.got, i < j
      PROVE  v.got[i] < v.got[j]
  <2>1. CASE j \in 1..m
    <3>1. i \in 1..m
      BY <1>2, <1>5, <1>9, <2>1
    <3> QED
      BY <1>4, <1>5, <1>7, <1>9, <2>1, <3>1
  <2>2. CASE j \in m + 1 .. m + new
    <3>4. v.got[j] \in Nat /\ R(v.got[j]) = At(w) + (j - m)
      BY <1>4, <2>2
    <3>5. j \in Int /\ m + 1 <= j
      BY <1>2, <2>2
    <3>1. /\ v.got[j] \in Nat /\ R(v.got[j]) = At(w) + (j - m) /\ j \in Int /\ m + 1 <= j
      BY <3>4, <3>5
    <3>2. v.got[i] \in Nat /\ R(v.got[i]) < R(v.got[j])
      <4>1. CASE i \in 1..m
        <5>1. v.got[i] \in Nat /\ R(v.got[i]) \in Nat /\ R(v.got[i]) <= At(w)
          BY <1>4, <4>1
        <5> QED
          BY <1>2, <3>1, <5>1
      <4>2. CASE i \in m + 1 .. m + new
        <5>1. v.got[i] \in Nat /\ R(v.got[i]) = At(w) + (i - m)
          BY <1>4, <4>2
        <5>2. i \in Int
          BY <4>2
        <5> QED
          BY <1>2, <1>9, <3>1, <5>1, <5>2
      <4> QED
        BY <1>2, <1>5, <4>1, <4>2
    <3>3. CASE v.got[j] <= v.got[i]
      <4>1. R(v.got[j]) <= R(v.got[i])
        BY <1>6, <3>1, <3>2, <3>3
      <4>2. R(v.got[j]) \in Nat /\ R(v.got[i]) \in Nat
        BY <1>1, <3>1, <3>2, RankFacts DEF R
      <4> QED
        BY <3>2, <4>1, <4>2
    <3> QED
      BY <3>1, <3>2, <3>3
  <2> QED
    BY <1>2, <1>5, <2>1, <2>2
<1> QED
  BY <1>3, <1>8, <1>9 DEF Ordered, R

(* While baseIndex stays, the page begins where the last one ended.        *)
LEMMA PageGapless ==
  ASSUME NEW w \in Walk, NEW v, NEW s, NEW all, NEW first, NEW end, Ordered(w, s),
         Gapless(w, s), w.pc = "get", Takes(w, v, s, all, first, end)
  PROVE  Gapless(v, s)
<1> DEFINE R(i) == Rank(s, w.query, w.lo, i)
           S == Chosen(s, w.query, w.lo, w.hi)
           m == Len(w.got)
           n == Len(all)
           new == end - first
<1>1. /\ w.lo \in Nat /\ w.hi \in Nat /\ w.offset \in Int /\ w.from \in Nat
      /\ w.got \in Seq(Nat)
  BY DEF Walk
<1>2. /\ m \in Nat /\ n \in Nat /\ At(w) \in Nat /\ new \in Nat
      /\ first \in Nat /\ end \in Nat /\ first <= end /\ end <= n /\ new = end - first
      /\ first = IF At(w) < n THEN At(w) ELSE n
  BY <1>1 DEF At, Takes, IsSelection
<1>3. /\ v.lo = w.lo /\ v.hi = w.hi /\ v.query = w.query /\ v.from = w.from /\ At(v) = end
      /\ v.pc = (IF end < n THEN "ask" ELSE "done")
  <2>1. /\ v.lo = w.lo /\ v.hi = w.hi /\ v.query = w.query /\ v.from = w.from
        /\ v.offset = end /\ v.pc = (IF end < n THEN "ask" ELSE "done")
    BY DEF Takes, IsSelection, Walk
  <2> QED
    BY <1>2, <2>1 DEF At
<1>4. /\ v.got \in Seq(Nat) /\ Len(v.got) = m + new
      /\ \A i \in 1..m : v.got[i] = w.got[i] /\ R(w.got[i]) <= n
      /\ \A i \in m + 1 .. m + new :
           v.got[i] \in S /\ R(v.got[i]) = At(w) + (i - m) /\ first = At(w)
  BY PageRanks
<1>5. DOMAIN w.got = 1..m /\ DOMAIN v.got = 1 .. m + new
  BY <1>1, <1>4
<1>6. /\ \A i \in 1..m : w.got[i] \in S /\ R(w.got[i]) = w.from + i
      /\ w.from + m = At(w)
  BY <1>5 DEF Gapless
<1>7. R(w.hi) = n
  BY DEF Takes, IsSelection
<1> HIDE DEF R, S, m, n, new
<1>8. ASSUME NEW i \in DOMAIN v.got
      PROVE  v.got[i] \in S /\ R(v.got[i]) = w.from + i
  <2>1. CASE i \in 1..m
    BY <1>4, <1>6, <2>1
  <2>2. CASE i \in m + 1 .. m + new
    <3>1. v.got[i] \in S /\ R(v.got[i]) = At(w) + (i - m)
      BY <1>4, <2>2
    <3>2. i \in Int
      BY <2>2
    <3> QED
      BY <1>1, <1>2, <1>6, <3>1, <3>2
  <2> QED
    BY <1>2, <1>5, <2>1, <2>2
<1>9. CASE At(w) <= n
  <2>5. Len(v.got) = m + new
    BY <1>4
  <2>6. first = At(w) /\ new = end - first /\ w.from + m = At(w)
    BY <1>2, <1>6, <1>9
  <2>1. w.from + Len(v.got) = end
    BY <1>1, <1>2, <2>5, <2>6
  <2>2. v.pc = "done" => end = n
    BY <1>2, <1>3
  <2>3. Len(v.got) = 0 => v.got = <<>>
    BY <1>4
  <2>4. v.pc = "done" => IF w.from < n THEN w.from + Len(v.got) = n ELSE v.got = <<>>
    BY <1>1, <1>2, <1>4, <2>1, <2>2, <2>3
  <2> QED
    BY <1>3, <1>7, <1>8, <2>1, <2>4 DEF Gapless, R, S
<1>10. CASE n < At(w)
  <2>1. first = n /\ end = n /\ new = 0 /\ v.pc = "done"
    BY <1>2, <1>3, <1>10
  <2>2. m = 0
    <3> SUFFICES ASSUME m # 0 PROVE FALSE
      OBVIOUS
    <3>2. m \in 1..m
      BY <1>2
    <3>1. R(w.got[m]) <= n /\ R(w.got[m]) = w.from + m
      BY <1>4, <1>6, <3>2
    <3> QED
      BY <1>1, <1>2, <1>6, <1>10, <3>1
  <2>3. v.got = <<>> /\ ~ (w.from < n)
    BY <1>1, <1>2, <1>4, <1>6, <1>10, <2>1, <2>2
  <2> QED
    BY <1>3, <1>7, <1>8, <2>1, <2>3 DEF Gapless, R, S
<1> QED
  BY <1>2, <1>9, <1>10

LEMMA WalksOn ==
  ASSUME NEW w \in Walk, NEW p \in {"ask", "done"}, NEW o \in Nat, NEW g \in Seq(Nat)
  PROVE  [w EXCEPT !.pc = p, !.offset = o, !.got = g] \in Walk
<1>1. ASSUME NEW u \in Walk, NEW q \in {"ask", "done"}
      PROVE  [u EXCEPT !.pc = q] \in Walk
  BY <1>1 DEF Walk
<1>2. ASSUME NEW u \in Walk
      PROVE  [u EXCEPT !.offset = o] \in Walk
  <2>1. o \in Int
    OBVIOUS
  <2>2. ASSUME NEW i \in Int
        PROVE  [u EXCEPT !.offset = i] \in Walk
    BY <2>2 DEF Walk
  <2> QED
    BY <2>1, <2>2
<1>3. ASSUME NEW u \in Walk
      PROVE  [u EXCEPT !.got = g] \in Walk
  BY <1>3 DEF Walk
<1>4. [[[w EXCEPT !.pc = p] EXCEPT !.offset = o] EXCEPT !.got = g] \in Walk
  BY <1>1, <1>2, <1>3
<1> QED
  BY <1>4

(* Every call that ends takes a page of what its query selects.            *)
LEMMA PageOfCall ==
  ASSUME WalkInv, Len(log) \in Nat, GetPage
  PROVE  \E all, first, end : Takes(walk, walk', log, all, first, end)
<1> DEFINE packets == Get(walk.lo, walk.hi - walk.lo)
           all == Selected(packets)
           first == Offset(walk.offset, Len(all))
           end == Least(first + Limit(walk.limit), Len(all))
<1>1. /\ walk \in Walk /\ walk.lo \in Nat /\ walk.hi \in Nat /\ walk.lo <= walk.hi
      /\ walk.hi <= Len(log) /\ walk.offset \in Int /\ walk.limit \in Int
  BY DEF WalkInv, Walk, GetPage
<1>2. packets = [i \in 1 .. walk.hi - walk.lo |-> walk.lo + i]
  BY <1>1, GetVisible
<1>3. walk' = [walk EXCEPT !.pc = IF end < Len(all) THEN "ask" ELSE "done",
                           !.offset = end,
                           !.got = walk.got \o SubSeq(all, first + 1, end)]
  BY DEF GetPage
<1> HIDE DEF packets
<1>4. IsSelection(all, log, walk.query, walk.lo, walk.hi)
  BY <1>1, <1>2, SelectedFacts
<1> HIDE DEF all
<1>5. Len(all) \in Nat
  BY <1>4 DEF IsSelection
<1>9. Bounded(first, end, walk.offset, Len(all))
  BY <1>1, <1>5, PageBounds
<1> HIDE DEF first, end
<1>6. /\ first \in Nat /\ end \in Nat /\ first <= end /\ end <= Len(all)
      /\ first = IF walk.offset < 0 THEN 0
                 ELSE IF walk.offset < Len(all) THEN walk.offset ELSE Len(all)
  BY <1>9 DEF Bounded
<1>7. first = IF At(walk) < Len(all) THEN At(walk) ELSE Len(all)
  BY <1>1, <1>5, <1>6 DEF At
<1>8. Takes(walk, walk', log, all, first, end)
  BY <1>3, <1>4, <1>6, <1>7 DEF Takes
<1> QED
  BY <1>8

LEMMA WalkStep == Inv /\ [Next]_vars => WalkInv'
<1> SUFFICES ASSUME Inv, [Next]_vars PROVE WalkInv'
  OBVIOUS
<1>1. /\ WalkInv /\ base \in Nat /\ base <= Len(log) /\ Extends(log', log)
      /\ Len(log) \in Nat /\ Len(log') \in Nat /\ Len(log) <= Len(log')
  BY LogGrows DEF Inv, HiddenInv, Extends
<1>2. walk \in Walk /\ walk.lo \in Nat /\ walk.hi \in Nat /\ walk.offset \in Int
  BY <1>1 DEF WalkInv, Walk
<1> USE DEF sourceVars, storeVars, parts, ownVars, sessVars
<1>3. CASE walk' = walk /\ base' \in Nat /\ base <= base'
  <2>1. Ordered(walk, log') /\ (walk.same => Gapless(walk, log'))
    BY <1>1, <1>2, WalkKept DEF WalkInv
  <2>2. walk.lo <= base' /\ walk.hi <= Len(log')
    BY <1>1, <1>2, <1>3 DEF WalkInv
  <2> QED
    BY <1>1, <1>3, <2>1, <2>2 DEF WalkInv
<1>4. CASE SetFilterDiscards \/ ClearPackets
  <2>1. walk' = walk /\ base' = Len(log)
    BY <1>4 DEF SetFilterDiscards, ClearPackets, Hide, Count
  <2> QED
    BY <1>1, <1>3, <2>1
<1>5. CASE walk' = walk /\ base' = base
  <2>1. base' \in Nat /\ base <= base'
    BY <1>1, <1>5
  <2> QED
    BY <1>3, <1>5, <2>1
<1>6. CASE Start \/ Stop \/ Packets
  BY <1>5, <1>6 DEF Start, Stop, StopBegin, StopSource, StopStore, StopReturns, Packets
<1>7. ASSUME NEW f \in SUBSET Entry, NEW d \in BOOLEAN, SetFilter(f, d) PROVE WalkInv'
  BY <1>5, <1>7 DEF SetFilter
<1>8. CASE Printer
  BY <1>5, <1>8 DEF Printer, PrintPoll, PrintPacket, PrintAdvances
(* The walk itself: the log and baseIndex stay.                            *)
<1>9. ASSUME NEW r \in Request, Ask(r) PROVE WalkInv'
  <2>1. /\ walk.pc = "idle" /\ log' = log /\ base' = base
        /\ walk' = [walk EXCEPT !.pc = "ask", !.query = r.query, !.limit = r.limit,
                                !.offset = r.offset, !.lo = base,
                                !.from = IF r.offset < 0 THEN 0 ELSE r.offset]
    BY <1>9 DEF Ask
  <2>2. r.query \in SUBSET Body /\ r.limit \in Int /\ r.offset \in Int
    BY ReadersAssumption
  <2>3. walk.got = <<>> /\ walk.hi <= Len(log)
    BY <1>1, <2>1 DEF WalkInv
  <2>8. base \in Nat /\ (IF r.offset < 0 THEN 0 ELSE r.offset) \in Nat
    BY <1>1, <2>2
  <2>4. walk' \in Walk
    BY <1>2, <2>1, <2>2, <2>8 DEF Walk
  <2>5. /\ walk'.got = <<>> /\ walk'.lo = base /\ walk'.hi = walk.hi /\ walk'.pc = "ask"
        /\ walk'.offset = r.offset /\ walk'.from = IF r.offset < 0 THEN 0 ELSE r.offset
    BY <1>2, <2>1, <2>3 DEF Walk
  <2>6. Ordered(walk', log)
    BY <2>5 DEF Ordered
  <2>7. Gapless(walk', log)
    <3>1. At(walk') = walk'.from /\ walk'.from \in Int
      BY <2>2, <2>5 DEF At
    <3>2. DOMAIN walk'.got = {} /\ walk'.from + Len(walk'.got) = At(walk')
      BY <2>5, <3>1
    <3> QED
      BY <2>5, <3>2 DEF Gapless
  <2> QED
    BY <1>1, <2>1, <2>3, <2>4, <2>5, <2>6, <2>7 DEF WalkInv
<1>10. CASE GetSnapshot
  <2>1. log' = log /\ base' = base /\ walk.pc = "ask"
    BY <1>10 DEF GetSnapshot
  <2>2. CASE walk' = [walk EXCEPT !.pc = "done", !.same = FALSE]
    <3>1. /\ walk' \in Walk /\ walk'.lo = walk.lo /\ walk'.hi = walk.hi /\ ~ walk'.same
          /\ walk'.query = walk.query /\ walk'.got = walk.got /\ walk'.from = walk.from
          /\ walk'.offset = walk.offset /\ walk'.pc = "done"
      BY <1>2, <2>2 DEF Walk
    <3>2. Ordered(walk', log)
      BY <1>1, <1>2, <3>1, NextCall DEF WalkInv
    <3> QED
      BY <1>1, <2>1, <3>1, <3>2 DEF WalkInv
  <2>3. CASE walk' = [walk EXCEPT !.pc = "count", !.lo = base,
                                  !.same = walk.same /\ walk.lo = base]
    <3>1. /\ walk' \in Walk /\ walk'.lo = base /\ walk'.hi = walk.hi
          /\ walk'.query = walk.query /\ walk'.got = walk.got /\ walk'.from = walk.from
          /\ walk'.offset = walk.offset /\ walk'.pc = "count"
          /\ walk'.same => walk.same /\ walk.lo = base
      BY <1>1, <1>2, <2>3 DEF Walk
    <3>2. walk.lo <= base
      BY <1>1 DEF WalkInv
    <3>3. Ordered(walk', log) /\ (walk'.same => Gapless(walk', log))
      BY <1>1, <1>2, <2>1, <3>1, <3>2, NextCall DEF WalkInv
    <3> QED
      BY <1>1, <2>1, <3>1, <3>3 DEF WalkInv
  <2> QED
    BY <1>10, <2>2, <2>3 DEF GetSnapshot
<1>11. CASE GetCount
  <2>1. /\ log' = log /\ base' = base /\ walk.pc = "count"
        /\ walk' = [walk EXCEPT !.pc = "get", !.hi = Len(log)]
    BY <1>11 DEF GetCount, Count
  <2>2. /\ walk' \in Walk /\ walk'.lo = walk.lo /\ walk'.hi = Len(log)
        /\ walk'.query = walk.query /\ walk'.got = walk.got /\ walk'.from = walk.from
        /\ walk'.offset = walk.offset /\ walk'.pc = "get" /\ walk'.same = walk.same
    BY <1>1, <1>2, <2>1 DEF Walk
  <2>3. walk.lo <= base /\ walk.hi <= Len(log) /\ walk.lo <= Len(log)
    BY <1>1, <1>2 DEF WalkInv
  <2>5. Ordered(walk, log) /\ (walk.same => Gapless(walk, log))
    BY <1>1 DEF WalkInv
  <2>6. walk.lo <= walk'.lo /\ walk.hi <= walk'.hi
    BY <1>2, <2>2, <2>3
  <2>4. Ordered(walk', log) /\ (walk'.same => Gapless(walk', log))
    BY <1>2, <2>1, <2>2, <2>5, <2>6, NextCall
  <2> QED
    BY <1>1, <2>1, <2>2, <2>3, <2>4 DEF WalkInv
<1>12. CASE GetPage
  <2>1. log' = log /\ base' = base /\ walk.pc = "get"
    BY <1>12 DEF GetPage
  <2>2. PICK all, first, end : Takes(walk, walk', log, all, first, end)
    BY <1>1, <1>12, PageOfCall
  <2>3. Ordered(walk', log)
    BY <1>1, <1>2, <2>2, PageInOrder DEF WalkInv
  <2>4. walk.same => Gapless(walk', log)
    BY <1>1, <1>2, <2>1, <2>2, PageGapless DEF WalkInv
  <2>5. walk'.got \in Seq(Nat) /\ end \in Nat
    BY <1>1, <1>2, <2>2, PageRanks DEF WalkInv, Takes
  <2>6. /\ walk'.lo = walk.lo /\ walk'.hi = walk.hi /\ walk'.same = walk.same
        /\ walk'.pc \in {"ask", "done"}
    BY <1>2, <2>2 DEF Takes, Walk
  <2>7. walk' \in Walk
    <3>1. \E p \in {"ask", "done"} : \E g :
            walk' = [walk EXCEPT !.pc = p, !.offset = end, !.got = g]
      BY <2>2 DEF Takes
    <3>2. PICK p \in {"ask", "done"} : \E g :
            walk' = [walk EXCEPT !.pc = p, !.offset = end, !.got = g]
      BY <3>1
    <3>3. PICK g : walk' = [walk EXCEPT !.pc = p, !.offset = end, !.got = g]
      BY <3>2
    <3>4. g \in Seq(Nat)
      BY <1>2, <2>5, <3>3 DEF Walk
    <3> QED
      BY <1>2, <2>5, <3>2, <3>4, <3>3, WalksOn
  <2> QED
    BY <1>1, <2>1, <2>3, <2>4, <2>6, <2>7 DEF WalkInv
<1>13. CASE UNCHANGED vars
  BY <1>5, <1>13 DEF vars
<1> QED
  BY <1>4, <1>6, <1>7, <1>8, <1>9, <1>10, <1>11, <1>12, <1>13 DEF Next, GetPackets

LEMMA KindStep == Inv /\ [Next]_vars => KindInv'
<1> SUFFICES ASSUME Inv, [Next]_vars PROVE KindInv'
  OBVIOUS
<1>1. KindInv /\ Len(log) \in Nat /\ base \in Nat
  BY LogGrows DEF Inv, HiddenInv
<1> USE DEF KindInv, ownVars, sessVars
<1>2. CASE UNCHANGED <<cli, total, discard, fresh>>
  BY <1>1, <1>2
<1>3. CASE Start \/ Stop \/ Packets
  BY <1>1, <1>3 DEF Start, Stop, StopBegin, StopSource, StopStore, StopReturns, Packets, Count
<1>4. ASSUME NEW f \in SUBSET Entry, NEW d \in BOOLEAN, SetFilter(f, d) PROVE KindInv'
  BY <1>1, <1>4 DEF SetFilter
<1>5. CASE SetFilterDiscards \/ ClearPackets
  BY <1>1, <1>5 DEF SetFilterDiscards, ClearPackets, Hide
<1>6. CASE GetPackets \/ Printer \/ \E r \in Request : Ask(r)
  BY <1>2, <1>6 DEF Ask, GetPackets, GetSnapshot, GetCount, GetPage, Printer, PrintPoll,
     PrintPacket, PrintAdvances
<1>7. CASE UNCHANGED vars
  BY <1>2, <1>7 DEF vars
<1> QED
  BY <1>3, <1>4, <1>5, <1>6, <1>7 DEF Next

-----------------------------------------------------------------------------
LEMMA InvInit == Init => Inv
<1> SUFFICES ASSUME Init PROVE Inv
  OBVIOUS
<1>1. StoP!Init
  BY DEF Init, Sto!Init, StoP!Init
<1>2. StoP!TypeInv
  BY <1>1, StoAssumptions, StoP!TypeInit
<1>3. StoreInv
  <2>1. StoP!StrayInv
    BY <1>1, <1>2 DEF StoP!Init, StoP!StrayInv, StoP!OnlyFirstMayStray
  <2>2. StoP!OrderInv
    BY <1>1, <1>2 DEF StoP!Init, StoP!OrderInv, StoP!Rising, StoP!Holding
  <2> QED
    BY <2>1, <2>2 DEF StoreInv
<1>4. HiddenInv /\ OwnInv
  BY DEF Init, Sto!Init, HiddenInv, OwnInv
<1>5. PrintInv
  BY DEF Init, Sto!Init, PrintInv
<1>6. KindInv
  <2>1. total \in Int
    BY DEF Init
  <2> QED
    BY <2>1, Zenon DEF Init, KindInv
<1>7. WalkInv
  <2>1. /\ walk = [pc |-> "idle", query |-> {}, limit |-> 0, offset |-> 0, lo |-> 0,
                   hi |-> 0, got |-> <<>>, from |-> 0, same |-> TRUE]
        /\ base = 0 /\ Len(log) \in Nat
    BY DEF Init, Sto!Init
  <2>2. walk \in Walk
    BY <2>1 DEF Walk
  <2>3. Ordered(walk, log)
    BY <2>1 DEF Ordered
  <2>4. Gapless(walk, log)
    BY <2>1 DEF Gapless, At
  <2> QED
    BY <2>1, <2>2, <2>3, <2>4 DEF WalkInv
<1> QED
  BY <1>3, <1>4, <1>5, <1>6, <1>7 DEF Inv

LEMMA Invariance == Spec => []Inv
<1>1. Inv /\ [Next]_vars => Inv'
  BY StoreStep, OwnStep, HiddenStep, PrintStep, WalkStep, KindStep DEF Inv
<1> QED
  BY <1>1, InvInit, PTL DEF Spec

-----------------------------------------------------------------------------
(* After a clear, or a filter change that discards, what a client sees     *)
(* passes the filter, but for the one packet that was judged while the     *)
(* filter changed, whatever the consumer and the client do meanwhile.      *)
THEOREM DiscardHides == Spec => []VisiblePasses
<1>1. Inv => VisiblePasses
  <2> SUFFICES ASSUME Inv, fresh, NEW i \in DOMAIN log, i > base + 1
               PROVE  Sto!Admitted(filter, log[i].body)
    BY DEF VisiblePasses
  <2>1. /\ log \in Seq(StoP!Item) /\ mark \in Nat /\ base \in Nat /\ mark <= base
        /\ StoP!OnlyFirstMayStray
    BY DEF Inv, StoreInv, HiddenInv, StoP!StrayInv, StoP!TypeInv, StoP!TypeOK
  <2>2. i \in Nat /\ i > mark + 1
    BY <2>1
  <2> QED
    BY <2>1, <2>2, SameAdmitted DEF StoP!OnlyFirstMayStray
<1> QED
  BY <1>1, Invariance, PTL

(* The command line prints the stored packets in order and none twice, and *)
(* reports their final number, although packets are stored while it prints *)
(* and the program ends in the middle of a page.                           *)
THEOREM PrintedInOrder == Spec => []PrintsTheLog
<1>1. Inv => PrintsTheLog
  <2> SUFFICES ASSUME Inv PROVE PrintsTheLog
    OBVIOUS
  <2>1. PrintInv /\ Len(log) \in Nat
    BY DEF Inv, StoreInv, StoP!StrayInv, StoP!TypeInv, StoP!TypeOK
  <2>2. Len(page) \in Nat /\ Len(out) <= Len(log)
    BY <2>1 DEF PrintInv
  <2>3. out = [i \in 1 .. Len(out) |-> i]
    <3>1. out \in Seq(Nat) /\ \A i \in DOMAIN out : out[i] = i
      BY <2>1 DEF PrintInv
    <3>2. DOMAIN out = 1 .. Len(out) /\ out = [i \in DOMAIN out |-> out[i]]
      BY <3>1
    <3> QED
      BY <3>1, <3>2
  <2> QED
    BY <2>1, <2>2, <2>3 DEF PrintsTheLog, PrintInv, Count
<1> QED
  BY <1>1, Invariance, PTL

(* The store keeps its types among its readers, and every page, offset and *)
(* answer is what its name says, for every request and every size.         *)
THEOREM TypeCorrect == Spec => []TypeOK
<1>1. Inv => TypeOK
  <2> SUFFICES ASSUME Inv PROVE TypeOK
    OBVIOUS
  <2>1. Sto!TypeOK
    BY DEF Inv, StoreInv, StoP!StrayInv, StoP!TypeInv, StoP!TypeOK, Sto!TypeOK, StoP!Item,
       Sto!Item
  <2>2. PrintInv /\ shown \in 0..Len(page)
    BY DEF Inv, PrintInv
  <2> QED
    BY <2>1, <2>2 DEF TypeOK, Inv, KindInv, OwnInv, HiddenInv, PrintInv, WalkInv
<1> QED
  BY <1>1, Invariance, PTL

(* A client that pages through the packets gets none twice and none out of *)
(* order, whatever is stored, cleared and filtered between and during its  *)
(* calls, and none is missing while baseIndex stays where it is, for every *)
(* query, offset and limit.                                                *)
THEOREM PagesInOrder == Spec => []PagesFit
<1>1. Inv => PagesFit
  <2> SUFFICES ASSUME Inv PROVE PagesFit
    OBVIOUS
  <2>1. WalkInv /\ walk.lo \in Nat /\ walk.hi \in Nat /\ walk.from \in Nat
        /\ walk.got \in Seq(Nat)
    BY DEF Inv, WalkInv, Walk
  <2>2. \A i, j \in DOMAIN walk.got : i < j => walk.got[i] < walk.got[j]
    BY <2>1 DEF WalkInv, Ordered
  <2>3. ASSUME walk.pc = "done", walk.same,
               NEW packets, packets = [i \in 1 .. walk.hi - walk.lo |-> walk.lo + i],
               NEW all, all = Selected(packets)
        PROVE  walk.got = SubSeq(all, walk.from + 1, Len(all))
    <3> DEFINE n == Rank(log, walk.query, walk.lo, walk.hi)
               S == Chosen(log, walk.query, walk.lo, walk.hi)
    <3>8. IsSelection(all, log, walk.query, walk.lo, walk.hi)
      BY <2>1, <2>3, SelectedFacts
    <3>1. /\ all \in Seq(Nat) /\ Len(all) = n
          /\ \A i \in S : all[Rank(log, walk.query, walk.lo, i)] = i
      BY <3>8 DEF IsSelection
    <3>2. Gapless(walk, log)
      BY <2>1, <2>3 DEF WalkInv
    <3>3. \A i \in DOMAIN walk.got : walk.got[i] = all[walk.from + i]
      BY <3>1, <3>2 DEF Gapless
    <3>4. IF walk.from < n THEN walk.from + Len(walk.got) = n ELSE walk.got = <<>>
      BY <2>3, <3>2 DEF Gapless
    <3> HIDE DEF n, S
    <3>5. n \in Nat
      BY <3>1
    <3> DEFINE rest == Taken(all, walk.from, n)
    <3>6. CASE walk.from < n
      <4>1. rest \in Seq(Nat) /\ Len(rest) = n - walk.from
            /\ \A i \in 1 .. n - walk.from : rest[i] = all[walk.from + i]
        <5>1. walk.from <= n /\ n <= Len(all)
          BY <2>1, <3>1, <3>5, <3>6
        <5> QED
          BY <2>1, <3>1, <3>5, <5>1, TakenFacts
      <4>2. Len(walk.got) = n - walk.from
        BY <2>1, <3>4, <3>5, <3>6
      <4>3. DOMAIN walk.got = 1 .. n - walk.from
        BY <2>1, <4>2
      <4> HIDE DEF rest
      <4>4. walk.got = rest
        <5>1. n - walk.from \in Nat
          BY <2>1, <3>5, <3>6
        <5>2. \A i \in 1 .. n - walk.from : walk.got[i] = rest[i]
          BY <3>3, <4>1, <4>3
        <5> HIDE DEF n
        <5> QED
          BY <2>1, <4>1, <4>2, <5>1, <5>2, SameSequence
      <4> QED
        BY <3>1, <4>4 DEF rest, Taken
    <3>7. CASE ~ (walk.from < n)
      <4>1. rest = <<>>
        BY <2>1, <3>1, <3>5, <3>7 DEF Taken
      <4> QED
        BY <3>1, <3>4, <3>7, <4>1 DEF Taken
    <3> QED
      BY <3>6, <3>7
  <2> QED
    BY <2>2, <2>3 DEF PagesFit
<1> QED
  BY <1>1, Invariance, PTL

-----------------------------------------------------------------------------
(* From the dongle to the reader: what is printed, and what a client that  *)
(* pages has got, is in the order in which the dongle delivered it, with   *)
(* no packet twice, although the channel loses packets while it is full    *)
(* and the filter, baseIndex and the log change under the readers.         *)
DongleOrder(indices) ==
  \A i, j \in DOMAIN indices :
    i < j => /\ {indices[i], indices[j]} \subseteq DOMAIN log
             /\ log[indices[i]].n < log[indices[j]].n

THEOREM ReadInOrder == Spec => [](DongleOrder(out) /\ DongleOrder(walk.got))
<1>1. ASSUME Inv, NEW s \in Seq(Nat), \A i \in DOMAIN s : s[i] \in DOMAIN log,
             \A i, j \in DOMAIN s : i < j => s[i] < s[j]
      PROVE  DongleOrder(s)
  <2>1. \A i, j \in DOMAIN log : i < j => log[i].n < log[j].n
    BY <1>1 DEF Inv, StoreInv, StoP!OrderInv, StoP!Rising
  <2> QED
    BY <1>1, <2>1 DEF DongleOrder
<1>2. ASSUME Inv PROVE DongleOrder(out)
  <2>1. PrintInv /\ Len(log) \in Nat /\ DOMAIN log = 1 .. Len(log)
    BY <1>2 DEF Inv, StoreInv, StoP!StrayInv, StoP!TypeInv, StoP!TypeOK
  <2>2. /\ out \in Seq(Nat) /\ Len(out) <= Len(log) /\ \A i \in DOMAIN out : out[i] = i
        /\ DOMAIN out = 1 .. Len(out)
    BY <2>1 DEF PrintInv
  <2>3. \A i \in DOMAIN out : out[i] \in DOMAIN log
    BY <2>1, <2>2
  <2> QED
    BY <1>1, <1>2, <2>2, <2>3
<1>3. ASSUME Inv PROVE DongleOrder(walk.got)
  <2>1. WalkInv /\ walk \in Walk /\ Len(log) \in Nat /\ DOMAIN log = 1 .. Len(log)
    BY <1>3 DEF Inv, WalkInv, StoreInv, StoP!StrayInv, StoP!TypeInv, StoP!TypeOK
  <2>2. walk.got \in Seq(Nat) /\ walk.hi \in Nat /\ walk.hi <= Len(log)
    BY <2>1 DEF Walk, WalkInv
  <2>3. /\ \A i, j \in DOMAIN walk.got : i < j => walk.got[i] < walk.got[j]
        /\ \A i \in DOMAIN walk.got : walk.got[i] # 0 /\ walk.got[i] <= walk.hi
    BY <2>1 DEF WalkInv, Ordered
  <2>4. \A i \in DOMAIN walk.got : walk.got[i] \in DOMAIN log
    BY <2>1, <2>2, <2>3
  <2> QED
    BY <1>1, <1>3, <2>2, <2>3, <2>4
<1> QED
  BY <1>2, <1>3, Invariance, PTL

-----------------------------------------------------------------------------
(***************************************************************************)
(* The log that the readers meet is the one that CaptureLog promises.      *)
(***************************************************************************)
Phase == CASE owner = "new" -> "off"
           [] owner \in {"on", "stopping", "waiting"} -> "on"
           [] owner = "off" -> "over"

Promised == INSTANCE CaptureLog WITH phase <- Phase

LEMMA AppendIsStore ==
  ASSUME Inv, Packets, log' # log
  PROVE  Promised!Store
<1>1. Sto!AppendPacket /\ UNCHANGED owner
  BY DEF Packets, Sto!Consume, Sto!Recv, Sto!ConsumerExit, Sto!Process, storeVars, ownVars
<1>2. /\ con = "append" /\ log' = Append(log, cur)
  BY <1>1 DEF Sto!AppendPacket
<1>3. /\ log \in Seq(StoP!Item) /\ cur \in StoP!Item
      /\ \A i \in DOMAIN log : log[i].n < cur.n
  BY <1>2 DEF Inv, StoreInv, StoP!StrayInv, StoP!TypeInv, StoP!TypeOK, StoP!OrderInv,
     StoP!HeldIsItem, StoP!Holding
<1>4. Len(log') = Len(log) + 1 /\ log'[Len(log')] = cur /\ Len(log) \in Nat
  BY <1>2, <1>3
<1>5. log # <<>> => Len(log) \in DOMAIN log
  BY <1>3
<1>6. cur \in Promised!Item
  BY <1>3 DEF StoP!Item, Promised!Item
<1>7. Phase = "on" /\ Phase' = Phase
  BY <1>1, <1>2 DEF Phase, Inv, OwnInv
<1> QED
  BY <1>2, <1>3, <1>4, <1>5, <1>6, <1>7 DEF Promised!Store

LEMMA OwnerMoves ==
  ASSUME Inv, Next
  PROVE  \/ owner' = owner
         \/ owner = "new" /\ owner' = "on" /\ UNCHANGED log
         \/ owner \in {"on", "stopping"} /\ owner' \in {"stopping", "waiting"} /\ UNCHANGED log
         \/ owner = "waiting" /\ owner' = "off" /\ UNCHANGED log
<1> USE DEF sourceVars, storeVars, ownVars
<1>1. CASE Start
  BY <1>1 DEF Start, Sto!StartConsumer
<1>2. CASE Stop
  <2>1. UNCHANGED parts => UNCHANGED log
    BY DEF parts
  <2> QED
    BY <1>2, <2>1 DEF Stop, StopBegin, StopSource, StopStore, StopReturns, Sto!CloseStop
<1>3. CASE Packets
  BY <1>3 DEF Packets
<1>4. ASSUME NEW f \in SUBSET Entry, NEW d \in BOOLEAN, SetFilter(f, d)
      PROVE  owner' = owner
  BY <1>4 DEF SetFilter
<1>5. CASE SetFilterDiscards \/ ClearPackets \/ GetPackets \/ Printer
           \/ \E r \in Request : Ask(r)
  BY <1>5 DEF SetFilterDiscards, ClearPackets, Hide, Ask, GetPackets, GetSnapshot,
     GetCount, GetPage, Printer, PrintPoll, PrintPacket, PrintAdvances
<1> QED
  BY <1>1, <1>2, <1>3, <1>4, <1>5 DEF Next

LEMMA LogSimulation == Inv /\ [Next]_vars => [Promised!Next]_<<Phase, log>>
<1> SUFFICES ASSUME Inv, [Next]_vars PROVE [Promised!Next]_<<Phase, log>>
  OBVIOUS
<1>1. CASE log' # log
  BY <1>1, LogGrows, AppendIsStore DEF Promised!Next
<1>2. CASE UNCHANGED <<log, owner>>
  BY <1>2 DEF Phase
<1>3. CASE Next /\ log' = log /\ owner' # owner
  <2>1. CASE owner = "new" /\ owner' = "on"
    BY <1>3, <2>1 DEF Phase, Promised!Next, Promised!Begin
  <2>2. CASE owner \in {"on", "stopping"} /\ owner' \in {"stopping", "waiting"}
    BY <1>3, <2>2 DEF Phase
  <2>3. CASE owner = "waiting" /\ owner' = "off"
    BY <1>3, <2>3 DEF Phase, Promised!Next, Promised!Finish
  <2> QED
    BY <1>3, <2>1, <2>2, <2>3, OwnerMoves
<1>4. CASE UNCHANGED vars
  BY <1>2, <1>4 DEF vars, parts, storeVars, ownVars
<1> QED
  BY <1>1, <1>2, <1>3, <1>4

(* What the readers are checked against is what Capture is proved to       *)
(* deliver: a log that only grows, by later packets, between the start and *)
(* the return of Stop, with every reader and filter change in between.     *)
THEOREM ReadsAPromisedLog == Spec => Promised!Spec
<1>1. Init => Promised!Init
  BY DEF Init, Sto!Init, Promised!Init, Phase
<1> QED
  BY <1>1, InvInit, Invariance, LogSimulation, PTL DEF Spec, Promised!Spec
=============================================================================
