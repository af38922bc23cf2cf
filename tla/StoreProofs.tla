---------------------------- MODULE StoreProofs ----------------------------
(***************************************************************************)
(* Proofs about Store for every set of addresses, filter entries and       *)
(* packet bodies, every channel capacity and any number of packets.        *)
(***************************************************************************)
EXTENDS Store, TLAPS

(* The consumer holds a packet between its receive and its append.         *)
Holding == con \in {"process", "append"}
HeldIsItem == Holding => cur \in Item

USE DEF Holding

(***************************************************************************)
(* Type correctness. TypeOK is not inductive: cur is NoItem until the      *)
(* first receive, and an append needs it to be a packet.                   *)
(***************************************************************************)
TypeInv == TypeOK /\ HeldIsItem

LEMMA TypeInit == Init => TypeInv
<1> SUFFICES ASSUME Init PROVE TypeInv
  OBVIOUS
<1>1. chan \in Seq(Item) /\ Len(chan) <= ChanSize /\ log \in Seq(Item)
  BY SizeAssumption DEF Init
<1>2. emitted \in Nat /\ mark \in Nat
  BY DEF Init
<1>3. cur \in Item \cup {NoItem} /\ filter \in SUBSET Entry
  BY DEF Init
<1>4. con = "none" /\ {chanClosed, storeStop, seenExt, panic} \subseteq BOOLEAN
  BY DEF Init
<1> QED
  BY <1>1, <1>2, <1>3, <1>4 DEF TypeInv, TypeOK, HeldIsItem

LEMMA TypeStep == TypeInv /\ [Next]_vars => TypeInv'
<1> SUFFICES ASSUME TypeInv, [Next]_vars PROVE TypeInv'
  OBVIOUS
<1> USE DEF TypeInv, TypeOK, HeldIsItem
<1>1. CASE StartConsumer /\ UNCHANGED <<chan, chanClosed, emitted, panic>>
  BY <1>1 DEF StartConsumer
<1>2. CASE Recv /\ UNCHANGED <<chanClosed, emitted, panic>>
  <2>1. chan' \in Seq(Item) /\ Len(chan') <= ChanSize /\ cur' \in Item
    BY <1>2, SizeAssumption DEF Recv
  <2> QED
    BY <1>2, <2>1 DEF Recv
<1>3. CASE ConsumerExit /\ UNCHANGED <<chanClosed, emitted, panic>>
  BY <1>3 DEF ConsumerExit
<1>4. CASE Process /\ UNCHANGED <<chanClosed, emitted, panic>>
  BY <1>4 DEF Process
<1>5. CASE AppendPacket /\ UNCHANGED <<chanClosed, emitted, panic>>
  BY <1>5 DEF AppendPacket, IsExtAdv
<1>6. ASSUME NEW f \in SUBSET Entry, SetFilter(f),
             UNCHANGED <<chan, chanClosed, emitted, panic>>
      PROVE  TypeInv'
  BY <1>6 DEF SetFilter
<1>7. CASE CloseStop /\ UNCHANGED <<chan, chanClosed, emitted>>
  BY <1>7 DEF CloseStop
<1>8. ASSUME NEW b \in Body, Produce(b), UNCHANGED <<chanClosed, panic, storeVars>>
      PROVE  TypeInv'
  <2>1. [n |-> emitted + 1, body |-> b] \in Item
    BY DEF Item
  <2>2. chan' \in Seq(Item) /\ Len(chan') <= ChanSize
    BY <1>8, <2>1, SizeAssumption DEF Produce
  <2> QED
    BY <1>8, <2>2 DEF Produce, storeVars
<1>9. CASE CloseSource /\ UNCHANGED <<chan, emitted, panic, storeVars>>
  BY <1>9 DEF CloseSource, storeVars
<1>10. CASE UNCHANGED vars
  BY <1>10 DEF vars, storeVars
<1> QED
  BY <1>1, <1>2, <1>3, <1>4, <1>5, <1>6, <1>7, <1>8, <1>9, <1>10 DEF Next, Consume

(* In every reachable state of the store each variable has its type, and a *)
(* consumer that is about to judge or append a packet holds one.           *)
THEOREM TypeCorrect == Spec => [](TypeOK /\ HeldIsItem)
<1>1. TypeInv => TypeOK /\ HeldIsItem
  BY DEF TypeInv
<1> QED
  BY <1>1, TypeInit, TypeStep, PTL DEF Spec

-----------------------------------------------------------------------------
(***************************************************************************)
(* A filter change. The packet the consumer is about to append was judged  *)
(* under the filter of that moment: if that is no longer the current one,  *)
(* nothing has been appended since it was replaced.                        *)
(***************************************************************************)
StrayInv ==
  /\ TypeInv
  /\ mark <= Len(log)
  /\ con = "append" => Admitted(filter, cur.body) \/ mark = Len(log)
  /\ OnlyFirstMayStray

LEMMA StrayStep == StrayInv /\ [Next]_vars => StrayInv'
<1> SUFFICES ASSUME StrayInv, [Next]_vars PROVE StrayInv'
  OBVIOUS
<1>t. TypeInv'
  BY TypeStep DEF StrayInv
<1>s. log \in Seq(Item)
  BY DEF StrayInv, TypeInv, TypeOK
<1>1. CASE AppendPacket
  <2>1. cur \in Item /\ mark \in Nat /\ filter' = filter /\ mark' = mark
    BY <1>1 DEF AppendPacket, StrayInv, TypeInv, TypeOK, HeldIsItem
  <2>2. Len(log') = Len(log) + 1 /\ DOMAIN log' = 1 .. Len(log) + 1
    BY <1>1, <1>s, <2>1 DEF AppendPacket
  <2>3. ASSUME NEW i \in DOMAIN log', i > mark + 1
        PROVE  Admitted(filter, log'[i].body)
    <3>1. CASE i = Len(log) + 1
      <4>1. log'[i] = cur /\ mark # Len(log)
        BY <1>1, <1>s, <2>1, <2>3, <3>1 DEF AppendPacket
      <4> QED
        BY <1>1, <4>1 DEF AppendPacket, StrayInv
    <3>2. CASE i # Len(log) + 1
      <4>1. i \in DOMAIN log /\ log'[i] = log[i]
        BY <1>1, <1>s, <2>1, <2>2, <3>2 DEF AppendPacket
      <4> QED
        BY <2>3, <4>1 DEF StrayInv, OnlyFirstMayStray
    <3> QED
      BY <3>1, <3>2
  <2>4. OnlyFirstMayStray'
    BY <2>1, <2>3 DEF OnlyFirstMayStray
  <2> QED
    BY <1>1, <1>t, <1>s, <2>1, <2>2, <2>4 DEF AppendPacket, StrayInv
<1>2. ASSUME NEW f \in SUBSET Entry, SetFilter(f) PROVE StrayInv'
  <2>1. mark' = Len(log) /\ log' = log /\ Len(log) \in Nat
    BY <1>2, <1>s DEF SetFilter
  <2>2. OnlyFirstMayStray'
    BY <1>s, <2>1 DEF OnlyFirstMayStray
  <2> QED
    BY <1>t, <2>1, <2>2 DEF StrayInv
<1>3. CASE Process /\ UNCHANGED <<chanClosed, emitted, panic>>
  BY <1>3, <1>t DEF Process, StrayInv, OnlyFirstMayStray
<1>4. CASE UNCHANGED <<log, mark, filter>> /\ con' # "append"
  BY <1>4, <1>t DEF StrayInv, OnlyFirstMayStray
<1>5. CASE UNCHANGED storeVars
  BY <1>5, <1>t DEF StrayInv, OnlyFirstMayStray, storeVars
<1>6. CASE CloseStop /\ UNCHANGED <<chan, chanClosed, emitted>>
  BY <1>6, <1>t DEF CloseStop, StrayInv, OnlyFirstMayStray
<1> QED
  BY <1>1, <1>2, <1>3, <1>4, <1>5, <1>6
     DEF Next, Consume, StartConsumer, Recv, ConsumerExit, Produce, CloseSource,
         vars, storeVars

(* Once a filter has been installed, at most the first packet stored after *)
(* it can be one the filter rejects, whatever the channel's size, the      *)
(* filters and the moment of the change.                                   *)
THEOREM StrayBounded == Spec => []OnlyFirstMayStray
<1>1. Init => StrayInv
  BY TypeInit DEF Init, StrayInv, OnlyFirstMayStray
<1>2. StrayInv => OnlyFirstMayStray
  BY DEF StrayInv
<1> QED
  BY <1>1, <1>2, StrayStep, PTL DEF Spec

-----------------------------------------------------------------------------
(***************************************************************************)
(* The auto-tuner's evidence.                                              *)
(***************************************************************************)
ExtInv == TypeInv /\ SeenExtExact

LEMMA ExtStep == ExtInv /\ [Next]_vars => ExtInv'
<1> SUFFICES ASSUME ExtInv, [Next]_vars PROVE ExtInv'
  OBVIOUS
<1>t. TypeInv'
  BY TypeStep DEF ExtInv
<1>1. CASE AppendPacket
  <2>1. cur \in Item /\ log \in Seq(Item)
    BY <1>1 DEF AppendPacket, ExtInv, TypeInv, TypeOK, HeldIsItem
  <2>2. /\ DOMAIN log' = DOMAIN log \cup {Len(log) + 1}
        /\ log'[Len(log) + 1] = cur
        /\ \A i \in DOMAIN log : log'[i] = log[i]
    BY <1>1, <2>1 DEF AppendPacket
  <2>3. (\E i \in DOMAIN log' : IsExtAdv(log'[i].body))
          <=> (\E i \in DOMAIN log : IsExtAdv(log[i].body)) \/ IsExtAdv(cur.body)
    BY <2>2
  <2>4. seenExt' <=> seenExt \/ IsExtAdv(cur.body)
    BY <1>1 DEF AppendPacket
  <2> QED
    BY <1>t, <2>3, <2>4 DEF ExtInv, SeenExtExact
<1>2. CASE UNCHANGED <<log, seenExt>>
  BY <1>2, <1>t DEF ExtInv, SeenExtExact
<1> QED
  BY <1>1, <1>2
     DEF Next, Consume, StartConsumer, Recv, ConsumerExit, Process, SetFilter,
         CloseStop, Produce, CloseSource, vars, storeVars

(* HasExtendedAdv answers true exactly when an extended advertising packet *)
(* is in the store, however the filter has changed since.                  *)
THEOREM EvidenceExact == Spec => []SeenExtExact
<1>1. Init => ExtInv
  BY TypeInit DEF Init, ExtInv, SeenExtExact
<1>2. ExtInv => SeenExtExact
  BY DEF ExtInv
<1> QED
  BY <1>1, <1>2, ExtStep, PTL DEF Spec

-----------------------------------------------------------------------------
(***************************************************************************)
(* The order of the log. The log, the packet held and the channel hold     *)
(* ever later packets, the last of them no later than the last decoded.    *)
(***************************************************************************)
Rising(s) == \A i, j \in DOMAIN s : i < j => s[i].n < s[j].n

OrderInv ==
  /\ TypeInv
  /\ Rising(log)
  /\ Rising(chan)
  /\ \A i \in DOMAIN log, j \in DOMAIN chan : log[i].n < chan[j].n
  /\ Holding => /\ \A i \in DOMAIN log : log[i].n < cur.n
                /\ \A j \in DOMAIN chan : cur.n < chan[j].n
                /\ cur.n <= emitted
  /\ \A i \in DOMAIN log : log[i].n <= emitted
  /\ \A j \in DOMAIN chan : chan[j].n <= emitted

(* A later packet at the end of a rising sequence keeps it rising.         *)
LEMMA RisingAppend ==
  ASSUME NEW s \in Seq(Item), NEW e \in Item, Rising(s),
         \A i \in DOMAIN s : s[i].n < e.n
  PROVE  /\ Rising(Append(s, e))
         /\ \A i \in DOMAIN Append(s, e) :
              (i \in DOMAIN s /\ Append(s, e)[i] = s[i]) \/ Append(s, e)[i] = e
<1> DEFINE t == Append(s, e)
<1>1. DOMAIN t = 1 .. Len(s) + 1 /\ DOMAIN s = 1 .. Len(s) /\ Len(s) \in Nat
  OBVIOUS
<1>2. t[Len(s) + 1] = e /\ \A i \in DOMAIN s : t[i] = s[i]
  OBVIOUS
<1> HIDE DEF t
<1>3. ASSUME NEW i \in DOMAIN t, NEW j \in DOMAIN t, i < j
      PROVE  t[i].n < t[j].n
  <2>1. i \in DOMAIN s /\ t[i] = s[i]
    BY <1>1, <1>2, <1>3
  <2>2. CASE j = Len(s) + 1
    BY <1>2, <2>1, <2>2
  <2>3. CASE j # Len(s) + 1
    <3>1. j \in DOMAIN s /\ t[j] = s[j]
      BY <1>1, <1>2, <2>3
    <3> QED
      BY <1>3, <2>1, <3>1 DEF Rising
  <2> QED
    BY <2>2, <2>3
<1>4. \A i \in DOMAIN t : (i \in DOMAIN s /\ t[i] = s[i]) \/ t[i] = e
  BY <1>1, <1>2
<1> QED
  BY <1>3, <1>4 DEF Rising, t

LEMMA OrderStep == OrderInv /\ [Next]_vars => OrderInv'
<1> SUFFICES ASSUME OrderInv, [Next]_vars PROVE OrderInv'
  OBVIOUS
<1>t. TypeInv'
  BY TypeStep DEF OrderInv
<1>s. /\ log \in Seq(Item) /\ chan \in Seq(Item) /\ emitted \in Nat
      /\ Holding => cur \in Item
  BY DEF OrderInv, TypeInv, TypeOK, HeldIsItem
<1>1. CASE AppendPacket /\ UNCHANGED emitted
  <2>1. cur \in Item /\ \A i \in DOMAIN log : log[i].n < cur.n
    BY <1>1, <1>s DEF AppendPacket, OrderInv
  <2>2. /\ Rising(log')
        /\ \A i \in DOMAIN log' : (i \in DOMAIN log /\ log'[i] = log[i]) \/ log'[i] = cur
    BY <1>1, <1>s, <2>1, RisingAppend DEF AppendPacket, OrderInv
  <2>3. chan' = chan /\ ~Holding'
    BY <1>1 DEF AppendPacket
  <2>4. Holding
    BY <1>1 DEF AppendPacket
  <2> QED
    BY <1>1, <1>t, <2>2, <2>3, <2>4 DEF OrderInv
<1>2. CASE Recv /\ UNCHANGED emitted
  <2>1. /\ log' = log /\ cur' = chan[1] /\ 1 \in DOMAIN chan
        /\ chan' = Tail(chan) /\ Holding'
    BY <1>2, <1>s DEF Recv
  <2>2. \A j \in DOMAIN chan' : j + 1 \in DOMAIN chan /\ chan'[j] = chan[j + 1] /\ j \in Nat /\ 1 < j + 1
    BY <1>s, <2>1
  <2>3. Rising(chan')
    BY <2>2 DEF OrderInv, Rising
  <2>4. \A j \in DOMAIN chan' : cur'.n < chan'[j].n /\ chan'[j].n <= emitted
    BY <2>1, <2>2 DEF OrderInv, Rising
  <2>5. \A i \in DOMAIN log : log[i].n < cur'.n /\ cur'.n <= emitted
    BY <2>1 DEF OrderInv
  <2>6. cur'.n <= emitted
    BY <2>1 DEF OrderInv
  <2>7. \A i \in DOMAIN log', j \in DOMAIN chan' : log'[i].n < chan'[j].n
    BY <2>1, <2>2 DEF OrderInv
  <2> QED
    BY <1>2, <1>t, <2>1, <2>3, <2>4, <2>5, <2>6, <2>7 DEF OrderInv
<1>3. ASSUME NEW b \in Body, Produce(b), UNCHANGED storeVars PROVE OrderInv'
  <2> DEFINE e == [n |-> emitted + 1, body |-> b]
  <2>1. /\ UNCHANGED <<log, cur>> /\ Holding' = Holding
        /\ emitted' = emitted + 1 /\ e.n = emitted + 1 /\ e \in Item
    BY <1>3, <1>s DEF Produce, storeVars, Item
  <2>n. /\ \A i \in DOMAIN log : log[i] \in Item
        /\ \A j \in DOMAIN chan : chan[j] \in Item
        /\ \A p \in Item : p.n \in Nat
    <3>1. \A p \in Item : p.n \in Nat
      BY DEF Item
    <3>2. \A i \in DOMAIN log : log[i] \in Item
      BY <1>s
    <3>3. \A j \in DOMAIN chan : chan[j] \in Item
      BY <1>s
    <3> QED
      BY <3>1, <3>2, <3>3
  <2>2. CASE chan' = chan
    <3>1. \A i \in DOMAIN log : log[i].n <= emitted'
      BY <1>s, <2>n, <2>1 DEF OrderInv
    <3>2. \A j \in DOMAIN chan : chan[j].n <= emitted'
      BY <1>s, <2>n, <2>1 DEF OrderInv
    <3>3. Holding => cur.n <= emitted'
      BY <1>s, <2>n, <2>1 DEF OrderInv
    <3> QED
      BY <1>t, <2>1, <2>2, <3>1, <3>2, <3>3 DEF OrderInv
  <2>3. CASE chan' = Append(chan, e)
    <3>1. \A j \in DOMAIN chan : chan[j].n < e.n /\ chan[j].n <= emitted'
      BY <1>s, <2>n, <2>1 DEF OrderInv
    <3>2. \A i \in DOMAIN log : log[i].n < e.n /\ log[i].n <= emitted'
      BY <1>s, <2>n, <2>1 DEF OrderInv
    <3>3. Holding => cur.n < e.n /\ cur.n <= emitted'
      BY <1>s, <2>n, <2>1 DEF OrderInv
    <3>4. /\ Rising(chan')
          /\ \A j \in DOMAIN chan' : (j \in DOMAIN chan /\ chan'[j] = chan[j]) \/ chan'[j] = e
      BY <1>s, <2>1, <2>3, <3>1, RisingAppend DEF OrderInv
    <3>5. e.n <= emitted'
      BY <1>s, <2>1
    <3> HIDE DEF e
    <3> QED
      BY <1>t, <2>1, <3>1, <3>2, <3>3, <3>4, <3>5 DEF OrderInv
  <2> QED
    BY <1>3, <2>2, <2>3 DEF Produce
<1>4. CASE UNCHANGED <<log, chan, emitted, cur>> /\ (Holding' => Holding)
  BY <1>4, <1>t DEF OrderInv, Rising
<1> QED
  BY <1>1, <1>2, <1>3, <1>4
     DEF Next, Consume, StartConsumer, ConsumerExit, Process, SetFilter,
         CloseStop, CloseSource, vars, storeVars

(* The log is in the order of the dongle and holds no packet twice.        *)
THEOREM LogOrdered == Spec => []LogInOrder
<1>1. Init => OrderInv
  BY TypeInit DEF Init, OrderInv, Rising
<1>2. OrderInv => LogInOrder
  BY DEF OrderInv, Rising, LogInOrder
<1> QED
  BY <1>1, <1>2, OrderStep, PTL DEF Spec

-----------------------------------------------------------------------------
(* No step changes or removes a stored packet, and none adds more than one. *)
THEOREM NeverRewritten == Spec => AppendOnly
<1> DEFINE Grows == /\ Len(log') \in {Len(log), Len(log) + 1}
                    /\ SubSeq(log', 1, Len(log)) = log
<1>1. TypeInv /\ [Next]_vars => [Grows]_log
  <2> SUFFICES ASSUME TypeInv, [Next]_vars, log' # log PROVE Grows
    OBVIOUS
  <2>1. AppendPacket
    BY DEF Next, Consume, StartConsumer, Recv, ConsumerExit, Process, SetFilter,
           CloseStop, Produce, CloseSource, vars, storeVars
  <2>2. log \in Seq(Item) /\ cur \in Item /\ log' = Append(log, cur)
    BY <2>1 DEF AppendPacket, TypeInv, TypeOK, HeldIsItem
  <2> QED
    BY <2>2
<1> QED
  BY <1>1, TypeInit, TypeStep, PTL DEF Spec, AppendOnly
=============================================================================
