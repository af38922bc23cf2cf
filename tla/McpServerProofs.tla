--------------------------- MODULE McpServerProofs ---------------------------
(***************************************************************************)
(* Proofs about McpServer for every set of sessions, every page size and   *)
(* any number of packets.                                                  *)
(***************************************************************************)
EXTENDS McpServer, Sequences, TLAPS

USE DEF vars, lockVars, capVars, fileVars, histVars

(* Whoever holds sessMu works on the current session, or on the one it is  *)
(* about to make current.                                                  *)
Working ==
  /\ step = "started" => sess = None /\ target \in Session
  /\ step \notin {"free", "started"} => target = sess /\ sess \in Session

(* No offset and no count that is kept exceeds the length of its log, and  *)
(* baseIndex only grows, so that a file begins at it or before.            *)
Bounds ==
  /\ \A s \in Session : first[s] <= base[s] /\ base[s] <= len[s] /\ wrote[s] <= len[s]
  /\ step = "clear" => base[target] <= count /\ count <= len[target]

(***************************************************************************)
(* Type correctness. The differences that handlers and writers keep are    *)
(* natural numbers only because of Bounds, which needs to know on whose    *)
(* behalf sessMu is held.                                                  *)
(***************************************************************************)
TypeInv == TypeOK /\ Working /\ Bounds

LEMMA TypeInit == Init => TypeInv
<1> SUFFICES ASSUME Init PROVE TypeInv
  OBVIOUS
<1>1. TypeOK
  BY DEF Init, TypeOK
<1>2. Working /\ Bounds
  BY DEF Init, Working, Bounds
<1> QED
  BY <1>1, <1>2 DEF TypeInv

LEMMA TypeStep == TypeInv /\ [Next]_vars => TypeInv'
<1> SUFFICES ASSUME TypeInv, [Next]_vars PROVE TypeInv'
  OBVIOUS
<1> USE ServerAssumption DEF TypeInv, TypeOK, Working, Bounds
<1>1. ASSUME NEW s \in Session, Capture(s)
      PROVE  TypeInv'
  BY <1>1 DEF Capture
<1>2. ASSUME NEW s \in Session, StartFails(s)
      PROVE  TypeInv'
  BY <1>2 DEF StartFails, Startable
<1>3. ASSUME NEW s \in Session, StartFollowFails(s)
      PROVE  TypeInv'
  BY <1>3 DEF StartFollowFails, Startable
<1>4. ASSUME NEW s \in Session, StartCapture(s)
      PROVE  TypeInv'
  BY <1>4 DEF StartCapture, Startable
<1>5. CASE StartFileFails
  BY <1>5 DEF StartFileFails, Unlock, EndCapture
<1>6. ASSUME NEW file \in BOOLEAN, NEW timed \in BOOLEAN, StartSession(file, timed)
      PROVE  TypeInv'
  BY <1>6 DEF StartSession, Unlock
<1>7. CASE ClearCount
  BY <1>7 DEF ClearCount
<1>8. CASE ClearSet
  BY <1>8 DEF ClearSet, Unlock
<1>9. CASE StopBegin
  BY <1>9 DEF StopBegin
<1>10. CASE StopCapture
  BY <1>10 DEF StopCapture, EndCapture
<1>11. CASE StopFile
  BY <1>11 DEF StopFile, CloseWriterStop
<1>12. CASE StopReturns
  BY <1>12 DEF StopReturns, Unlock, WriterGone
<1>13. ASSUME NEW s \in Session, TimerExpires(s)
      PROVE  TypeInv'
  BY <1>13 DEF TimerExpires
<1>14. ASSUME NEW s \in Session, TimerLocks(s)
      PROVE  TypeInv'
  BY <1>14 DEF TimerLocks
<1>15. CASE TimerFile
  BY <1>15 DEF TimerFile, CloseWriterStop
<1>16. CASE TimerWaited
  BY <1>16 DEF TimerWaited, WriterGone
<1>17. CASE TimerStops
  BY <1>17 DEF TimerStops, Unlock, EndCapture
<1>18. ASSUME NEW s \in Session, WriterStarts(s)
      PROVE  TypeInv'
  BY <1>18 DEF WriterStarts
<1>19. ASSUME NEW s \in Session, WriterTick(s)
      PROVE  TypeInv'
  BY <1>19 DEF WriterTick, WritePage, Least
<1>20. ASSUME NEW s \in Session, WriterDrain(s)
      PROVE  TypeInv'
  BY <1>20 DEF WriterDrain, WritePage, Least
<1>21. CASE UNCHANGED vars
  BY <1>21
<1> HIDE DEF TypeInv, TypeOK, Working, Bounds
<1> QED
  BY <1>1, <1>2, <1>3, <1>4, <1>5, <1>6, <1>7, <1>8, <1>9, <1>10, <1>11, <1>12,
     <1>13, <1>14, <1>15, <1>16, <1>17, <1>18, <1>19, <1>20, <1>21
     DEF Next, Start, Stop, TimerRuns, Writer

(* In every reachable state of the server each variable has its type.      *)
THEOREM TypeCorrect == Spec => []TypeOK
<1>1. TypeInv => TypeOK
  BY DEF TypeInv
<1> QED
  BY <1>1, TypeInit, TypeStep, PTL DEF Spec

(* baseIndex never exceeds the length of the log: no handler reports a     *)
(* negative count.                                                         *)
THEOREM CountsNeverNegative == Spec => []NeverNegative
<1>1. TypeInv => NeverNegative
  BY DEF TypeInv, Bounds, NeverNegative
<1> QED
  BY <1>1, TypeInit, TypeStep, PTL DEF Spec

-----------------------------------------------------------------------------
(***************************************************************************)
(* The end of a session. A session that is current, or about to be, has a  *)
(* capture that is on and an open writerStop until the holder has stopped  *)
(* the one and closed the other; so either is done for the first time.     *)
(* That needs a started capture to be fresh.                               *)
(***************************************************************************)
Started ==
  /\ sess \in Session /\ step \notin {"stopFile", "stopWait"} => cap[sess] = "on"
  /\ step = "started" => cap[target] = "on"
  /\ step \in {"stopFile", "stopWait"} => cap[target] = "over"

StopOpen ==
  \A s \in Session : wstop[s] =>
    /\ cap[s] # "off"
    /\ ~(step = "started" /\ target = s)
    /\ sess = s => step \in {"stopWait", "timerWait", "timerCap"}

StopInv == Started /\ StopOpen /\ NoPanic

LEMMA StopInit == Init => StopInv
  BY ServerAssumption DEF Init, StopInv, Started, StopOpen, NoPanic

LEMMA StopStep == TypeInv /\ StopInv /\ [Next]_vars => StopInv'
<1> SUFFICES ASSUME TypeInv, StopInv, [Next]_vars PROVE StopInv'
  OBVIOUS
<1> USE ServerAssumption DEF TypeInv, TypeOK, Working, StopInv, Started, StopOpen, NoPanic
<1>1. ASSUME NEW s \in Session, Capture(s)
      PROVE  StopInv'
  BY <1>1 DEF Capture
<1>2. ASSUME NEW s \in Session, StartFails(s)
      PROVE  StopInv'
  BY <1>2 DEF StartFails, Startable
<1>3. ASSUME NEW s \in Session, StartFollowFails(s)
      PROVE  StopInv'
  BY <1>3 DEF StartFollowFails, Startable
<1>4. ASSUME NEW s \in Session, StartCapture(s)
      PROVE  StopInv'
  BY <1>4 DEF StartCapture, Startable
<1>5. CASE StartFileFails
  BY <1>5 DEF StartFileFails, Unlock, EndCapture
<1>6. ASSUME NEW file \in BOOLEAN, NEW timed \in BOOLEAN, StartSession(file, timed)
      PROVE  StopInv'
  BY <1>6 DEF StartSession, Unlock
<1>7. CASE ClearCount
  BY <1>7 DEF ClearCount
<1>8. CASE ClearSet
  BY <1>8 DEF ClearSet, Unlock
<1>9. CASE StopBegin
  BY <1>9 DEF StopBegin
<1>10. CASE StopCapture
  BY <1>10 DEF StopCapture, EndCapture
<1>11. CASE StopFile
  BY <1>11 DEF StopFile, CloseWriterStop
<1>12. CASE StopReturns
  BY <1>12 DEF StopReturns, Unlock, WriterGone
<1>13. ASSUME NEW s \in Session, TimerExpires(s)
      PROVE  StopInv'
  BY <1>13 DEF TimerExpires
<1>14. ASSUME NEW s \in Session, TimerLocks(s)
      PROVE  StopInv'
  BY <1>14 DEF TimerLocks
<1>15. CASE TimerFile
  BY <1>15 DEF TimerFile, CloseWriterStop
<1>16. CASE TimerWaited
  BY <1>16 DEF TimerWaited, WriterGone
<1>17. CASE TimerStops
  BY <1>17 DEF TimerStops, Unlock, EndCapture
<1>18. ASSUME NEW s \in Session, WriterStarts(s)
      PROVE  StopInv'
  BY <1>18 DEF WriterStarts
<1>19. ASSUME NEW s \in Session, WriterTick(s)
      PROVE  StopInv'
  BY <1>19 DEF WriterTick, WritePage, Least
<1>20. ASSUME NEW s \in Session, WriterDrain(s)
      PROVE  StopInv'
  BY <1>20 DEF WriterDrain, WritePage, Least
<1>21. CASE UNCHANGED vars
  BY <1>21
<1> HIDE DEF TypeInv, TypeOK, Working, StopInv, Started, StopOpen, NoPanic
<1> QED
  BY <1>1, <1>2, <1>3, <1>4, <1>5, <1>6, <1>7, <1>8, <1>9, <1>10, <1>11, <1>12,
     <1>13, <1>14, <1>15, <1>16, <1>17, <1>18, <1>19, <1>20, <1>21
     DEF Next, Start, Stop, TimerRuns, Writer

(* writerStop is never closed twice, by the tool and the timer together,   *)
(* and no capture is stopped twice: what CaptureProofs assumes, Once.      *)
THEOREM NeverPanics == Spec => []NoPanic
<1>1. StopInv => NoPanic
  BY DEF StopInv
<1> QED
  BY <1>1, TypeInit, TypeStep, StopInit, StopStep, PTL DEF Spec

(* No step forgets a session whose capture it has not stopped.             *)
THEOREM SessionsEndStopped == Spec => ForgottenWhenStopped
<1>1. ASSUME TypeInv, StopInv, [Next]_vars
      PROVE  [sess # None /\ sess' # sess => cap'[sess] = "over"]_sess
  <2>1. SUFFICES ASSUME sess # None, sess' # sess PROVE cap'[sess] = "over"
    OBVIOUS
  <2>2. sess \in Session /\ cap \in [Session -> {"off", "on", "over", "failed"}]
    BY <1>1, <2>1 DEF TypeInv, TypeOK
  <2>3. step # "started" /\ (step # "free" => target = sess)
    BY <1>1, <2>1 DEF TypeInv, Working
  <2>4. StopReturns \/ TimerStops
    BY <1>1, <2>1, <2>3 DEF Next, Start, Stop, TimerRuns, Writer, Capture,
         StartFails, StartFollowFails, StartCapture, StartFileFails, StartSession,
         ClearCount, ClearSet, StopBegin, StopCapture, StopFile,
         TimerExpires, TimerLocks, TimerFile, TimerWaited,
         WriterStarts, WriterTick, WriterDrain
  <2>5. CASE StopReturns
    BY <1>1, <2>2, <2>3, <2>5 DEF StopReturns, StopInv, Started
  <2>6. CASE TimerStops
    BY <2>2, <2>3, <2>6 DEF TimerStops, EndCapture
  <2> QED
    BY <2>4, <2>5, <2>6
<1> QED
  BY <1>1, TypeInit, TypeStep, StopInit, StopStep, PTL DEF Spec, ForgottenWhenStopped

-----------------------------------------------------------------------------
(***************************************************************************)
(* What is left of a session that is not the current one.                  *)
(***************************************************************************)
Owned ==
  /\ step = "timerCap" => writer[target] \in {"none", "done"}
  /\ \A s \in Session : s # sess =>
       /\ cap[s] = "on" => s \in leaked \/ (step = "started" /\ target = s)
       /\ writer[s] \in {"none", "done"}

OwnedInv == StopInv /\ Owned

LEMMA OwnedInit == Init => OwnedInv
  BY StopInit DEF Init, OwnedInv, Owned

LEMMA OwnedStep == TypeInv /\ OwnedInv /\ [Next]_vars => OwnedInv'
<1> SUFFICES ASSUME TypeInv, OwnedInv, [Next]_vars PROVE OwnedInv'
  OBVIOUS
<1> USE ServerAssumption DEF TypeInv, TypeOK, Working, OwnedInv, StopInv, Started, Owned
<1>s. StopInv'
  BY StopStep
<1>1. ASSUME NEW s \in Session, Capture(s)
      PROVE  OwnedInv'
  BY <1>1, <1>s DEF Capture
<1>2. ASSUME NEW s \in Session, StartFails(s)
      PROVE  OwnedInv'
  BY <1>2, <1>s DEF StartFails, Startable
<1>3. ASSUME NEW s \in Session, StartFollowFails(s)
      PROVE  OwnedInv'
  BY <1>3, <1>s DEF StartFollowFails, Startable
<1>4. ASSUME NEW s \in Session, StartCapture(s)
      PROVE  OwnedInv'
  BY <1>4, <1>s DEF StartCapture, Startable
<1>5. CASE StartFileFails
  BY <1>5, <1>s DEF StartFileFails, Unlock, EndCapture
<1>6. ASSUME NEW file \in BOOLEAN, NEW timed \in BOOLEAN, StartSession(file, timed)
      PROVE  OwnedInv'
  BY <1>6, <1>s DEF StartSession, Unlock
<1>7. CASE ClearCount
  BY <1>7, <1>s DEF ClearCount
<1>8. CASE ClearSet
  BY <1>8, <1>s DEF ClearSet, Unlock
<1>9. CASE StopBegin
  BY <1>9, <1>s DEF StopBegin
<1>10. CASE StopCapture
  BY <1>10, <1>s DEF StopCapture, EndCapture
<1>11. CASE StopFile
  BY <1>11, <1>s DEF StopFile, CloseWriterStop
<1>12. CASE StopReturns
  BY <1>12, <1>s DEF StopReturns, Unlock, WriterGone
<1>13. ASSUME NEW s \in Session, TimerExpires(s)
      PROVE  OwnedInv'
  BY <1>13, <1>s DEF TimerExpires
<1>14. ASSUME NEW s \in Session, TimerLocks(s)
      PROVE  OwnedInv'
  BY <1>14, <1>s DEF TimerLocks
<1>15. CASE TimerFile
  BY <1>15, <1>s DEF TimerFile, CloseWriterStop
<1>16. CASE TimerWaited
  BY <1>16, <1>s DEF TimerWaited, WriterGone
<1>17. CASE TimerStops
  BY <1>17, <1>s DEF TimerStops, Unlock, EndCapture
<1>18. ASSUME NEW s \in Session, WriterStarts(s)
      PROVE  OwnedInv'
  BY <1>18, <1>s DEF WriterStarts
<1>19. ASSUME NEW s \in Session, WriterTick(s)
      PROVE  OwnedInv'
  BY <1>19, <1>s DEF WriterTick, WritePage, Least
<1>20. ASSUME NEW s \in Session, WriterDrain(s)
      PROVE  OwnedInv'
  BY <1>20, <1>s DEF WriterDrain, WritePage, Least
<1>21. CASE UNCHANGED vars
  BY <1>21, <1>s
<1> HIDE DEF TypeInv, TypeOK, Working, OwnedInv, StopInv, Started, Owned
<1> QED
  BY <1>1, <1>2, <1>3, <1>4, <1>5, <1>6, <1>7, <1>8, <1>9, <1>10, <1>11, <1>12,
     <1>13, <1>14, <1>15, <1>16, <1>17, <1>18, <1>19, <1>20, <1>21
     DEF Next, Start, Stop, TimerRuns, Writer

(* Whenever sessMu is free, no capture is on and no file writer runs but   *)
(* the session's and those that a failed sniffer_start left.               *)
THEOREM OnlyTheSessionRuns == Spec => []NothingElseRuns
<1>1. OwnedInv => NothingElseRuns
  BY DEF OwnedInv, Owned, NothingElseRuns
<1> QED
  BY <1>1, TypeInit, TypeStep, OwnedInit, OwnedStep, PTL DEF Spec

-----------------------------------------------------------------------------
(***************************************************************************)
(* The file of a session that sniffer_stop has ended. From the moment the  *)
(* capture is over its log stands still, so what the final drain leaves    *)
(* over stays what it was.                                                 *)
(***************************************************************************)
Ended ==
  \A s \in Session : ended[s] # "no" =>
    cap[s] = "over" /\ s # sess /\ ~(step = "started" /\ target = s)

Drained ==
  \A s \in Session :
    /\ writer[s] = "done" => wstop[s]
    /\ writer[s] = "done" /\ (ended[s] = "tool" \/ (step = "stopWait" /\ target = s)) =>
         cap[s] = "over" /\ (wrote[s] = len[s] \/ backlog[s] > PageSize)

DrainInv == OwnedInv /\ Ended /\ Drained

LEMMA DrainInit == Init => DrainInv
  BY OwnedInit DEF Init, DrainInv, Ended, Drained

LEMMA DrainStep == TypeInv /\ DrainInv /\ [Next]_vars => DrainInv'
<1> SUFFICES ASSUME TypeInv, DrainInv, [Next]_vars PROVE DrainInv'
  OBVIOUS
<1> USE ServerAssumption DEF TypeInv, TypeOK, Working, DrainInv, OwnedInv, StopInv, Started, StopOpen, Owned, Ended, Drained, Bounds
<1>s. OwnedInv'
  BY OwnedStep
<1>1. ASSUME NEW s \in Session, Capture(s)
      PROVE  DrainInv'
  BY <1>1, <1>s DEF Capture
<1>2. ASSUME NEW s \in Session, StartFails(s)
      PROVE  DrainInv'
  BY <1>2, <1>s DEF StartFails, Startable
<1>3. ASSUME NEW s \in Session, StartFollowFails(s)
      PROVE  DrainInv'
  BY <1>3, <1>s DEF StartFollowFails, Startable
<1>4. ASSUME NEW s \in Session, StartCapture(s)
      PROVE  DrainInv'
  BY <1>4, <1>s DEF StartCapture, Startable
<1>5. CASE StartFileFails
  BY <1>5, <1>s DEF StartFileFails, Unlock, EndCapture
<1>6. ASSUME NEW file \in BOOLEAN, NEW timed \in BOOLEAN, StartSession(file, timed)
      PROVE  DrainInv'
  BY <1>6, <1>s DEF StartSession, Unlock
<1>7. CASE ClearCount
  BY <1>7, <1>s DEF ClearCount
<1>8. CASE ClearSet
  BY <1>8, <1>s DEF ClearSet, Unlock
<1>9. CASE StopBegin
  BY <1>9, <1>s DEF StopBegin
<1>10. CASE StopCapture
  BY <1>10, <1>s DEF StopCapture, EndCapture
<1>11. CASE StopFile
  BY <1>11, <1>s DEF StopFile, CloseWriterStop
<1>12. CASE StopReturns
  BY <1>12, <1>s DEF StopReturns, Unlock, WriterGone
<1>13. ASSUME NEW s \in Session, TimerExpires(s)
      PROVE  DrainInv'
  BY <1>13, <1>s DEF TimerExpires
<1>14. ASSUME NEW s \in Session, TimerLocks(s)
      PROVE  DrainInv'
  BY <1>14, <1>s DEF TimerLocks
<1>15. CASE TimerFile
  BY <1>15, <1>s DEF TimerFile, CloseWriterStop
<1>16. CASE TimerWaited
  BY <1>16, <1>s DEF TimerWaited, WriterGone
<1>17. CASE TimerStops
  BY <1>17, <1>s DEF TimerStops, Unlock, EndCapture
<1>18. ASSUME NEW s \in Session, WriterStarts(s)
      PROVE  DrainInv'
  BY <1>18, <1>s DEF WriterStarts
<1>19. ASSUME NEW s \in Session, WriterTick(s)
      PROVE  DrainInv'
  BY <1>19, <1>s DEF WriterTick, WritePage, Least
<1>20. ASSUME NEW s \in Session, WriterDrain(s)
      PROVE  DrainInv'
  BY <1>20, <1>s DEF WriterDrain, WritePage, Least
<1>21. CASE UNCHANGED vars
  BY <1>21, <1>s
<1> HIDE DEF TypeInv, TypeOK, Working, DrainInv, OwnedInv, StopInv, Started, StopOpen, Owned, Ended, Drained, Bounds
<1> QED
  BY <1>1, <1>2, <1>3, <1>4, <1>5, <1>6, <1>7, <1>8, <1>9, <1>10, <1>11, <1>12,
     <1>13, <1>14, <1>15, <1>16, <1>17, <1>18, <1>19, <1>20, <1>21
     DEF Next, Start, Stop, TimerRuns, Writer

(* After sniffer_stop the file has every packet but those that a clear had *)
(* hidden where the writer began and, if more than one page was left for   *)
(* the final drain, the last ones.                                         *)
THEOREM FlushedUpToAPage == Spec => []FlushedByPage
<1>1. TypeInv /\ DrainInv => FlushedByPage
  <2> SUFFICES ASSUME TypeInv, DrainInv,
                      NEW s \in Session, ended[s] = "tool", writer[s] = "done",
                      NEW i \in 1 .. len[s] \ InFile(s)
               PROVE  \/ i <= first[s] /\ i <= base[s]
                      \/ i > wrote[s] /\ backlog[s] > PageSize
    BY DEF FlushedByPage
  <2>1. /\ first[s] \in Nat /\ base[s] \in Nat /\ wrote[s] \in Nat /\ len[s] \in Nat
        /\ first[s] <= base[s]
    BY DEF TypeInv, TypeOK, Bounds
  <2>2. i \in 1 .. len[s] /\ (i <= first[s] \/ i > wrote[s])
    BY <2>1 DEF InFile
  <2>3. wrote[s] = len[s] \/ backlog[s] > PageSize
    BY DEF DrainInv, Drained
  <2> QED
    BY <2>1, <2>2, <2>3
<1> QED
  BY <1>1, TypeInit, TypeStep, DrainInit, DrainStep, PTL DEF Spec

(***************************************************************************)
(* The capture of a session implements CaptureLog, the promise that        *)
(* CaptureProofs proves of a capture stopped at most once. A capture that  *)
(* could not be started never begins.                                      *)
(***************************************************************************)
Phase(s) == IF cap[s] = "failed" THEN "off" ELSE cap[s]

Items(s) == [i \in 1..len[s] |-> [n |-> i, body |-> "packet"]]

Log(s) == INSTANCE CaptureLog WITH
            Body <- {"packet"}, phase <- Phase(s), log <- Items(s)

(* The log of a session is as long as its packets; one more is appended.   *)
LEMMA OneMore ==
  ASSUME NEW s \in Session, len[s] \in Nat, len'[s] = len[s] + 1
  PROVE  /\ Len(Items(s)) = len[s] /\ Len(Items(s)') = len[s] + 1
         /\ Items(s)' = Append(Items(s), [n |-> len[s] + 1, body |-> "packet"])
  BY DEF Items

LEMMA LogInit == ASSUME NEW s \in Session, Init PROVE Log(s)!Init
  BY DEF Init, Log!Init, Phase, Items

LEMMA LogStays ==
  ASSUME NEW s \in Session, Phase(s)' = Phase(s), len'[s] = len[s]
  PROVE  [Log(s)!Next]_<<Phase(s), Items(s)>>
  BY DEF Items

(* A stored packet is appended, with the next index.                       *)
LEMMA LogStores ==
  ASSUME NEW s \in Session, TypeInv, Capture(s)
  PROVE  Log(s)!Store
<1>1. Phase(s) = "on" /\ Phase(s)' = Phase(s)
  BY DEF TypeInv, TypeOK, Capture, Phase
<1>2. len[s] \in Nat /\ len'[s] = len[s] + 1
  BY DEF TypeInv, TypeOK, Capture
<1> DEFINE item == [n |-> len[s] + 1, body |-> "packet"]
<1>3. /\ Len(Items(s)) = len[s] /\ Len(Items(s)') = len[s] + 1
      /\ Items(s)' = Append(Items(s), item)
  BY <1>2, OneMore
<1>4. Items(s)'[Len(Items(s)')] = item
  BY <1>2, <1>3 DEF Items
<1>5. Items(s) # <<>> => Items(s)[Len(Items(s))].n = len[s]
  BY <1>2, <1>3 DEF Items
<1>6. item \in Log(s)!Item /\ len[s] < item.n
  BY <1>2 DEF Log!Item
<1> HIDE DEF item
<1> QED
  BY <1>1, <1>3, <1>4, <1>5, <1>6 DEF Log!Store

(* Of the other steps, one starts a capture and three end one.             *)
LEMMA LogEnds ==
  ASSUME NEW s \in Session, TypeInv, StopInv,
         \/ StartFileFails
         \/ StopCapture
         \/ TimerStops
  PROVE  [Log(s)!Next]_<<Phase(s), Items(s)>>
<1>1. cap[target] = "on" /\ EndCapture(target) /\ UNCHANGED len
  BY DEF TypeInv, Working, StopInv, Started, StartFileFails, StopCapture, TimerStops
<1>2. CASE s = target
  <2>1. Phase(s) = "on" /\ Phase(s)' = "over" /\ Items(s)' = Items(s)
    BY <1>1, <1>2 DEF TypeInv, TypeOK, EndCapture, Phase, Items
  <2> QED
    BY <2>1 DEF Log!Next, Log!Finish
<1>3. CASE s # target
  <2>1. Phase(s)' = Phase(s) /\ len'[s] = len[s]
    BY <1>1, <1>3 DEF TypeInv, TypeOK, EndCapture, Phase
  <2> QED
    BY <2>1, LogStays
<1> QED
  BY <1>2, <1>3

LEMMA LogStarts ==
  ASSUME NEW s \in Session, NEW t \in Session, TypeInv,
         StartFails(t) \/ StartFollowFails(t) \/ StartCapture(t)
  PROVE  [Log(s)!Next]_<<Phase(s), Items(s)>>
<1>1. cap[t] = "off" /\ cap' \in {[cap EXCEPT ![t] = "failed"], [cap EXCEPT ![t] = "on"]}
  BY DEF Startable, StartFails, StartFollowFails, StartCapture
<1>2. UNCHANGED len
  BY DEF StartFails, StartFollowFails, StartCapture
<1>3. CASE cap'[s] = "on" /\ s = t
  <2>1. Phase(s) = "off" /\ Phase(s)' = "on" /\ Items(s)' = Items(s)
    BY <1>1, <1>2, <1>3 DEF Phase, Items
  <2> QED
    BY <2>1 DEF Log!Next, Log!Begin
<1>4. CASE ~(cap'[s] = "on" /\ s = t)
  <2>1. Phase(s)' = Phase(s) /\ len'[s] = len[s]
    BY <1>1, <1>2, <1>4 DEF TypeInv, TypeOK, Phase
  <2> QED
    BY <2>1, LogStays
<1> QED
  BY <1>3, <1>4

LEMMA LogStep ==
  ASSUME NEW s \in Session, TypeInv, StopInv, [Next]_vars
  PROVE  [Log(s)!Next]_<<Phase(s), Items(s)>>
<1>1. ASSUME NEW t \in Session, Capture(t)
      PROVE  [Log(s)!Next]_<<Phase(s), Items(s)>>
  <2>1. CASE s = t
    BY <1>1, <2>1, LogStores DEF Log!Next
  <2>2. CASE s # t
    <3>1. Phase(s)' = Phase(s) /\ len'[s] = len[s]
      BY <1>1, <2>2 DEF TypeInv, TypeOK, Capture, Phase
    <3> QED
      BY <3>1, LogStays
  <2> QED
    BY <2>1, <2>2
<1>2. CASE UNCHANGED capVars
  <2>1. Phase(s)' = Phase(s) /\ len'[s] = len[s]
    BY <1>2 DEF Phase
  <2> QED
    BY <2>1, LogStays
<1>3. ASSUME ~UNCHANGED capVars
      PROVE  \/ StartFileFails \/ StopCapture \/ TimerStops
             \/ \E t \in Session :
                  Capture(t) \/ StartFails(t) \/ StartFollowFails(t) \/ StartCapture(t)
  BY <1>3 DEF Next, Start, StartSession, ClearCount, ClearSet, Stop, StopBegin, StopFile,
     StopReturns, TimerExpires, TimerLocks, TimerRuns, TimerFile, TimerWaited,
     Writer, WriterStarts, WriterTick, WriterDrain
<1> QED
  BY <1>1, <1>2, <1>3, LogEnds, LogStarts

(* What each session's readers and file writer rely on: its log only grows, *)
(* from its start until the holder of sessMu has stopped the capture.       *)
THEOREM SessionLogs == ASSUME NEW s \in Session PROVE Spec => Log(s)!Spec
<1>1. Init => Log(s)!Init
  BY LogInit
<1>2. TypeInv /\ StopInv /\ [Next]_vars => [Log(s)!Next]_<<Phase(s), Items(s)>>
  BY LogStep
<1> QED
  BY <1>1, <1>2, TypeInit, TypeStep, StopInit, StopStep, PTL DEF Spec, Log!Spec
=============================================================================
