---------------------------- MODULE ScarLogProofs ----------------------------
(***************************************************************************)
(* Proofs about ScarLog, for any number of threads, streams and strings    *)
(* and any sequence of calls.                                              *)
(***************************************************************************)
EXTENDS ScarLog, TLAPS

-----------------------------------------------------------------------------
(* Types, and where a thread can be in which call.                         *)

LEMMA TypesAtFirst == Init => TypeOK /\ Points
  BY ConstantsAssumption DEF ConstantsAssumption, Init, TypeOK, Points, InCall, Stream, Sessions

(* A step of one thread leaves the calls of the others alone, and what the *)
(* callers did.                                                            *)
LEMMA OthersKept ==
  ASSUME TypeOK, NEW t \in Thread, Step(t)
  PROVE  /\ misuse' = misuse
         /\ op'[t] = op[t] \/ op'[t] = "none"
         /\ \A u \in Thread \ {t} : pc'[u] = pc[u] /\ op'[u] = op[u] /\ text'[u] = text[u]
<1> USE DEF TypeOK, At, Goto, GotoIf, Return, Finish, Back, FreeString, history
<1>1. CASE OpenFlags(t) \/ OpenCaller(t) \/ OpenKeep(t) \/ OpenPath(t) \/ OpenOwn(t)
  BY <1>1 DEF OpenFlags, OpenCaller, OpenKeep, OpenPath, OpenOwn
<1>2. CASE OpenFails(t) \/ OpenLevel(t) \/ OpenLogStr(t)
  BY <1>2 DEF OpenFails, OpenLevel, OpenLogStr
<1>3. CASE LogText(t) \/ LogErr(t) \/ LogUsr(t) \/ LogPrint(t)
  BY <1>3 DEF LogText, LogErr, LogUsr, LogPrint
<1>4. CASE TimeText(t) \/ TimeCopy(t) \/ TimeUsr(t) \/ TimePrint(t)
  BY <1>4 DEF TimeText, TimeCopy, TimeUsr, TimePrint
<1>5. CASE CloseStr(t) \/ CloseClear(t) \/ CloseStream(t) \/ CloseForget(t)
  BY <1>5 DEF CloseStr, CloseClear, CloseStream, CloseForget
<1>6. CASE IndicatorFree(t) \/ IndicatorSet(t)
  BY <1>6 DEF IndicatorFree, IndicatorSet
<1> QED
  BY <1>1, <1>2, <1>3, <1>4, <1>5, <1>6 DEF Step

LEMMA OwnPoint ==
  ASSUME TypeOK, Points, NEW t \in Thread, Step(t)
  PROVE  /\ InCall(op'[t], pc'[t])
         /\ text'[t] # NULL => pc'[t] \in {"copy", "usrprint", "timecopy"}
<1> USE DEF TypeOK, Points, At, Goto, GotoIf, Return, Finish, Back, FreeString
<1> USE DEF InCall, Opening, Line, Timing, Closing, Dead
<1>1. CASE OpenFlags(t) \/ OpenCaller(t) \/ OpenKeep(t) \/ OpenPath(t) \/ OpenOwn(t)
  BY <1>1 DEF OpenFlags, OpenCaller, OpenKeep, OpenPath, OpenOwn
<1>2. CASE OpenFails(t) \/ OpenLevel(t) \/ OpenLogStr(t)
  BY <1>2 DEF OpenFails, OpenLevel, OpenLogStr
<1>3. CASE LogText(t) \/ LogErr(t) \/ LogUsr(t) \/ LogPrint(t)
  BY <1>3 DEF LogText, LogErr, LogUsr, LogPrint
<1>4. CASE TimeText(t) \/ TimeCopy(t) \/ TimeUsr(t) \/ TimePrint(t)
  BY <1>4 DEF TimeText, TimeCopy, TimeUsr, TimePrint
<1>5. CASE CloseStr(t) \/ CloseClear(t) \/ CloseStream(t) \/ CloseForget(t)
  BY <1>5 DEF CloseStr, CloseClear, CloseStream, CloseForget
<1>6. CASE IndicatorFree(t) \/ IndicatorSet(t)
  BY <1>6 DEF IndicatorFree, IndicatorSet
<1> QED
  BY <1>1, <1>2, <1>3, <1>4, <1>5, <1>6 DEF Step

LEMMA StepTyped ==
  ASSUME TypeOK, NEW t \in Thread, Step(t)
  PROVE  TypeOK'
<1> USE DEF TypeOK, At, Goto, GotoIf, Return, Finish, Back, FreeString, log, heap, history,
            Dead, Sessions
<1>1. CASE OpenFlags(t)
  BY <1>1 DEF OpenFlags
<1>2. CASE OpenCaller(t)
  BY <1>2 DEF OpenCaller, Stream
<1>3. CASE OpenKeep(t)
  BY <1>3 DEF OpenKeep
<1>4. CASE OpenPath(t)
  BY <1>4 DEF OpenPath, Stream
<1>5. CASE OpenOwn(t)
  BY <1>5 DEF OpenOwn
<1>6. CASE OpenFails(t)
  BY <1>6 DEF OpenFails
<1>7. CASE OpenLevel(t)
  BY <1>7 DEF OpenLevel
<1>8. CASE OpenLogStr(t)
  BY <1>8 DEF OpenLogStr
<1>9. CASE LogText(t)
  BY <1>9 DEF LogText
<1>10. CASE LogErr(t)
  BY <1>10 DEF LogErr
<1>11. CASE LogUsr(t)
  BY <1>11 DEF LogUsr
<1>12. CASE LogPrint(t)
  BY <1>12 DEF LogPrint
<1>13. CASE TimeText(t)
  BY <1>13 DEF TimeText
<1>14. CASE TimeCopy(t)
  BY <1>14 DEF TimeCopy
<1>15. CASE TimeUsr(t)
  BY <1>15 DEF TimeUsr
<1>16. CASE TimePrint(t)
  BY <1>16 DEF TimePrint
<1>17. CASE CloseStr(t)
  BY <1>17 DEF CloseStr
<1>18. CASE CloseClear(t)
  BY <1>18 DEF CloseClear
<1>19. CASE CloseStream(t)
  BY <1>19 DEF CloseStream, Stream
<1>20. CASE CloseForget(t)
  BY <1>20 DEF CloseForget
<1>21. CASE IndicatorFree(t)
  BY <1>21 DEF IndicatorFree
<1>22. CASE IndicatorSet(t)
  BY <1>22 DEF IndicatorSet
<1> QED
  BY <1>1, <1>2, <1>3, <1>4, <1>5, <1>6, <1>7, <1>8, <1>9, <1>10, <1>11,
     <1>12, <1>13, <1>14, <1>15, <1>16, <1>17, <1>18, <1>19, <1>20, <1>21, <1>22
     DEF Step

(* Where a call begins.                                                    *)
LEMMA Entries ==
  /\ Entry("open") = "flags" /\ Entry("log") = "text" /\ Entry("time") = "timetext"
  /\ Entry("close") = "closestr" /\ Entry("indicator") = "indfree"
  BY DEF Entry

LEMMA CallTyped ==
  ASSUME TypeOK, Points, NEW t \in Thread, NEW o \in Ops, Call(t, o)
  PROVE  TypeOK' /\ Points'
<1>1. InCall(o, Entry(o)) /\ Entry(o) \in {"flags", "text", "timetext", "closestr", "indfree"}
  BY Entries DEF Ops, Writers, InCall, Opening, Line, Timing, Closing
<1>2. TypeOK'
  BY ZenonT(60), <1>1 DEF TypeOK, Call, Goto, Misuse, Ops, Writers, Sessions, log, heap
<1>3. misuse \subseteq misuse' /\ (o = "indicator" => "indicator" \in misuse')
  BY DEF Call, Misuse
<1>4. Points'
  BY <1>1, <1>3 DEF Points, TypeOK, Call, At, Goto
<1> QED
  BY <1>2, <1>4

LEMMA TypesKept == TypeOK /\ Points /\ [Next]_vars => TypeOK' /\ Points'
<1> SUFFICES ASSUME TypeOK, Points, [Next]_vars PROVE TypeOK' /\ Points'
  OBVIOUS
<1>1. CASE CallerCloses
  BY <1>1 DEF CallerCloses, TypeOK, Points, log, calls, Stream
<1>2. CASE UNCHANGED vars
  BY <1>2 DEF vars, log, heap, calls, history, TypeOK, Points
<1>3. ASSUME NEW t \in Thread, Step(t) PROVE TypeOK' /\ Points'
  <2>1. TypeOK'
    BY <1>3, StepTyped
  <2>2. Points'
    BY <1>3, OthersKept, OwnPoint DEF Points
  <2> QED
    BY <2>1, <2>2
<1> QED
  BY <1>1, <1>2, <1>3, CallTyped DEF Next

(* The static variables, the streams and strings and the points of the     *)
(* calls have their types, whatever overlaps and whatever is misused.      *)
THEOREM TypeCorrect == Spec => []TypeOK
<1>1. TypeOK /\ Points /\ [Next]_vars => TypeOK' /\ Points'
  BY TypesKept
<1> QED
  BY <1>1, TypesAtFirst, PTL DEF Spec

-----------------------------------------------------------------------------
(* Readers and writers, until calls overlap.                               *)

Opens(t) ==
    \/ OpenFlags(t) \/ OpenCaller(t) \/ OpenKeep(t) \/ OpenPath(t) \/ OpenOwn(t)
    \/ OpenFails(t) \/ OpenLevel(t) \/ OpenLogStr(t)

Reads(t) ==
    \/ LogText(t) \/ LogErr(t) \/ LogUsr(t) \/ LogPrint(t)
    \/ TimeText(t) \/ TimeCopy(t) \/ TimeUsr(t) \/ TimePrint(t)

Closes(t) ==
    CloseStr(t) \/ CloseClear(t) \/ CloseStream(t) \/ CloseForget(t)

Indicates(t) == IndicatorFree(t) \/ IndicatorSet(t)

LEMMA KindsOfSteps ==
  ASSUME NEW t \in Thread, Step(t)
  PROVE  Opens(t) \/ Reads(t) \/ Closes(t) \/ Indicates(t)
  BY DEF Step, Opens, Reads, Closes, Indicates

Alive == \A u \in Thread : pc[u] \notin Dead

(* A step is taken by a process that lives, in a call that allows it.      *)
LEMMA StepsInCall ==
  ASSUME Points, NEW t \in Thread, Step(t)
  PROVE  /\ Alive
         /\ Opens(t) => op[t] = "open"
         /\ Closes(t) => op[t] = "close"
         /\ Indicates(t) => op[t] = "indicator"
         /\ Reads(t) => op[t] \in {"open", "log", "time"}
         /\ op[t] # "none"
<1>1. Alive
  BY DEF Step, At, Alive, OpenFlags, OpenCaller, OpenKeep, OpenPath, OpenOwn,
         OpenFails, OpenLevel, OpenLogStr, LogText, LogErr, LogUsr, LogPrint, TimeText,
         TimeCopy, TimeUsr, TimePrint, CloseStr, CloseClear, CloseStream, CloseForget,
         IndicatorFree, IndicatorSet
<1>2. /\ Opens(t) => pc[t] \in Opening
      /\ Closes(t) => pc[t] \in Closing
      /\ Indicates(t) => pc[t] \in {"indfree", "indset"}
      /\ Reads(t) => pc[t] \in Line \cup Timing
  BY DEF Opens, Reads, Closes, Indicates, At, OpenFlags, OpenCaller, OpenKeep, OpenPath,
         OpenOwn, OpenFails, OpenLevel, OpenLogStr, LogText, LogErr, LogUsr, LogPrint,
         TimeText, TimeCopy, TimeUsr, TimePrint, CloseStr, CloseClear, CloseStream,
         CloseForget, IndicatorFree, IndicatorSet, Opening, Line, Timing, Closing
<1>3. InCall(op[t], pc[t]) /\ pc[t] \notin Dead
  BY <1>1 DEF Points, Alive
<1> QED
  BY <1>1, <1>2, <1>3, KindsOfSteps DEF InCall, Opening, Line, Timing, Closing

(* A line written changes nothing that others read.                        *)
LEMMA ReadersChangeNothing ==
  ASSUME NEW t \in Thread, Reads(t)
  PROVE  UNCHANGED <<log, heap, session, misuse>>
  BY DEF Reads, LogText, LogErr, LogUsr, LogPrint, TimeText, TimeCopy, TimeUsr, TimePrint,
         history

(* While one thread is in a call that writes, the others are in none.      *)
LEMMA OthersIdle ==
  ASSUME TypeOK, Points, WriterAlone, NEW t \in Thread, Step(t), op[t] \in Writers
  PROVE  \A u \in Thread \ {t} :
            /\ op[u] = "none" /\ pc[u] = "idle" /\ text[u] = NULL
            /\ op'[u] = "none" /\ pc'[u] = "idle" /\ text'[u] = NULL
<1> SUFFICES ASSUME NEW u \in Thread \ {t}
             PROVE  op[u] = "none" /\ pc[u] = "idle" /\ text[u] = NULL
  BY OthersKept
<1>1. op[u] = "none"
  BY DEF WriterAlone
<1>2. pc[u] \notin Dead
  BY StepsInCall DEF Alive
<1> QED
  BY <1>1, <1>2 DEF Points, InCall, Dead

LEMMA AloneKept ==
  ASSUME TypeOK, WriterAlone, "overlap" \notin misuse', Next
  PROVE  WriterAlone'
<1>1. CASE CallerCloses
  BY <1>1 DEF CallerCloses, calls, WriterAlone
<1>2. ASSUME NEW t \in Thread, Step(t) PROVE WriterAlone'
  BY <1>2, OthersKept DEF WriterAlone, Writers
<1>3. ASSUME NEW t \in Thread, NEW o \in Ops, Call(t, o) PROVE WriterAlone'
  <2>1. \A u \in Thread : op[u] # "none" => o \notin Writers /\ op[u] \notin Writers
    BY <1>3 DEF Call, Misuse
  <2>2. op'[t] = o /\ \A u \in Thread \ {t} : op'[u] = op[u]
    BY <1>3 DEF Call, TypeOK
  <2> QED
    BY <2>1, <2>2 DEF WriterAlone, Writers
<1> QED
  BY <1>1, <1>2, <1>3 DEF Next

(* A call leaves the log as it is, and tells what it is up to.             *)
LEMMA CallPoints ==
  ASSUME TypeOK, Points, NEW t \in Thread, NEW o \in Ops, Call(t, o)
  PROVE  /\ op[t] = "none" /\ pc[t] = "idle" /\ text[t] = NULL /\ Alive
         /\ op'[t] = o /\ pc'[t] = Entry(o)
         /\ pc'[t] \in {"flags", "text", "timetext", "closestr", "indfree"}
         /\ pc'[t] = "flags" <=> o = "open"
         /\ pc'[t] = "closestr" <=> o = "close"
         /\ \A u \in Thread \ {t} : pc'[u] = pc[u] /\ op'[u] = op[u]
         /\ UNCHANGED <<log, heap, text>>
  BY Entries DEF Call, At, Goto, TypeOK, Points, InCall, Ops, Writers, Alive, Dead,
                 Opening, Line, Timing, Closing

(* A call that writes finds the log without others, unless calls overlap.  *)
LEMMA CallsOverlap ==
  ASSUME Points, NEW t \in Thread, NEW o \in Ops, Call(t, o), "overlap" \notin misuse'
  PROVE  \A u \in Thread : op[u] # "none" => o \notin Writers /\ op[u] \notin Writers
  BY DEF Call, Misuse

LEMMA UnderwayStep ==
  ASSUME TypeOK, Points, WriterAlone, Underway, NEW t \in Thread, Step(t)
  PROVE  Underway'
<1>1. CASE Reads(t)
  <2>1. pc'[t] \notin {"stream", "keep", "own"} /\ pc[t] # "flags"
    BY <1>1 DEF Reads, LogText, LogErr, LogUsr, LogPrint, TimeText, TimeCopy, TimeUsr,
                TimePrint, At, Goto, GotoIf, Finish, Back, TypeOK
  <2>2. op'[t] = op[t] \/ op'[t] = "none"
    BY OthersKept
  <2>3. UNCHANGED <<log, session>>
    BY <1>1, ReadersChangeNothing
  <2> QED
    BY <2>1, <2>2, <2>3, OthersKept DEF Underway, log
<1>2. CASE ~Reads(t)
  <2>1. \A u \in Thread \ {t} : op'[u] = "none" /\ pc'[u] = "idle"
    BY <1>2, KindsOfSteps, StepsInCall, OthersIdle DEF Writers
  <2>2. /\ op'[t] = "close" => session' = "shut"
        /\ op'[t] = "open" /\ pc'[t] # "flags" => session' \in {"opening", "bare"}
        /\ pc'[t] \in {"stream", "keep", "own"} => session' = "opening"
        /\ pc'[t] = "keep" => scar_logfp' = Caller
        /\ pc'[t] = "own" => scar_logfp' \in Own
    <3> USE DEF Underway, TypeOK, At, Goto, GotoIf, Return, FreeString, history
    <3>1. CASE Closes(t) \/ Indicates(t)
      <4>1. pc'[t] \notin {"stream", "keep", "own"}
        BY <3>1 DEF Closes, Indicates, CloseStr, CloseClear, CloseStream, CloseForget,
                    IndicatorFree, IndicatorSet
      <4>2. op'[t] # "open" /\ (op'[t] = "close" => op[t] = "close")
        BY <3>1, StepsInCall, OthersKept
      <4>3. session' = session
        BY <3>1 DEF Closes, Indicates, CloseStr, CloseClear, CloseStream, CloseForget,
                    IndicatorFree, IndicatorSet
      <4> QED
        BY <4>1, <4>2, <4>3
    <3>2. CASE OpenFlags(t) \/ OpenCaller(t) \/ OpenKeep(t) \/ OpenPath(t) \/ OpenOwn(t)
      <4>1. op[t] = "open"
        BY <3>2, StepsInCall DEF Opens
      <4> QED
        BY <3>2, <4>1 DEF OpenFlags, OpenCaller, OpenKeep, OpenPath, OpenOwn
    <3>3. CASE OpenFails(t) \/ OpenLevel(t) \/ OpenLogStr(t)
      <4>1. op[t] = "open"
        BY <3>3, StepsInCall DEF Opens
      <4> QED
        BY <3>3, <4>1 DEF OpenFails, OpenLevel, OpenLogStr
    <3> QED
      BY <1>2, <3>1, <3>2, <3>3, KindsOfSteps DEF Opens
  <2> QED
    BY <2>1, <2>2 DEF Underway
<1> QED
  BY <1>1, <1>2

LEMMA UnderwayKept ==
  ASSUME TypeOK, Points, WriterAlone, Underway, "overlap" \notin misuse', Next
  PROVE  Underway'
<1>1. CASE CallerCloses
  BY <1>1 DEF CallerCloses, calls, log, Underway
<1>2. ASSUME NEW t \in Thread, NEW o \in Ops, Call(t, o) PROVE Underway'
  <2>1. scar_logfp' = scar_logfp /\ session' = IF o = "close" THEN "shut" ELSE session
    BY <1>2 DEF Call, log
  <2>2. CASE o = "close"
    <3>1. \A u \in Thread \ {t} : op[u] = "none" /\ pc[u] \in {"idle"} \cup Dead
      BY <1>2, <2>2, CallsOverlap DEF Points, InCall, Writers
    <3> QED
      BY <1>2, <2>1, <2>2, <3>1, CallPoints DEF Underway, Dead
  <2>3. CASE o # "close"
    BY <1>2, <2>1, <2>3, CallPoints DEF Underway
  <2> QED
    BY <2>2, <2>3
<1> QED
  BY <1>1, <1>2, UnderwayStep DEF Next

-----------------------------------------------------------------------------
(* The program's own stream.                                               *)

LEMMA CallerNotClosedStep ==
  ASSUME TypeOK, Points, WriterAlone, Underway, CallerNotClosed, NEW t \in Thread, Step(t)
  PROVE  CallerNotClosed'
<1> USE ConstantsAssumption DEF ConstantsAssumption, Stream
<1>1. CASE Reads(t)
  <2>1. UNCHANGED <<log, heap, session, misuse>>
    BY <1>1, ReadersChangeNothing
  <2>2. pc[t] # "keep"
    BY <1>1 DEF Reads, LogText, LogErr, LogUsr, LogPrint, TimeText, TimeCopy, TimeUsr,
                TimePrint, At
  <2> QED
    BY <2>1, <2>2, OthersKept DEF CallerNotClosed, log, heap
<1>2. CASE ~Reads(t)
  <2>1. /\ \A u \in Thread \ {t} : pc[u] = "idle" /\ pc'[u] = "idle"
        /\ misuse' = misuse
    BY <1>2, KindsOfSteps, StepsInCall, OthersIdle, OthersKept DEF Writers
  <2>2. scar_logfp = Caller /\ should_close_scar_logfp = 1 => pc[t] = "keep"
    BY <2>1 DEF CallerNotClosed
  <2> USE DEF TypeOK, At, Goto, GotoIf, Return, history
  <2>3. CASE OpenFlags(t) \/ OpenLevel(t) \/ OpenLogStr(t) \/ OpenFails(t)
    BY <2>1, <2>2, <2>3 DEF CallerNotClosed, OpenFlags, OpenLevel, OpenLogStr, OpenFails,
                            log, heap
  <2>4. CASE OpenCaller(t) \/ OpenKeep(t)
    BY <2>1, <2>2, <2>4 DEF CallerNotClosed, OpenCaller, OpenKeep, heap
  <2>5. CASE OpenPath(t) \/ OpenOwn(t)
    BY <2>1, <2>2, <2>5 DEF CallerNotClosed, OpenPath, OpenOwn, heap, Underway
  <2>6. CASE CloseStr(t) \/ CloseClear(t) \/ CloseForget(t)
    BY <2>1, <2>2, <2>6 DEF CallerNotClosed, CloseStr, CloseClear, CloseForget, log, heap
  <2>7. CASE CloseStream(t)
    BY <2>1, <2>2, <2>7 DEF CallerNotClosed, CloseStream, log
  <2>8. CASE Indicates(t)
    BY <2>1, <2>2, <2>8 DEF CallerNotClosed, Indicates, IndicatorFree, IndicatorSet, log
  <2> QED
    BY <1>2, <2>3, <2>4, <2>5, <2>6, <2>7, <2>8, KindsOfSteps DEF Opens, Closes
<1> QED
  BY <1>1, <1>2

LEMMA CallerNotClosedKept ==
  ASSUME TypeOK, Points, WriterAlone, Underway, CallerNotClosed, Next
  PROVE  CallerNotClosed'
<1>1. CASE CallerCloses
  BY <1>1 DEF CallerCloses, calls, log, CallerNotClosed
<1>2. ASSUME NEW t \in Thread, NEW o \in Ops, Call(t, o) PROVE CallerNotClosed'
  <2>1. UNCHANGED <<log, heap>> /\ ("callerclosed" \in misuse => "callerclosed" \in misuse')
    BY <1>2 DEF Call
  <2> QED
    BY <1>2, <2>1, CallPoints DEF CallerNotClosed, log, heap
<1> QED
  BY <1>1, <1>2, CallerNotClosedStep DEF Next

-----------------------------------------------------------------------------
(* The stream of an open log.                                              *)

LEMMA StreamSetStep ==
  ASSUME TypeOK, Points, WriterAlone, Underway, StreamSet, NEW t \in Thread, Step(t)
  PROVE  StreamSet'
<1>1. CASE Reads(t)
  <2>1. UNCHANGED <<log, session>>
    BY <1>1, ReadersChangeNothing
  <2>2. op'[t] = op[t] \/ op'[t] = "none"
    BY OthersKept
  <2>3. pc[t] \notin {"flags", "stream"}
    BY <1>1 DEF Reads, LogText, LogErr, LogUsr, LogPrint, TimeText, TimeCopy, TimeUsr,
                TimePrint, At
  <2>4. lost' # "open"
    BY <1>1 DEF Reads, LogText, LogErr, LogUsr, LogPrint, TimeText, TimeCopy, TimeUsr,
                TimePrint, StreamSet, Unopened, history
  <2> QED
    BY <2>1, <2>2, <2>3, <2>4, OthersKept DEF StreamSet, log
<1>2. CASE ~Reads(t)
  <2>1. \A u \in Thread \ {t} : op[u] = "none" /\ op'[u] = "none"
    BY <1>2, KindsOfSteps, StepsInCall, OthersIdle DEF Writers
  <2>2. SUFFICES
          /\ session' = "open" => scar_logfp' # NULL
          /\ op'[t] = "open" /\ session' = "opening" /\ pc'[t] \notin {"flags", "stream"} =>
                scar_logfp' # NULL
          /\ lost' # "open"
    BY <2>1 DEF StreamSet
  <2> USE ConstantsAssumption
      DEF ConstantsAssumption, TypeOK, At, Goto, GotoIf, Return, history, StreamSet, log
  <2>3. CASE OpenFlags(t) \/ OpenCaller(t) \/ OpenKeep(t) \/ OpenPath(t) \/ OpenOwn(t)
    <3>1. op[t] = "open" /\ (pc[t] # "flags" => session \in {"opening", "bare"})
      BY <2>3, StepsInCall DEF Opens, Underway
    <3> QED
      BY <2>3, <3>1 DEF OpenFlags, OpenCaller, OpenKeep, OpenPath, OpenOwn
  <2>4. CASE OpenFails(t) \/ OpenLevel(t) \/ OpenLogStr(t)
    <3>1. op[t] = "open" /\ (pc[t] # "flags" => session \in {"opening", "bare"})
      BY <2>4, StepsInCall DEF Opens, Underway
    <3> QED
      BY <2>4, <3>1 DEF OpenFails, OpenLevel, OpenLogStr
  <2>5. CASE Closes(t)
    <3>1. op[t] = "close" /\ session = "shut" /\ op'[t] # "open"
      BY <2>5, StepsInCall, OthersKept DEF Underway
    <3> QED
      BY <2>5, <3>1 DEF Closes, CloseStr, CloseClear, CloseStream, CloseForget
  <2>6. CASE Indicates(t)
    <3>1. op'[t] # "open"
      BY <2>6, StepsInCall, OthersKept
    <3> QED
      BY <2>6, <3>1 DEF Indicates, IndicatorFree, IndicatorSet
  <2> QED
    BY <1>2, <2>3, <2>4, <2>5, <2>6, KindsOfSteps DEF Opens
<1> QED
  BY <1>1, <1>2

LEMMA StreamSetKept ==
  ASSUME TypeOK, Points, WriterAlone, Underway, StreamSet, Next
  PROVE  StreamSet'
<1>1. CASE CallerCloses
  BY <1>1 DEF CallerCloses, calls, log, StreamSet
<1>2. ASSUME NEW t \in Thread, NEW o \in Ops, Call(t, o) PROVE StreamSet'
  <2>1. scar_logfp' = scar_logfp /\ lost' = lost /\ session' \in {session, "shut"}
    BY <1>2 DEF Call, log
  <2>2. op'[t] = "open" => pc'[t] = "flags"
    BY <1>2, CallPoints
  <2> QED
    BY <1>2, <2>1, <2>2, CallPoints DEF StreamSet
<1> QED
  BY <1>1, <1>2, StreamSetStep DEF Next

-----------------------------------------------------------------------------
(* The stream and the string the log has made itself.                      *)

LEMMA OneStreamStep ==
  ASSUME TypeOK, Points, WriterAlone, Underway, OneStream, NEW t \in Thread, Step(t)
  PROVE  OneStream'
<1> USE ConstantsAssumption DEF ConstantsAssumption, Stream
<1>1. CASE Reads(t)
  <2>1. UNCHANGED <<log, heap, session, misuse>>
    BY <1>1, ReadersChangeNothing
  <2>2. /\ pc[t] \notin {"own"}
        /\ pc'[t] \notin {"flags", "stream", "keep", "forget"}
    BY <1>1 DEF Reads, LogText, LogErr, LogUsr, LogPrint, TimeText, TimeCopy, TimeUsr,
                TimePrint, At, Goto, GotoIf, Finish, Back, TypeOK
  <2>3. op[t] # "close"
    BY <1>1, StepsInCall
  <2> QED
    BY <2>1, <2>2, <2>3, OthersKept DEF OneStream, Shut, log, heap
<1>2. CASE ~Reads(t)
  <2>1. /\ \A u \in Thread \ {t} : /\ op[u] = "none" /\ pc[u] = "idle"
                                   /\ op'[u] = "none" /\ pc'[u] = "idle"
        /\ misuse' = misuse
    BY <1>2, KindsOfSteps, StepsInCall, OthersIdle, OthersKept DEF Writers
  <2>2. \A s \in Own : stream[s] = "open" =>
           scar_logfp = s /\ (should_close_scar_logfp = 1 \/ pc[t] = "own")
    BY <2>1 DEF OneStream
  <2>3. (session = "shut" /\ op[t] # "close") \/ pc[t] \in {"flags", "stream", "keep", "forget"}
           => \A s \in Own : stream[s] = "closed"
    BY <2>1 DEF OneStream, Shut
  <2>4. SUFFICES
          /\ \A s \in Own : stream'[s] = "open" =>
                scar_logfp' = s /\ (should_close_scar_logfp' = 1 \/ pc'[t] = "own")
          /\ (session' = "shut" /\ op'[t] # "close")
             \/ pc'[t] \in {"flags", "stream", "keep", "forget"}
                => \A s \in Own : stream'[s] = "closed"
    BY <2>1 DEF OneStream, Shut
  <2> USE DEF TypeOK, At, Goto, GotoIf, Return, history
  <2>5. CASE Opens(t)
    <3>1. op[t] = "open" /\ (pc[t] # "flags" => session # "shut")
      BY <2>5, StepsInCall DEF Underway
    <3> USE <2>2, <2>3, <3>1
    <3>2. CASE OpenFlags(t)
      BY <3>2 DEF OpenFlags, heap
    <3>3. CASE OpenCaller(t)
      BY <3>3 DEF OpenCaller, heap
    <3>4. CASE OpenKeep(t)
      BY <3>4 DEF OpenKeep, heap
    <3>5. CASE OpenPath(t)
      BY <3>5 DEF OpenPath
    <3>6. CASE OpenOwn(t)
      BY <3>6 DEF OpenOwn, heap
    <3>7. CASE OpenFails(t)
      BY <3>7 DEF OpenFails, heap
    <3>8. CASE OpenLevel(t)
      BY <3>8 DEF OpenLevel, heap, log
    <3>9. CASE OpenLogStr(t)
      BY <3>9 DEF OpenLogStr
    <3> QED
      BY <2>5, <3>2, <3>3, <3>4, <3>5, <3>6, <3>7, <3>8, <3>9 DEF Opens
  <2>6. CASE Closes(t)
    <3>1. op[t] = "close"
      BY <2>6, StepsInCall
    <3> USE <2>2, <2>3, <3>1
    <3>2. CASE CloseStr(t)
      BY <3>2 DEF CloseStr, FreeString, log
    <3>3. CASE CloseClear(t)
      BY <3>3 DEF CloseClear, heap
    <3>4. CASE CloseStream(t)
      BY <3>4 DEF CloseStream, log
    <3>5. CASE CloseForget(t)
      BY <3>5 DEF CloseForget, heap
    <3> QED
      BY <2>6, <3>2, <3>3, <3>4, <3>5 DEF Closes
  <2>7. CASE Indicates(t)
    <3>1. op[t] = "indicator"
      BY <2>7, StepsInCall
    <3> QED
      BY <2>2, <2>3, <2>7, <3>1 DEF Indicates, IndicatorFree, IndicatorSet, FreeString, log
  <2> QED
    BY <1>2, <2>5, <2>6, <2>7, KindsOfSteps
<1> QED
  BY <1>1, <1>2

(* Neither "overlap" nor "reopen" has happened: an open finds the log shut. *)
LEMMA OneStreamKept ==
  ASSUME TypeOK, Points, WriterAlone, Underway, OneStream, Next,
         {"overlap", "reopen"} \cap misuse' = {}
  PROVE  OneStream'
<1>1. CASE CallerCloses
  BY <1>1, ConstantsAssumption
     DEF ConstantsAssumption, CallerCloses, calls, log, OneStream, Shut, TypeOK, Stream
<1>2. ASSUME NEW t \in Thread, NEW o \in Ops, Call(t, o) PROVE OneStream'
  <2>1. o = "open" => session = "shut" /\ \A u \in Thread : op[u] = "none"
    BY <1>2, CallsOverlap DEF Call, Misuse, Writers
  <2>2. /\ session' = session \/ o = "close"
        /\ UNCHANGED <<stream, scar_logfp, should_close_scar_logfp>>
    BY <1>2 DEF Call, log, heap
  <2>3. \A s \in Own : stream'[s] = "open" =>
           scar_logfp' = s /\ (should_close_scar_logfp' = 1 \/ \E u \in Thread : pc'[u] = "own")
    BY <1>2, <2>2, CallPoints DEF OneStream
  <2>4. ASSUME Shut' \/ \E u \in Thread : pc'[u] \in {"flags", "stream", "keep", "forget"}
        PROVE  Shut \/ \E u \in Thread : pc[u] \in {"flags", "stream", "keep", "forget"}
    <3>1. CASE o = "open"
      BY <2>1, <3>1 DEF Shut
    <3>2. CASE o = "close"
      BY <1>2, <2>4, <3>2, CallPoints DEF Shut
    <3>3. CASE o \notin {"open", "close"}
      <4>1. CASE Shut'
        BY <1>2, <2>2, <3>3, <4>1, CallPoints DEF Shut
      <4>2. CASE ~Shut'
        BY <1>2, <2>4, <3>3, <4>2, CallPoints
      <4> QED
        BY <4>1, <4>2
    <3> QED
      BY <3>1, <3>2, <3>3
  <2> QED
    BY <2>2, <2>3, <2>4 DEF OneStream
<1>3. ASSUME NEW t \in Thread, Step(t) PROVE OneStream'
  BY <1>3, OneStreamStep
<1> QED
  BY <1>1, <1>2, <1>3 DEF Next

LEMMA OneStringStep ==
  ASSUME TypeOK, Points, WriterAlone, Underway, OneString, NEW t \in Thread, Step(t),
         ~Indicates(t)
  PROVE  OneString'
<1> USE ConstantsAssumption DEF ConstantsAssumption
<1>1. CASE Reads(t)
  <2>1. UNCHANGED <<log, heap, session, misuse>>
    BY <1>1, ReadersChangeNothing
  <2>2. pc'[t] \notin {"clearstr", "closestream", "forget"}
    BY <1>1 DEF Reads, LogText, LogErr, LogUsr, LogPrint, TimeText, TimeCopy, TimeUsr,
                TimePrint, At, Goto, GotoIf, Finish, Back, TypeOK
  <2>3. op[t] # "close"
    BY <1>1, StepsInCall
  <2>4. op'[t] = op[t] \/ op'[t] = "none"
    BY OthersKept
  <2> QED
    BY <2>1, <2>2, <2>3, <2>4, OthersKept DEF OneString, Shut, log, heap
<1>2. CASE ~Reads(t)
  <2>1. \A u \in Thread \ {t} : /\ op[u] = "none" /\ pc[u] = "idle"
                                 /\ op'[u] = "none" /\ pc'[u] = "idle"
    BY <1>2, KindsOfSteps, StepsInCall, OthersIdle DEF Writers
  <2>2. \A s \in Str : string[s] # "free" => extra_logstr = s
    BY DEF OneString
  <2>3. (session = "shut" /\ op[t] # "close") \/ session = "failed"
           \/ op[t] = "open" \/ pc[t] \in {"clearstr", "closestream", "forget"}
              => \A s \in Str : string[s] = "free"
    BY <2>1 DEF OneString, Shut
  <2>4. SUFFICES
          /\ \A s \in Str : string'[s] # "free" => extra_logstr' = s
          /\ (session' = "shut" /\ op'[t] # "close") \/ session' = "failed"
             \/ op'[t] = "open" \/ pc'[t] \in {"clearstr", "closestream", "forget"}
                => \A s \in Str : string'[s] = "free"
    BY <2>1 DEF OneString, Shut
  <2> USE DEF TypeOK, At, Goto, GotoIf, Return, history
  <2>5. CASE Opens(t)
    <3>1. /\ op[t] = "open" /\ (pc[t] # "flags" => session \in {"opening", "bare"})
          /\ \A s \in Str : string[s] = "free"
      BY <2>3, <2>5, StepsInCall DEF Underway
    <3>2. CASE ~OpenLogStr(t)
      <4>1. string' = string
        BY <2>5, <3>2 DEF Opens, OpenFlags, OpenCaller, OpenKeep, OpenPath, OpenOwn,
                          OpenFails, OpenLevel, heap
      <4> QED
        BY <3>1, <4>1
    <3>3. CASE OpenLogStr(t)
      <4>1. op'[t] = "none" /\ pc'[t] = "idle" /\ session' \notin {"shut", "failed"}
        BY <3>1, <3>3 DEF OpenLogStr
      <4>2. \A s \in Str : string'[s] # "free" => extra_logstr' = s
        BY <3>1, <3>3 DEF OpenLogStr
      <4> QED
        BY <4>1, <4>2
    <3> QED
      BY <3>2, <3>3
  <2>6. CASE Closes(t)
    <3>1. op[t] = "close"
      BY <2>6, StepsInCall
    <3>2. CASE CloseStr(t)
      <4>1. \A s \in Str : string'[s] = "free"
        BY <2>2, <3>2 DEF CloseStr, FreeString
      <4> QED
        BY <4>1
    <3>3. CASE CloseClear(t) \/ CloseStream(t) \/ CloseForget(t)
      <4>1. string' = string /\ \A s \in Str : string[s] = "free"
        BY <2>3, <3>3 DEF CloseClear, CloseStream, CloseForget, heap
      <4> QED
        BY <4>1
    <3> QED
      BY <2>6, <3>2, <3>3 DEF Closes
  <2> QED
    BY <1>2, <2>5, <2>6, KindsOfSteps
<1> QED
  BY <1>1, <1>2

LEMMA OneStringKept ==
  ASSUME TypeOK, Points, WriterAlone, Underway, OneString, Next,
         {"overlap", "reopen", "indicator"} \cap misuse' = {}
  PROVE  OneString'
<1>1. CASE CallerCloses
  BY <1>1 DEF CallerCloses, calls, log, OneString, Shut
<1>2. ASSUME NEW t \in Thread, NEW o \in Ops, Call(t, o) PROVE OneString'
  <2>1. o = "open" => session = "shut" /\ \A u \in Thread : op[u] = "none"
    BY <1>2, CallsOverlap DEF Call, Misuse, Writers
  <2>2. (session' = session \/ o = "close") /\ UNCHANGED <<string, extra_logstr>>
    BY <1>2 DEF Call, log, heap
  <2>3. o = "close" => session' = "shut"
    BY <1>2 DEF Call
  <2>4. ASSUME \/ Shut' \/ session' = "failed"
               \/ \E u \in Thread : \/ op'[u] = "open"
                                    \/ pc'[u] \in {"clearstr", "closestream", "forget"}
        PROVE  \/ Shut \/ session = "failed"
               \/ \E u \in Thread : \/ op[u] = "open"
                                    \/ pc[u] \in {"clearstr", "closestream", "forget"}
    <3>1. CASE o = "open"
      BY <2>1, <3>1 DEF Shut
    <3>2. CASE o = "close"
      BY <1>2, <2>3, <2>4, <3>2, CallPoints DEF Shut
    <3>3. CASE o \notin {"open", "close"}
      <4>1. CASE Shut'
        BY <1>2, <2>2, <3>3, <4>1, CallPoints DEF Shut
      <4>2. CASE ~Shut'
        BY <1>2, <2>2, <2>4, <3>3, <4>2, CallPoints
      <4> QED
        BY <4>1, <4>2
    <3> QED
      BY <3>1, <3>2, <3>3
  <2> QED
    BY <2>2, <2>4 DEF OneString
<1>3. ASSUME NEW t \in Thread, Step(t) PROVE OneString'
  <2>1. op[t] # "indicator"
    BY <1>3, OthersKept DEF Points
  <2> QED
    BY <1>3, <2>1, OneStringStep, StepsInCall
<1> QED
  BY <1>1, <1>2, <1>3 DEF Next

-----------------------------------------------------------------------------
(* Nothing is used that is not there.                                      *)

LEMMA ReadsSound ==
  ASSUME TypeOK, Points, WriterAlone, StreamThere, StringThere,
         NEW t \in Thread, Step(t), Reads(t)
  PROVE  StreamThere' /\ StringThere' /\ NobodyCrashed'
<1>1. UNCHANGED <<log, heap, session, misuse>>
  BY ReadersChangeNothing
<1>2. Alive /\ op[t] # "none"
  BY StepsInCall
<1>3. \A u \in Thread : pc[u] \notin {"forget", "clearstr"}
  <2>1. SUFFICES ASSUME NEW u \in Thread, pc[u] \in {"forget", "clearstr"} PROVE FALSE
    OBVIOUS
  <2>2. op[u] = "close"
    BY <2>1 DEF Points, InCall, Line, Opening, Timing, Dead
  <2>3. u = t
    BY <1>2, <2>2 DEF WriterAlone, Writers
  <2> QED
    BY <2>2, <2>3, StepsInCall
<1>4. scar_logfp = NULL \/ stream[scar_logfp] = "open"
  BY <1>3 DEF StreamThere
<1>5. extra_logstr = NULL \/ string[extra_logstr] = "ended"
  BY <1>3 DEF StringThere
<1>6. StringSound(t)
  BY DEF StringSound, StringThere
<1>7. pc[t] \in {"usrprint", "timeprint"} => PrintSound(t)
  BY <1>4, <1>6 DEF PrintSound, StreamThere
<1>8. /\ pc'[t] \notin {"crashed", "closestr", "clearstr", "closestream", "flags", "stream"}
      /\ pc'[t] \in {"usrprint", "timeprint"} => scar_logfp # NULL
      /\ text'[t] = NULL \/ text'[t] = extra_logstr
      /\ pc[t] \notin {"flags", "stream"}
  <2> USE <1>6, <1>7 DEF TypeOK, At, Goto, GotoIf, Finish, Back, Points, history
  <2>1. CASE LogText(t)
    BY <2>1 DEF LogText
  <2>2. CASE LogErr(t)
    BY <2>2 DEF LogErr
  <2>3. CASE LogUsr(t)
    BY <2>3 DEF LogUsr
  <2>4. CASE LogPrint(t)
    BY <2>4 DEF LogPrint
  <2>5. CASE TimeText(t)
    BY <2>5 DEF TimeText
  <2>6. CASE TimeCopy(t)
    BY <2>6 DEF TimeCopy
  <2>7. CASE TimeUsr(t)
    BY <2>7 DEF TimeUsr
  <2>8. CASE TimePrint(t)
    BY <2>8 DEF TimePrint
  <2> QED
    BY <2>1, <2>2, <2>3, <2>4, <2>5, <2>6, <2>7, <2>8 DEF Reads
<1>9. NobodyCrashed'
  BY <1>2, <1>8, OthersKept DEF NobodyCrashed, Alive, Dead
<1>10. StringThere'
  BY <1>1, <1>5, <1>8, OthersKept DEF StringThere, log, heap
<1>11. StreamThere'
  BY <1>1, <1>4, <1>8, OthersKept DEF StreamThere, log, heap
<1> QED
  BY <1>9, <1>10, <1>11

LEMMA WritesSound ==
  ASSUME TypeOK, Points, WriterAlone, Underway, CallerNotClosed, StreamThere, StringThere,
         NEW t \in Thread, Step(t), Opens(t) \/ Closes(t), "callerclosed" \notin misuse
  PROVE  StreamThere' /\ StringThere' /\ NobodyCrashed'
<1> USE ConstantsAssumption DEF ConstantsAssumption
<1>1. /\ \A u \in Thread \ {t} : /\ op[u] = "none" /\ pc[u] = "idle" /\ text[u] = NULL
                                 /\ op'[u] = "none" /\ pc'[u] = "idle" /\ text'[u] = NULL
      /\ op[t] = (IF Opens(t) THEN "open" ELSE "close")
  BY StepsInCall, OthersIdle DEF Writers
<1>2. /\ scar_logfp = NULL \/ stream[scar_logfp] = "open" \/ pc[t] = "forget"
      /\ pc[t] \in {"closestr", "clearstr", "closestream"} => scar_logfp # NULL
  BY <1>1 DEF StreamThere
<1>3. extra_logstr = NULL \/ string[extra_logstr] = "ended" \/ pc[t] = "clearstr"
  BY <1>1 DEF StringThere
<1>4. /\ scar_logfp = Caller /\ should_close_scar_logfp = 1 => pc[t] = "keep"
      /\ stream[Caller] = "open"
  BY <1>1 DEF CallerNotClosed
<1>5. text[t] = NULL
  BY DEF Points, Opens, Closes, At, OpenFlags, OpenCaller, OpenKeep, OpenPath, OpenOwn,
         OpenFails, OpenLevel, OpenLogStr, CloseStr, CloseClear, CloseStream, CloseForget
<1>6. SUFFICES
        /\ scar_logfp' = NULL \/ stream'[scar_logfp'] = "open" \/ pc'[t] = "forget"
        /\ pc'[t] \in {"usrprint", "timeprint", "closestr", "clearstr", "closestream"} =>
              scar_logfp' # NULL
        /\ extra_logstr' = NULL \/ string'[extra_logstr'] = "ended" \/ pc'[t] = "clearstr"
        /\ text'[t] = NULL
        /\ pc'[t] # "crashed"
  BY <1>1 DEF StreamThere, StringThere, NobodyCrashed
<1> USE <1>2, <1>3, <1>4, <1>5 DEF TypeOK, At, Goto, GotoIf, Return, Stream, history
<1>7. CASE Opens(t)
  <2>1. op[t] = "open" /\ (pc[t] # "flags" => session \in {"opening", "bare"})
    BY <1>1, <1>7 DEF Underway
  <2> USE <2>1
  <2>2. CASE OpenFlags(t)
    BY <2>2 DEF OpenFlags, heap
  <2>3. CASE OpenCaller(t)
    BY <2>3 DEF OpenCaller, heap
  <2>4. CASE OpenKeep(t)
    BY <2>4 DEF OpenKeep, heap
  <2>5. CASE OpenPath(t)
    BY <2>5 DEF OpenPath
  <2>6. CASE OpenOwn(t)
    BY <2>6 DEF OpenOwn, heap
  <2>7. CASE OpenFails(t)
    BY <2>7 DEF OpenFails, heap
  <2>8. CASE OpenLevel(t)
    BY <2>8 DEF OpenLevel, heap, log
  <2>9. CASE OpenLogStr(t)
    BY <2>9 DEF OpenLogStr
  <2> QED
    BY <1>7, <2>2, <2>3, <2>4, <2>5, <2>6, <2>7, <2>8, <2>9 DEF Opens
<1>8. CASE Closes(t)
  <2>1. op[t] = "close"
    BY <1>8, StepsInCall
  <2> USE <2>1
  <2>2. CASE CloseStr(t)
    BY <2>2 DEF CloseStr, FreeString, log
  <2>3. CASE CloseClear(t)
    BY <2>3 DEF CloseClear, heap
  <2>4. CASE CloseStream(t)
    BY <2>4 DEF CloseStream, log
  <2>5. CASE CloseForget(t)
    <3>1. session = "shut"
      BY <2>1 DEF Underway
    <3> QED
      BY <2>5, <3>1 DEF CloseForget, heap
  <2> QED
    BY <1>8, <2>2, <2>3, <2>4, <2>5 DEF Closes
<1> QED
  BY <1>7, <1>8

LEMMA SoundKept ==
  ASSUME TypeOK, Points, WriterAlone, Underway, CallerNotClosed, StreamSet,
         StreamThere, StringThere, NobodyCrashed, Next, misuse' \subseteq {"reopen"}
  PROVE  StreamThere' /\ StringThere' /\ NobodyCrashed'
<1>1. ~CallerCloses
  BY DEF CallerCloses
<1>2. ASSUME NEW t \in Thread, NEW o \in Ops, Call(t, o)
      PROVE  StreamThere' /\ StringThere' /\ NobodyCrashed'
  <2>1. o = "close" => session = "open"
    BY <1>2 DEF Call, Misuse
  <2>2. session' \in {session, "shut"} /\ UNCHANGED <<log, heap, text>>
    BY <1>2 DEF Call
  <2>3. o = "open" \/ o = "close" => \A u \in Thread : op[u] = "none"
    BY <1>2, CallsOverlap DEF Writers
  <2>4. NobodyCrashed'
    BY <1>2, CallPoints DEF NobodyCrashed
  <2>5. StringThere'
    BY <1>2, <2>2, CallPoints DEF StringThere, log, heap
  <2>6. StreamThere'
    BY <1>2, <2>1, <2>2, <2>3, CallPoints DEF StreamThere, StreamSet, log, heap
  <2> QED
    BY <2>4, <2>5, <2>6
<1>3. ASSUME NEW t \in Thread, Step(t)
      PROVE  StreamThere' /\ StringThere' /\ NobodyCrashed'
  <2>1. op[t] # "indicator" /\ "callerclosed" \notin misuse
    BY <1>3, OthersKept DEF Points
  <2> QED
    BY <1>3, <2>1, KindsOfSteps, StepsInCall, ReadsSound, WritesSound
<1> QED
  BY <1>1, <1>2, <1>3 DEF Next

-----------------------------------------------------------------------------
(* The theorems.                                                           *)

LEMMA LogAtFirst == Init => LogInv
<1> SUFFICES ASSUME Init PROVE LogInv
  OBVIOUS
<1>1. WriterAlone /\ Underway /\ CallerNotClosed /\ StreamSet
  BY ConstantsAssumption
     DEF ConstantsAssumption, Init, WriterAlone, Underway, CallerNotClosed, StreamSet,
         Writers, Stream
<1>2. OneStream /\ OneString
  BY ConstantsAssumption DEF ConstantsAssumption, Init, OneStream, OneString, Shut, Stream
<1>3. StreamThere /\ StringThere /\ NobodyCrashed
  BY DEF Init, StreamThere, StringThere, NobodyCrashed
<1> QED
  BY <1>1, <1>2, <1>3, TypesAtFirst DEF LogInv

(* What callers did is not forgotten.                                      *)
LEMMA MisuseGrows == TypeOK /\ Next => misuse \subseteq misuse'
  BY OthersKept DEF Next, Call, CallerCloses

(* The inductive invariant.  Whoever writes is alone until calls overlap;  *)
(* the log knows its own stream and string until it is opened over them,   *)
(* and all it uses is there until something is done that it does not stand.*)
THEOREM LogInvHolds == Spec => []LogInv
<1>1. LogInv /\ Next => LogInv'
  <2> SUFFICES ASSUME LogInv, Next PROVE LogInv'
    OBVIOUS
  <2>1. TypeOK /\ Points /\ TypeOK' /\ Points'
    BY TypesKept DEF LogInv
  <2>2. misuse \subseteq misuse'
    BY <2>1, MisuseGrows
  <2>3. ASSUME "overlap" \notin misuse'
        PROVE  /\ WriterAlone /\ Underway /\ CallerNotClosed /\ StreamSet
               /\ WriterAlone' /\ Underway' /\ CallerNotClosed' /\ StreamSet'
    <3>1. WriterAlone /\ Underway /\ CallerNotClosed /\ StreamSet
      BY <2>2, <2>3 DEF LogInv
    <3> QED
      BY <2>1, <2>3, <3>1, AloneKept, UnderwayKept, CallerNotClosedKept, StreamSetKept
  <2>4. ASSUME misuse' \cap {"overlap", "reopen", "indicator"} = {}
        PROVE  OneStream' /\ OneString'
    <3>1. OneStream /\ OneString
      BY <2>2, <2>4 DEF LogInv
    <3> QED
      BY <2>1, <2>3, <2>4, <3>1, OneStreamKept, OneStringKept
  <2>5. ASSUME misuse' \subseteq {"reopen"}
        PROVE  StreamThere' /\ StringThere' /\ NobodyCrashed'
    <3>1. StreamThere /\ StringThere /\ NobodyCrashed
      BY <2>2, <2>5 DEF LogInv
    <3> QED
      BY <2>1, <2>3, <2>5, <3>1, SoundKept
  <2> QED
    BY <2>1, <2>3, <2>4, <2>5 DEF LogInv
<1>2. LogInv /\ UNCHANGED vars => LogInv'
  BY DEF LogInv, TypeOK, Points, WriterAlone, Underway, CallerNotClosed, StreamSet,
         OneStream, OneString, Shut, StreamThere, StringThere, NobodyCrashed, vars, log, heap,
         calls, history
<1> QED
  BY <1>1, <1>2, LogAtFirst, PTL DEF Spec

(* However many threads write lines, the log follows no bad pointer, stream*)
(* or string of a process whose callers pair their opens and closes, let   *)
(* neither overlap another call, keep their own stream open and leave the  *)
(* time indicator alone: such a process ends only where scar_log_time has  *)
(* no memory, or of a line that is used as a format.                       *)
THEOREM CrashExplainedHolds == Spec => []CrashExplained
<1>1. LogInv => CrashExplained
  BY DEF LogInv, CrashExplained, NobodyCrashed, TypeOK
<1> QED
  BY <1>1, LogInvHolds, PTL

(* scar_log_close never closes a stream the program passed in, until calls *)
(* overlap: not after failed opens, repeated closes or a stream of the     *)
(* log's own before it.                                                    *)
THEOREM CallerStreamKeptHolds == Spec => []CallerStreamKept
<1>1. LogInv => CallerStreamKept
  BY DEF LogInv, CallerStreamKept, CallerNotClosed
<1> QED
  BY <1>1, LogInvHolds, PTL

(* The log has at most one open stream and one extra string of its own and *)
(* knows both, for any number of opens, failed ones included, and closes;  *)
(* and no line is kept while it is open.                                   *)
THEOREM NothingLostHolds == Spec => []NothingLost
<1>1. LogInv => NothingLost
  BY DEF LogInv, NothingLost, StreamSet, OneStream, OneString
<1> QED
  BY <1>1, LogInvHolds, PTL
=============================================================================
