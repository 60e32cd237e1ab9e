------------------------------ MODULE ScarLog --------------------------------
(***************************************************************************)
(* The log of src/src/logging/scar_log.c: the static variables that say    *)
(* where lines go and what stands in front of them, and the functions that *)
(* read and write them, none of which takes a lock.  A handler thread of   *)
(* the server logs at every step.                                          *)
(*                                                                         *)
(* What a line says is left out: any line may hold what printf takes for a *)
(* conversion, and end the process where the line itself is used as a      *)
(* format.  The two debug functions call scar_log or scar_log_a_string, or *)
(* nothing.                                                                *)
(***************************************************************************)
EXTENDS Integers

CONSTANTS
    Thread,
    Own,       \* streams fopen may return
    Caller,    \* the stream the program opened itself and may pass in
    Str,       \* memory for the extra string
    NULL

ASSUME ConstantsAssumption ==
    /\ Caller \notin Own /\ Caller # NULL /\ NULL \notin Own
    /\ NULL \notin Str

Stream == Own \cup {Caller}

VARIABLES
    scar_logfp, should_close_scar_logfp,
    logging,         \* which of logging_usrlog, _syslog, _errlog are set
    extra_logstr,
    stream,          \* each stream: "open" or "closed"
    string,          \* memory: "free", or a text that is "ended" by a zero or is not
    pc, op,          \* where a thread is, and in which function
    text,            \* the extra string a thread has found set and is about to read
    session,         \* history: what the last open came to, or "shut"
    misuse,          \* history: what callers did that the log does not stand
    lost             \* history: the session in which scar_log_time last kept its line

log   == <<scar_logfp, should_close_scar_logfp, logging, extra_logstr>>
heap  == <<stream, string>>
calls == <<pc, op, text>>

history == <<session, misuse, lost>>
vars    == <<log, heap, calls, history>>

-----------------------------------------------------------------------------

Kinds == {"usr", "sys", "err"}

\* how a thread may end the process: by a bad pointer, by a malloc that failed, or by
\* a line used as a format
Dead == {"crashed", "nomemory", "format"}

Sessions == {"shut", "opening", "open", "bare", "failed"}

TypeOK ==
    /\ scar_logfp \in Stream \cup {NULL}
    /\ should_close_scar_logfp \in {0, 1}
    /\ logging \subseteq Kinds
    /\ extra_logstr \in Str \cup {NULL}
    /\ stream \in [Stream -> {"open", "closed"}]
    /\ string \in [Str -> {"free", "ended", "endless"}]
    /\ pc \in [Thread -> {"idle", "flags", "stream", "keep", "own", "level", "logstr",
                          "text", "copy", "usr", "usrprint", "timetext", "timecopy",
                          "timeusr", "timeprint", "closestr", "clearstr",
                          "closestream", "forget", "indfree", "indset"} \cup Dead]
    /\ op \in [Thread -> {"none", "open", "log", "time", "close", "indicator"}]
    /\ text \in [Thread -> Str \cup {NULL}]
    /\ session \in Sessions
    /\ lost \in Sessions \cup {"none"}
    /\ misuse \subseteq {"overlap", "reopen", "unpaired", "indicator", "callerclosed"}

Init ==
    /\ scar_logfp = NULL
    /\ should_close_scar_logfp = 0
    /\ logging = {}
    /\ extra_logstr = NULL
    /\ stream = [s \in Stream |-> IF s = Caller THEN "open" ELSE "closed"]
    /\ string = [s \in Str |-> "free"]
    /\ pc = [t \in Thread |-> "idle"]
    /\ op = [t \in Thread |-> "none"]
    /\ text = [t \in Thread |-> NULL]
    /\ session = "shut"
    /\ misuse = {}
    /\ lost = "none"

At(t, p) == pc[t] = p /\ \A u \in Thread : pc[u] \notin Dead

Goto(t, p) == pc' = [pc EXCEPT ![t] = p]

Return(t) ==
    /\ Goto(t, "idle")
    /\ op' = [op EXCEPT ![t] = "none"]
    /\ text' = [text EXCEPT ![t] = NULL]

(* What goes on at p if the memory and the streams used are sound; where   *)
(* they are not the process may also die.                                  *)
GotoIf(t, sound, p) == \E q \in {p} \cup IF sound THEN {} ELSE {"crashed"} : Goto(t, q)

-----------------------------------------------------------------------------
(* Callers.  open, close and the time indicator write what the others read.*)

Writers == {"open", "close", "indicator"}

Ops == Writers \cup {"log", "time"}

Entry(o) == [open |-> "flags", log |-> "text", time |-> "timetext",
             close |-> "closestr", indicator |-> "indfree"][o]

Misuse(t, o) ==
    {e \in {"overlap", "reopen", "unpaired", "indicator"} :
        \/ /\ e = "overlap"
           /\ \E u \in Thread : op[u] # "none" /\ (o \in Writers \/ op[u] \in Writers)
        \/ e = "reopen" /\ o = "open" /\ session # "shut"
        \/ e = "unpaired" /\ o = "close" /\ session # "open"
        \/ e = "indicator" /\ o = "indicator"}

Call(t, o) ==
    /\ At(t, "idle")
    /\ Goto(t, Entry(o))
    /\ op' = [op EXCEPT ![t] = o]
    /\ misuse' = misuse \cup Misuse(t, o)
    /\ session' = IF o = "close" THEN "shut" ELSE session
    /\ UNCHANGED <<log, heap, text, lost>>

(* The program closes the stream it has opened.                            *)
CallerCloses ==
    /\ stream[Caller] = "open"
    /\ stream' = [stream EXCEPT ![Caller] = "closed"]
    /\ misuse' = misuse \cup {"callerclosed"}
    /\ UNCHANGED <<log, string, calls, session, lost>>

-----------------------------------------------------------------------------
(* scar_log_open.                                                          *)

OpenFlags(t) ==
    /\ At(t, "flags")
    /\ \E logtype \in SUBSET Kinds :
         /\ logging' = logging \cup logtype
         /\ session' = IF "usr" \in logtype THEN "opening" ELSE "bare"
         /\ Goto(t, IF "usr" \in logtype THEN "stream" ELSE "level")
    /\ UNCHANGED <<scar_logfp, should_close_scar_logfp, extra_logstr, heap, op, text,
                   misuse, lost>>

OpenCaller(t) ==
    /\ At(t, "stream") /\ stream[Caller] = "open"
    /\ scar_logfp' = Caller
    /\ Goto(t, "keep")
    /\ UNCHANGED <<should_close_scar_logfp, logging, extra_logstr, heap, op, text,
                   history>>

(* Mutant of OpenKeep: the flag stays as the last stream left it.           *)
OpenKeepAsIs(t) ==
    /\ At(t, "keep")
    /\ Goto(t, "level")
    /\ UNCHANGED <<log, heap, op, text, history>>

(* "File already opened, should not be closed at the end"                   *)
OpenKeep(t) ==
    /\ At(t, "keep")
    /\ should_close_scar_logfp' = 0
    /\ Goto(t, "level")
    /\ UNCHANGED <<scar_logfp, logging, extra_logstr, heap, op, text, history>>

OpenPath(t) ==
    /\ At(t, "stream")
    /\ \E s \in Own :
         /\ stream[s] = "closed"
         /\ stream' = [stream EXCEPT ![s] = "open"]
         /\ scar_logfp' = s
    /\ Goto(t, "own")
    /\ UNCHANGED <<should_close_scar_logfp, logging, extra_logstr, string, op, text,
                   history>>

OpenOwn(t) ==
    /\ At(t, "own")
    /\ should_close_scar_logfp' = 1
    /\ Goto(t, "level")
    /\ UNCHANGED <<scar_logfp, logging, extra_logstr, heap, op, text, history>>

(* fopen fails and its null is stored all the same, or neither a path nor a *)
(* stream was given.  logging_usrlog stays set.                             *)
OpenFails(t) ==
    /\ At(t, "stream")
    /\ scar_logfp' \in {NULL, scar_logfp}
    /\ session' = "failed"
    /\ Return(t)
    /\ UNCHANGED <<should_close_scar_logfp, logging, extra_logstr, heap, misuse, lost>>

(* The level comes from the environment: zero; above zero, which is logged; *)
(* or not a number, which ends the call with the stream open.               *)
OpenLevel(t) ==
    /\ At(t, "level")
    /\ \/ Goto(t, "logstr") /\ UNCHANGED <<op, text, session>>
       \/ Goto(t, "text") /\ UNCHANGED <<op, text, session>>
       \/ session' = "failed" /\ Return(t)
    /\ UNCHANGED <<log, heap, misuse, lost>>

(* strdup of SCAR_LOG_STRING, if there is one; what was there before is not *)
(* freed.                                                                   *)
OpenLogStr(t) ==
    /\ At(t, "logstr")
    /\ \/ UNCHANGED <<extra_logstr, string>>
       \/ extra_logstr' = NULL /\ UNCHANGED string
       \/ \E s \in Str : /\ string[s] = "free"
                         /\ string' = [string EXCEPT ![s] = "ended"]
                         /\ extra_logstr' = s
    /\ session' = IF session = "opening" THEN "open" ELSE session
    /\ Return(t)
    /\ UNCHANGED <<scar_logfp, should_close_scar_logfp, logging, stream, misuse, lost>>

-----------------------------------------------------------------------------
(* scar_log; scar_log_a_string has the same code once more.                 *)

StringSound(t) == text[t] = NULL \/ string[text[t]] = "ended"

PrintSound(t) ==
    StringSound(t) /\ scar_logfp # NULL /\ stream[scar_logfp] = "open"

(* The extra string for the line on stderr.  The line of scar_log_debug is  *)
(* scar_log's format.                                                       *)
LogText(t) ==
    /\ At(t, "text")
    /\ \/ op[t] # "open" /\ Goto(t, "format") /\ UNCHANGED text
       \/ "err" \in logging /\ text' = [text EXCEPT ![t] = extra_logstr] /\ Goto(t, "copy")
       \/ "err" \notin logging /\ Goto(t, "usr") /\ UNCHANGED text
    /\ UNCHANGED <<log, heap, op, history>>

LogErr(t) ==
    /\ At(t, "copy")
    /\ GotoIf(t, StringSound(t), "usr")
    /\ text' = [text EXCEPT ![t] = NULL]
    /\ UNCHANGED <<log, heap, op, history>>

(* Back to the caller or to scar_log_open.                                  *)
Back(t) ==
    IF op[t] = "open"
    THEN Goto(t, "logstr") /\ UNCHANGED op
    ELSE Goto(t, "idle") /\ op' = [op EXCEPT ![t] = "none"]

(* After the print to the user's log, if there is one, the line is the      *)
(* format of syslog(), unless it came with priority 0 as scar_log_open's.   *)
Finish(t, sound) ==
    \/ Back(t)
    \/ ~sound /\ Goto(t, "crashed") /\ UNCHANGED op
    \/ "sys" \in logging /\ op[t] # "open" /\ Goto(t, "format") /\ UNCHANGED op

Unopened == "usr" \in logging /\ scar_logfp = NULL

(* The user's log: not asked for, or not open ("cannot open file            *)
(* descriptor": the call returns 1, before syslog); else the extra string is*)
(* looked at again.                                                         *)
LogUsr(t) ==
    /\ At(t, "usr")
    /\ \/ Unopened /\ Back(t) /\ UNCHANGED text
       \/ "usr" \notin logging /\ Finish(t, TRUE) /\ UNCHANGED text
       \/ /\ "usr" \in logging /\ scar_logfp # NULL
          /\ text' = [text EXCEPT ![t] = extra_logstr]
          /\ Goto(t, "usrprint") /\ UNCHANGED op
    /\ UNCHANGED <<log, heap, history>>

LogPrint(t) ==
    /\ At(t, "usrprint")
    /\ Finish(t, PrintSound(t))
    /\ text' = [text EXCEPT ![t] = NULL]
    /\ UNCHANGED <<log, heap, history>>

-----------------------------------------------------------------------------
(* scar_log_time puts its line together first, with the extra string or the *)
(* time in front.                                                           *)

TimeText(t) ==
    /\ At(t, "timetext")
    /\ text' = [text EXCEPT ![t] = extra_logstr]
    /\ Goto(t, "timecopy")
    /\ UNCHANGED <<log, heap, op, history>>

(* Into memory from malloc, untested.                                       *)
TimeCopy(t) ==
    /\ At(t, "timecopy")
    /\ GotoIf(t, StringSound(t), "timeusr") \/ Goto(t, "nomemory")
    /\ text' = [text EXCEPT ![t] = NULL]
    /\ UNCHANGED <<log, heap, op, history>>

(* A log that is not open ends the call here as well, with the line in      *)
(* memory.                                                                  *)
TimeUsr(t) ==
    /\ At(t, "timeusr")
    /\ \/ Unopened /\ Back(t) /\ lost' = session
       \/ "usr" \notin logging /\ Finish(t, TRUE) /\ UNCHANGED lost
       \/ /\ "usr" \in logging /\ scar_logfp # NULL
          /\ Goto(t, "timeprint") /\ UNCHANGED <<op, lost>>
    /\ UNCHANGED <<log, heap, text, session, misuse>>

TimePrint(t) ==
    /\ At(t, "timeprint")
    /\ Finish(t, PrintSound(t))
    /\ UNCHANGED <<log, heap, text, history>>

-----------------------------------------------------------------------------
(* scar_log_close.                                                          *)

(* free() of the extra string; of one that is free already it may be fatal. *)
FreeString(t, p) ==
    /\ GotoIf(t, extra_logstr = NULL \/ string[extra_logstr] # "free", p)
    /\ string' = [s \in Str |-> IF s = extra_logstr THEN "free" ELSE string[s]]

(* Mutant of CloseStr: the string is dropped and not freed.                 *)
CloseStrUnfreed(t) ==
    /\ At(t, "closestr")
    /\ Goto(t, IF extra_logstr = NULL THEN "closestream" ELSE "clearstr")
    /\ UNCHANGED <<log, heap, op, text, history>>

CloseStr(t) ==
    /\ At(t, "closestr")
    /\ FreeString(t, IF extra_logstr = NULL THEN "closestream" ELSE "clearstr")
    /\ UNCHANGED <<log, stream, op, text, history>>

CloseClear(t) ==
    /\ At(t, "clearstr")
    /\ extra_logstr' = NULL
    /\ Goto(t, "closestream")
    /\ UNCHANGED <<scar_logfp, should_close_scar_logfp, logging, heap, op, text,
                   history>>

(* fclose() of the log's own stream.  The flag is not reset: with no stream *)
(* left the next close follows a null pointer.                              *)
CloseStream(t) ==
    /\ At(t, "closestream")
    /\ \/ should_close_scar_logfp = 0 /\ Return(t) /\ UNCHANGED stream
       \/ /\ should_close_scar_logfp = 1 /\ scar_logfp # NULL
          /\ GotoIf(t, stream[scar_logfp] = "open", "forget")
          /\ stream' = [stream EXCEPT ![scar_logfp] = "closed"]
          /\ UNCHANGED <<op, text>>
       \/ /\ should_close_scar_logfp = 1 /\ scar_logfp = NULL
          /\ Goto(t, "crashed")
          /\ UNCHANGED <<op, text, stream>>
    /\ UNCHANGED <<log, string, history>>

(* Mutant of CloseForget: the closed stream stays the log's.                *)
CloseKeeps(t) ==
    /\ At(t, "forget")
    /\ Return(t)
    /\ UNCHANGED <<log, heap, history>>

CloseForget(t) ==
    /\ At(t, "forget")
    /\ scar_logfp' = NULL
    /\ Return(t)
    /\ UNCHANGED <<should_close_scar_logfp, logging, extra_logstr, heap, history>>

-----------------------------------------------------------------------------
(* scar_log_set_time_indicator.                                             *)

IndicatorFree(t) ==
    /\ At(t, "indfree")
    /\ FreeString(t, "indset")
    /\ UNCHANGED <<log, stream, op, text, history>>

(* malloc of the length strftime returned and strncpy of as many bytes: the *)
(* zero at the end is not among them.                                       *)
IndicatorSet(t) ==
    /\ At(t, "indset")
    /\ \/ /\ \E s \in Str : /\ string[s] = "free"
                            /\ string' = [string EXCEPT ![s] = "endless"]
                            /\ extra_logstr' = s
          /\ Return(t)
       \/ /\ extra_logstr' = NULL
          /\ Goto(t, "nomemory")
          /\ UNCHANGED <<op, text, string>>
    /\ UNCHANGED <<scar_logfp, should_close_scar_logfp, logging, stream, history>>

-----------------------------------------------------------------------------

Step(t) ==
    \/ OpenFlags(t) \/ OpenCaller(t) \/ OpenKeep(t) \/ OpenPath(t) \/ OpenOwn(t)
    \/ OpenFails(t) \/ OpenLevel(t) \/ OpenLogStr(t)
    \/ LogText(t) \/ LogErr(t) \/ LogUsr(t) \/ LogPrint(t)
    \/ TimeText(t) \/ TimeCopy(t) \/ TimeUsr(t) \/ TimePrint(t)
    \/ CloseStr(t) \/ CloseClear(t) \/ CloseStream(t) \/ CloseForget(t)
    \/ IndicatorFree(t) \/ IndicatorSet(t)

Next ==
    \/ \E t \in Thread : Step(t) \/ \E o \in Ops : Call(t, o)
    \/ CallerCloses

Spec == Init /\ [][Next]_vars

-----------------------------------------------------------------------------
(* Safety.                                                                  *)

(* Whatever else fails on the way and however many threads write lines, the *)
(* log follows no bad pointer, stream or string of a process that           *)
(*   - closes it at most once after each successful open that named a       *)
(*     stream (opening it again without a close between does no harm here), *)
(*   - lets no open or close overlap another call,                          *)
(*   - keeps its own stream open, also past scar_log_close(), and           *)
(*   - leaves the time indicator alone, whose string has no end.            *)
(* Two more things end the process at any time: a malloc that fails for a   *)
(* line of scar_log_time or the indicator ("nomemory"), and a line that has *)
(* conversions in it, where the line is the format ("format").              *)
CrashExplained ==
    (\E t \in Thread : pc[t] = "crashed") => misuse \ {"reopen"} # {}

(* A stream the program opened itself is closed by the program, whatever    *)
(* sequence of opens and closes the log goes through.                       *)
CallerStreamKept ==
    stream[Caller] = "closed" => misuse \cap {"overlap", "callerclosed"} # {}

(* The log has at most one stream and one extra string of its own, and      *)
(* knows them: only opening it once more without a close between, also after*)
(* an open that failed, or after the time indicator was set, loses one.  And*)
(* scar_log_time frees what it made for a line, unless no stream is open:   *)
(* that is the case after every close, logging_usrlog staying set.          *)
NothingLost ==
    /\ misuse \cap {"overlap", "reopen", "indicator"} = {} =>
          /\ \A s \in Own : stream[s] = "open" => scar_logfp = s
          /\ \A s \in Str : string[s] # "free" => extra_logstr = s
    /\ "overlap" \notin misuse => lost # "open"

-----------------------------------------------------------------------------
(* Why they hold.  Whoever writes is the only one in the log until calls    *)
(* overlap, and then every call that reads finds what it found before.      *)
Opening == {"flags", "stream", "keep", "own", "level", "logstr"}
Line    == {"text", "copy", "usr", "usrprint"}
Timing  == {"timetext", "timecopy", "timeusr", "timeprint"}
Closing == {"closestr", "clearstr", "closestream", "forget"}

InCall(o, p) ==
    \/ p \in Dead
    \/ o = "none" /\ p = "idle"
    \/ o = "open" /\ p \in Opening \cup Line
    \/ o = "log" /\ p \in Line
    \/ o = "time" /\ p \in Timing
    \/ o = "close" /\ p \in Closing
    \/ o = "indicator" /\ p \in {"indfree", "indset"}

Points ==
    \A t \in Thread :
        /\ InCall(op[t], pc[t])
        /\ text[t] # NULL => pc[t] \in {"copy", "usrprint", "timecopy"}
        /\ op[t] = "indicator" => "indicator" \in misuse

WriterAlone == \A t, u \in Thread : t # u /\ op[t] \in Writers => op[u] = "none"

\* what an open or a close that is under way has come to
Underway ==
    \A t \in Thread :
        /\ op[t] = "close" => session = "shut"
        /\ op[t] = "open" /\ pc[t] # "flags" => session \in {"opening", "bare"}
        /\ pc[t] \in {"stream", "keep", "own"} => session = "opening"
        /\ pc[t] = "keep" => scar_logfp = Caller
        /\ pc[t] = "own" => scar_logfp \in Own

\* the flag says whose the stream is, but while it is being set
CallerNotClosed ==
    /\ scar_logfp = Caller /\ should_close_scar_logfp = 1 => \E t \in Thread : pc[t] = "keep"
    /\ "callerclosed" \notin misuse => stream[Caller] = "open"

\* after a close, and before an open makes new ones, there is no stream and no string
Shut == session = "shut" /\ \A t \in Thread : op[t] # "close"

\* a log opened for the user has a stream, and is not the one that keeps lines
StreamSet ==
    /\ session = "open" => scar_logfp # NULL
    /\ \A t \in Thread :
          op[t] = "open" /\ session = "opening" /\ pc[t] \notin {"flags", "stream"} =>
              scar_logfp # NULL
    /\ lost # "open"

OneStream ==
    /\ \A s \in Own : stream[s] = "open" =>
          /\ scar_logfp = s
          /\ should_close_scar_logfp = 1 \/ \E t \in Thread : pc[t] = "own"
    /\ Shut \/ (\E t \in Thread : pc[t] \in {"flags", "stream", "keep", "forget"}) =>
          \A s \in Own : stream[s] = "closed"

OneString ==
    /\ \A s \in Str : string[s] # "free" => extra_logstr = s
    /\ Shut \/ session = "failed"
       \/ (\E t \in Thread : op[t] = "open" \/ pc[t] \in {"clearstr", "closestream", "forget"}) =>
          \A s \in Str : string[s] = "free"

\* what is used is there: the stream while it is not NULL, a string while it is set
StreamThere ==
    /\ scar_logfp = NULL \/ stream[scar_logfp] = "open" \/ \E t \in Thread : pc[t] = "forget"
    /\ \A t \in Thread :
          /\ pc[t] \in {"usrprint", "timeprint", "closestr", "clearstr", "closestream"} =>
                scar_logfp # NULL

StringThere ==
    /\ extra_logstr = NULL \/ string[extra_logstr] = "ended"
       \/ \E t \in Thread : pc[t] = "clearstr"
    /\ \A t \in Thread : text[t] = NULL \/ string[text[t]] = "ended"

NobodyCrashed == \A t \in Thread : pc[t] # "crashed"

LogInv ==
    /\ TypeOK /\ Points
    /\ "overlap" \notin misuse => WriterAlone /\ Underway /\ CallerNotClosed /\ StreamSet
    /\ misuse \cap {"overlap", "reopen", "indicator"} = {} => OneStream /\ OneString
    /\ misuse \subseteq {"reopen"} => StreamThere /\ StringThere /\ NobodyCrashed
=============================================================================
