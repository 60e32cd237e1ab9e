--------------------------- MODULE GridFsProofs -----------------------------
(***************************************************************************)
(* What the FUSE driver promises, for every set of threads, every tree and *)
(* any number of changes of the server's: until two uses of the cache meet *)
(* its answers were true once, and while calls do not overlap it never goes*)
(* back in time.                                                           *)
(***************************************************************************)
EXTENDS GridFs, TLAPS

-----------------------------------------------------------------------------
(* The log of versions.                                                    *)

Trees == {tree \in SUBSET Entry : Closed(tree)}

\* the versions the server has had stay what they were
LogGrows == Now \in Nat /\ Now' \in Nat /\ Now <= Now' /\ \A n \in 1..Now : log'[n] = log[n]

LEMMA LogStays == ASSUME TypeOK, UNCHANGED log PROVE LogGrows
    BY DEF TypeOK, LogGrows, Now

LEMMA LogAppended ==
    ASSUME TypeOK, NEW tree \in Trees, log' = Append(log, tree)
    PROVE  log' \in Seq(Trees) /\ Now' = Now + 1 /\ LogGrows
<1>1. log \in Seq(Trees) /\ Now \in Nat
    BY DEF TypeOK, Trees, Now
<1>2. log' \in Seq(Trees) /\ Now' = Now + 1
    BY <1>1 DEF Now
<1>3. \A n \in 1..Now : log'[n] = log[n]
    BY <1>1 DEF Now
<1>4. QED
    BY <1>1, <1>2, <1>3 DEF LogGrows, Now

(* A document of a version the server has had keeps its version, and an     *)
(* answer that was true stays one that was.                                 *)
LEMMA DocsOfLogKept ==
    ASSUME TypeOK, DocsOfLog, LogGrows, Now' <= MaxChanges + 1,
           UNCHANGED entry, UNCHANGED chunk
    PROVE  DocsOfLog'
<1>1. \A d \in Doc : d.at \in 1..(MaxChanges + 1)
    BY GridAssumption
<1>2. /\ entry # NULL /\ entry.doc # NULL => entry.doc.at \in 1..(MaxChanges + 1)
      /\ \A t \in Thread : chunk[t] # NULL => chunk[t].at \in 1..(MaxChanges + 1)
    BY <1>1 DEF TypeOK
<1>3. MaxChanges \in Nat
    BY GridAssumption
<1>4. Now' \in 1..(MaxChanges + 1)
    BY <1>3 DEF DocsOfLog, LogGrows
<1>5. QED
    BY <1>2, <1>3, <1>4 DEF DocsOfLog, LogGrows

\* the answer that stands was true
WasTrue ==
    /\ answer.kind \in {"dir", "file"} =>
          \E n \in 1..Now : \E e \in Sought(answer.path) :
              e \in log[n] /\ answer.kind = TypeOf(e)
    /\ answer.kind = "list" =>
          \E n \in 1..Now : /\ Exists(answer.path, log[n])
                            /\ answer.names = Listing(answer.path, log[n])

LEMMA WasTrueKept ==
    ASSUME LogGrows, WasTrue, answer' = answer PROVE WasTrue'
<1>1. \A n \in 1..Now : n \in 1..Now' /\ log'[n] = log[n]
    BY DEF LogGrows
<1>2. CASE answer.kind \in {"dir", "file"}
  <2>1. PICK n \in 1..Now : \E e \in Sought(answer.path) :
            e \in log[n] /\ answer.kind = TypeOf(e)
    BY <1>2 DEF WasTrue
  <2>2. /\ n \in 1..Now'
        /\ \E e \in Sought(answer'.path) : e \in log'[n] /\ answer'.kind = TypeOf(e)
    BY <1>1, <2>1
  <2>3. QED
    BY <1>2, <2>2 DEF WasTrue
<1>3. CASE answer.kind = "list"
  <2>1. PICK n \in 1..Now : /\ Exists(answer.path, log[n])
                            /\ answer.names = Listing(answer.path, log[n])
    BY <1>3 DEF WasTrue
  <2>2. /\ n \in 1..Now'
        /\ Exists(answer'.path, log'[n])
        /\ answer'.names = Listing(answer'.path, log'[n])
    BY <1>1, <2>1 DEF Exists, Listing
  <2>3. QED
    BY <1>3, <2>2 DEF WasTrue
<1>4. CASE answer.kind \notin {"dir", "file", "list"}
    BY <1>4 DEF WasTrue
<1>5. QED
    BY <1>2, <1>3, <1>4

LEMMA AnswersKept ==
    ASSUME LogGrows, AnswersWereTrue, ~overlap, answer' = answer PROVE AnswersWereTrue'
<1>1. WasTrue
    BY DEF AnswersWereTrue, WasTrue
<1>2. WasTrue'
    BY <1>1, WasTrueKept
<1>3. QED
    BY <1>2 DEF AnswersWereTrue, WasTrue

(* What says nothing of the tree is true of it.                             *)
LEMMA PlainIsTrue ==
    ASSUME NEW kind \in {"none", "ok", "error"}
    PROVE  Plain(kind) \in Answer /\ (answer' = Plain(kind) => AnswersWereTrue')
    BY DEF Plain, Answer, AnswersWereTrue

-----------------------------------------------------------------------------
(* Every step keeps what the driver relies on.                              *)

LEMMA FirstDriver == Init => DriverInv
<1> SUFFICES ASSUME Init PROVE DriverInv
    OBVIOUS
<1>1. PICK tree \in SUBSET Entry : Closed(tree) /\ log = <<tree>>
    BY DEF Init
<1>2. tree \in Trees /\ log \in Seq(Trees) /\ Now = 1
    BY <1>1 DEF Trees, Now
<1>3. MaxChanges \in Nat
    BY GridAssumption
<1>4. TypeOK
  <2>1. Plain("none") \in Answer
    BY PlainIsTrue
  <2>2. log \in Seq({tr \in SUBSET Entry : Closed(tr)}) /\ seen \in 0..Now
    BY <1>2 DEF Init, Trees
  <2>3. pc = [t \in Thread |-> "idle"] /\ op = [t \in Thread |-> "none"]
    BY DEF Init
  <2>4. /\ pc \in [Thread -> {"idle", "fetch", "walk", "request", "add", "adding", "got", "put",
                             "dead"}]
        /\ op \in [Thread -> {"none", "getattr", "readdir", "mkdir", "create", "read"}]
        /\ \A t \in Thread : pc[t] # "got"
    BY <2>3
  <2>5. QED
    BY <2>1, <2>2, <2>4 DEF Init, NoPages, TypeOK
<1>5. DocsOfLog /\ DocsOfUrl /\ AnswersWereTrue /\ OneAtATime /\ EntryIsLatest
    BY <1>2, <1>3 DEF Init, NoPages, DocsOfLog, DocsOfUrl, AnswersWereTrue, OneAtATime,
                      EntryIsLatest, Looking, Plain
<1>6. QED
    BY <1>4, <1>5 DEF DriverInv

LEMMA OutsideKeeps == ASSUME DriverInv, Outside PROVE DriverInv'
<1>1. TypeOK /\ DocsOfLog /\ DocsOfUrl /\ AnswersWereTrue
    BY DEF DriverInv
<1>2. Now \in 1..(MaxChanges + 1) /\ log[Now] \in Trees /\ MaxChanges \in Nat
    BY <1>1, GridAssumption DEF DocsOfLog, TypeOK, Trees, Now
<1>3. PICK tree \in Trees : log' = Append(log, tree)
    BY <1>2 DEF Outside, Trees
<1>4. log' \in Seq(Trees) /\ Now' = Now + 1 /\ LogGrows
    BY <1>1, <1>3, LogAppended
<1>5. /\ Now <= MaxChanges /\ ~overlap
      /\ UNCHANGED <<entry, url, chunk, pc, op, path, answer, seen, together, overlap>>
    BY DEF Outside, history, pageVars
<1>6. TypeOK'
    BY <1>1, <1>2, <1>4, <1>5 DEF TypeOK, Trees
<1>7. DocsOfLog'
    BY <1>1, <1>2, <1>4, <1>5, DocsOfLogKept
<1>8. AnswersWereTrue'
    BY <1>1, <1>4, <1>5, AnswersKept
<1>9. QED
    BY <1>5, <1>6, <1>7, <1>8 DEF DriverInv, DocsOfUrl, OneAtATime, EntryIsLatest

(* A step that leaves the server alone.                                     *)
LEMMA LogAlone ==
    ASSUME TypeOK, DocsOfLog, UNCHANGED log
    PROVE  LogGrows /\ Now' = Now /\ Now' <= MaxChanges + 1
    BY LogStays, GridAssumption DEF DocsOfLog, Now

LEMMA ReachesUrl ==
    /\ \A e \in Entry : Parent[e] \in Url
    /\ Base \in Url /\ NULL \notin Url
    /\ \A d \in Dir \cup {Root} : d \in Url /\ d # Base
    /\ Dir \subseteq Entry
    BY GridAssumption

(* The end of the driver.                                                   *)
LEMMA DeathKeeps == ASSUME DriverInv, ~overlap, Die PROVE DriverInv'
<1>1. TypeOK /\ DocsOfLog /\ DocsOfUrl /\ AnswersWereTrue
    BY DEF DriverInv
<1>2. /\ pc' = [t \in Thread |-> "dead"] /\ op' = [t \in Thread |-> "none"]
      /\ path' = [t \in Thread |-> Root]
      /\ entry' = NULL
      /\ url' = [t \in Thread |-> NULL] /\ chunk' = [t \in Thread |-> NULL]
      /\ UNCHANGED <<log, answer, seen, together, overlap>>
    BY DEF Die, history
<1>3. LogGrows /\ Now' = Now
    BY <1>1, <1>2, LogAlone
<1>4. TypeOK'
    BY <1>1, <1>2, <1>3 DEF TypeOK
<1>5. DocsOfLog' /\ DocsOfUrl'
    BY <1>1, <1>2, <1>3 DEF DocsOfLog, DocsOfUrl, Looking
<1>6. AnswersWereTrue'
    BY <1>1, <1>2, <1>3, AnswersKept
<1>7. OneAtATime' /\ EntryIsLatest'
    BY <1>2 DEF OneAtATime, EntryIsLatest
<1>8. QED
    BY <1>4, <1>5, <1>6, <1>7 DEF DriverInv

LEMMA CallKeeps ==
    ASSUME DriverInv, NEW t \in Thread, Call(t) PROVE DriverInv'
<1>1. TypeOK /\ DocsOfLog /\ DocsOfUrl /\ AnswersWereTrue
    BY DEF DriverInv
<1>2. CASE Open(t)
    BY <1>2, DeathKeeps DEF Open, At
<1>3. CASE Refused(t)
  <2>1. /\ UNCHANGED <<log, entry, url, chunk, pc, op, path, seen, together, overlap>>
        /\ answer' = Plain("error")
    BY <1>3 DEF Refused, pageVars
  <2>2. LogGrows /\ Now' = Now
    BY <1>1, <2>1, LogAlone
  <2>3. TypeOK'
    BY <1>1, <2>1, <2>2, PlainIsTrue DEF TypeOK
  <2>4. DocsOfLog' /\ DocsOfUrl'
    BY <1>1, <2>1, <2>2 DEF DocsOfLog, DocsOfUrl
  <2>5. AnswersWereTrue'
    BY <2>1, PlainIsTrue
  <2>6. QED
    BY <2>1, <2>3, <2>4, <2>5 DEF DriverInv, OneAtATime, EntryIsLatest
<1>4. ASSUME NEW o \in {"getattr", "readdir", "mkdir", "create", "read"},
             NEW p \in Entry \cup {Root}, NEW q \in {"fetch", "put"},
             Begin(t, o, p), Goto(t, q), UNCHANGED <<entry, chunk>>,
             q = "fetch" => \E u \in Url : Ask(t, u) /\ (o = "readdir" => u = p),
             q # "fetch" => UNCHANGED url,
             q = "put" => p \in Entry
      PROVE  DriverInv'
  <2>1. /\ pc' = [pc EXCEPT ![t] = q] /\ op' = [op EXCEPT ![t] = o] /\ pc[t] = "idle"
        /\ path' = [path EXCEPT ![t] = p] /\ answer' = Plain("none")
        /\ \A u \in Thread \ {t} : url'[u] = url[u]
        /\ url' \in [Thread -> Url \cup {NULL}]
        /\ q = "fetch" => url'[t] # NULL /\ (o = "readdir" => url'[t] = p)
        /\ together' = (together \/ \E u \in Thread \ {t} : pc[u] # "idle")
        /\ seen' = IF together' THEN 0 ELSE seen
        /\ UNCHANGED <<log, overlap>>
    BY <1>1, <1>4, ReachesUrl DEF Begin, Goto, Ask, At, TypeOK
  <2>2. LogGrows /\ Now' = Now /\ Now' <= MaxChanges + 1
    BY <1>1, <2>1, LogAlone
  <2>3. DocsOfLog'
    BY <1>1, <1>4, <2>2, DocsOfLogKept
  <2>4. TypeOK'
    <3>1. seen' \in 0..Now'
      BY <1>1, <2>1, <2>2 DEF TypeOK, DocsOfLog
    <3>2. QED
      BY <1>1, <1>4, <2>1, <2>2, <3>1, PlainIsTrue DEF TypeOK
  <2>5. DocsOfUrl'
    BY <1>1, <1>4, <2>1 DEF DocsOfUrl, TypeOK, Looking
  <2>6. AnswersWereTrue'
    BY <2>1, PlainIsTrue
  <2>7. ASSUME ~together' PROVE OneAtATime' /\ EntryIsLatest'
    <3>1. \A u \in Thread \ {t} : pc'[u] = "idle"
      BY <1>1, <2>1, <2>7 DEF TypeOK
    <3>2. EntryIsLatest /\ seen' = seen
      BY <2>1, <2>7 DEF DriverInv
    <3>3. QED
      BY <1>1, <1>4, <2>1, <3>1, <3>2 DEF OneAtATime, EntryIsLatest, TypeOK
  <2>8. QED
    BY <2>3, <2>4, <2>5, <2>6, <2>7 DEF DriverInv
<1>5. ASSUME NEW e \in Entry, Getattr(t, e) PROVE DriverInv'
  <2>1. (\E u \in Url : Ask(t, u)) /\ UNCHANGED <<entry, chunk>>
    BY <1>5, ReachesUrl DEF Getattr, Ask
  <2>2. QED
    BY <1>4, <1>5, <2>1 DEF Getattr
<1>6. ASSUME NEW d \in Dir \cup {Root}, Readdir(t, d) PROVE DriverInv'
  <2>1. d \in Url /\ Ask(t, d) /\ d \in Entry \cup {Root} /\ UNCHANGED <<entry, chunk>>
    BY <1>6, ReachesUrl DEF Readdir, Ask
  <2>2. QED
    BY <1>4, <1>6, <2>1 DEF Readdir
<1>7. ASSUME NEW e \in Entry, Mkdir(t, e) \/ Create(t, e) \/ Read(t, e) PROVE DriverInv'
  <2>1. UNCHANGED <<entry, url, chunk>>
    BY <1>7 DEF Mkdir, Create, Read, Touch, pageVars
  <2>2. PICK o \in {"mkdir", "create", "read"} : Touch(t, o, e)
    BY <1>7 DEF Mkdir, Create, Read
  <2>3. QED
    BY <1>4, <2>1, <2>2 DEF Touch
<1>8. QED
    BY <1>2, <1>3, <1>5, <1>6, <1>7, ReachesUrl DEF Call

(* download(), over the cache of one entry.                                 *)
LEMMA DownloadKeeps ==
    ASSUME DriverInv, NEW t \in Thread,
           \/ FetchStart(t) \/ FetchCached(t) \/ FetchMisses(t) \/ Transfer(t)
           \/ AddStart(t) \/ (AddEnd(t) /\ chunk[t] # NULL)
    PROVE  DriverInv'
<1>1. TypeOK /\ DocsOfLog /\ DocsOfUrl /\ AnswersWereTrue
    BY DEF DriverInv
<1>2. /\ UNCHANGED <<log, url, op, path, answer, together>>
      /\ pc[t] \in {"fetch", "walk", "request", "add", "adding"} /\ url[t] \in Url
      /\ pc'[t] # "idle"
      /\ \A u \in Thread \ {t} : pc'[u] = pc[u] /\ chunk'[u] = chunk[u]
      /\ ~overlap /\ overlap' \in BOOLEAN
  <2>1. CASE FetchStart(t) \/ FetchMisses(t)
    BY <1>1, <2>1 DEF FetchStart, FetchMisses, At, Goto, Others, pageVars, history, TypeOK,
                      DocsOfUrl, Looking
  <2>2. CASE FetchCached(t) \/ Transfer(t)
    BY <1>1, <2>2 DEF FetchCached, Transfer, At, Goto, Hit, Look, Receive, history, TypeOK,
                      DocsOfUrl, Looking
  <2>3. CASE AddStart(t) \/ (AddEnd(t) /\ chunk[t] # NULL)
    BY <1>1, <2>3 DEF AddStart, AddEnd, At, Goto, Store, Others, history, TypeOK, DocsOfUrl,
                      Looking
  <2>4. QED
    BY <2>1, <2>2, <2>3
<1>3. LogGrows /\ Now' = Now /\ Now' <= MaxChanges + 1
    BY <1>1, <1>2, LogAlone
<1>4. \A d \in Doc : d # NULL /\ d.at \in 1..(MaxChanges + 1)
    BY GridAssumption
<1>5. MaxChanges \in Nat /\ seen \in Nat /\ seen <= Now /\ Now \in Nat
    BY <1>1, GridAssumption DEF TypeOK, DocsOfLog
<1>6. AnswersWereTrue'
    BY <1>1, <1>2, <1>3, AnswersKept
<1>7. ASSUME ~together' PROVE OneAtATime'
  <2>1. pc[t] \notin {"idle", "dead"} /\ \A u \in Thread \ {t} : pc[u] = "idle"
    BY <1>2, <1>7 DEF DriverInv, OneAtATime
  <2>2. QED
    BY <1>2, <2>1 DEF OneAtATime
<1>8. CASE FetchStart(t) \/ FetchMisses(t)
  <2>1. PICK q \in {"walk", "request"} :
            /\ pc[t] \in {"fetch", "walk"} /\ pc' = [pc EXCEPT ![t] = q]
            /\ UNCHANGED <<entry, chunk, seen>>
    BY <1>8 DEF FetchStart, FetchMisses, At, Goto, pageVars, history
  <2>2. TypeOK'
    BY <1>1, <1>2, <1>3, <2>1 DEF TypeOK
  <2>3. DocsOfLog'
    BY <1>1, <1>3, <2>1, DocsOfLogKept
  <2>4. DocsOfUrl'
    BY <1>1, <1>2, <2>1 DEF DocsOfUrl, TypeOK, Looking
  <2>5. ~together' => EntryIsLatest'
    BY <1>1, <1>2, <2>1 DEF DriverInv, EntryIsLatest, TypeOK
  <2>6. QED
    BY <1>6, <1>7, <2>2, <2>3, <2>4, <2>5 DEF DriverInv
<1>9. CASE FetchCached(t)
  <2>1. /\ pc[t] = "walk" /\ pc' = [pc EXCEPT ![t] = "got"]
        /\ UNCHANGED entry
        /\ entry # NULL /\ entry.url = url[t] /\ entry.doc # NULL
        /\ chunk' = [chunk EXCEPT ![t] = entry.doc]
        /\ seen' = IF ~together /\ entry.doc.at > seen THEN entry.doc.at ELSE seen
    BY <1>9 DEF FetchCached, Hit, Cached, Look, At, Goto
  <2>2. entry.doc \in Doc /\ entry.doc.at \in 1..Now /\ entry.doc.of = url[t]
    <3>1. entry.doc \in Doc /\ entry.url # NULL
      BY <1>1, <1>2, <2>1, ReachesUrl DEF TypeOK
    <3>2. entry.doc.at <= Now /\ entry.doc.of = entry.url
      BY <1>1, <2>1, <3>1 DEF DocsOfLog, DocsOfUrl
    <3>3. QED
      BY <1>4, <1>5, <2>1, <3>1, <3>2
  <2>3. seen' \in 0..Now
    BY <1>5, <2>1, <2>2
  <2>4. TypeOK'
    BY <1>1, <1>2, <1>3, <1>4, <2>1, <2>2, <2>3 DEF TypeOK
  <2>5. DocsOfLog'
    BY <1>1, <1>2, <1>3, <2>1, <2>2 DEF DocsOfLog, TypeOK
  <2>6. DocsOfUrl'
    BY <1>1, <1>2, <2>1, <2>2 DEF DocsOfUrl, TypeOK, Looking
  <2>7. ASSUME ~together' PROVE EntryIsLatest'
    <3>1. \A u \in Thread \ {t} : pc[u] = "idle"
      BY <1>2, <2>1, <2>7 DEF DriverInv, OneAtATime
    <3>2. entry.doc.at = seen
      BY <1>2, <2>1, <2>7, <3>1 DEF DriverInv, EntryIsLatest
    <3>3. QED
      BY <1>1, <1>2, <2>1, <3>1, <3>2 DEF EntryIsLatest, TypeOK
  <2>8. QED
    BY <1>6, <1>7, <2>4, <2>5, <2>6, <2>7 DEF DriverInv
<1>10. CASE Transfer(t)
  <2>1. pc[t] = "request" /\ pc' = [pc EXCEPT ![t] = "add"] /\ UNCHANGED entry
    BY <1>10 DEF Transfer, Receive, At, Goto
  <2>2. PICK doc \in Doc \cup {NULL} :
            /\ chunk' = [chunk EXCEPT ![t] = doc]
            /\ doc # NULL => doc.of = url[t] /\ doc.at = Now
            /\ seen' \in 0..Now
            /\ ~together /\ doc # NULL => seen' = Now
            /\ doc = NULL => seen' = seen
    <3>1. CASE Receive(t, NULL) /\ UNCHANGED history
      <4>1. chunk' = [chunk EXCEPT ![t] = NULL] /\ seen' = seen /\ seen' \in 0..Now
        BY <1>5, <3>1 DEF Receive, history
      <4>2. QED
        BY <4>1
    <3>2. ASSUME NEW whole \in BOOLEAN,
                 LET doc == [of |-> url[t], at |-> Now, whole |-> whole]
                 IN Receive(t, doc) /\ Look(doc)
          PROVE  \E doc \in Doc :
                    /\ chunk' = [chunk EXCEPT ![t] = doc]
                    /\ doc.of = url[t] /\ doc.at = Now
                    /\ seen' \in 0..Now /\ (~together => seen' = Now)
      <4> DEFINE doc == [of |-> url[t], at |-> Now, whole |-> whole]
      <4>1. doc \in Doc
        BY <1>1, <1>2, GridAssumption DEF DocsOfLog
      <4>2. chunk' = [chunk EXCEPT ![t] = doc]
        BY <3>2 DEF Receive
      <4>3. seen' \in 0..Now /\ (~together => seen' = Now)
        BY <1>5, <3>2 DEF Look
      <4>4. QED
        BY <4>1, <4>2, <4>3
    <3>3. CASE \E whole \in BOOLEAN :
                 LET doc == [of |-> url[t], at |-> Now, whole |-> whole]
                 IN Receive(t, doc) /\ Look(doc)
      <4>1. PICK doc \in Doc : /\ chunk' = [chunk EXCEPT ![t] = doc]
                               /\ doc.of = url[t] /\ doc.at = Now
                               /\ seen' \in 0..Now /\ (~together => seen' = Now)
        BY <3>2, <3>3
      <4>2. QED
        BY <1>4, <4>1
    <3>4. QED
      BY <1>10, <3>1, <3>3 DEF Transfer
  <2>3. TypeOK'
    BY <1>1, <1>2, <1>3, <2>1, <2>2 DEF TypeOK
  <2>4. DocsOfLog'
    BY <1>1, <1>2, <1>3, <1>5, <2>1, <2>2 DEF DocsOfLog, TypeOK
  <2>5. DocsOfUrl'
    BY <1>1, <1>2, <2>1, <2>2 DEF DocsOfUrl, TypeOK, Looking
  <2>6. ASSUME ~together' PROVE EntryIsLatest'
    <3>1. \A u \in Thread \ {t} : pc[u] = "idle"
      BY <1>2, <2>1, <2>6 DEF DriverInv, OneAtATime
    <3>2. pc'[t] = "add" /\ (chunk'[t] # NULL => chunk'[t].at = seen')
      BY <1>1, <1>2, <2>1, <2>2, <2>6 DEF TypeOK
    <3>3. QED
      BY <1>2, <3>1, <3>2 DEF EntryIsLatest
  <2>7. QED
    BY <1>6, <1>7, <2>3, <2>4, <2>5, <2>6 DEF DriverInv
<1>11. CASE AddStart(t) \/ (AddEnd(t) /\ chunk[t] # NULL)
  <2>1. PICK q \in {"adding", "got"} :
            /\ pc[t] \in {"add", "adding"} /\ UNCHANGED <<chunk, seen>>
            /\ pc' = [pc EXCEPT ![t] = q]
            /\ q = "got" => chunk[t] # NULL
            /\ \/ pc[t] = "adding" /\ UNCHANGED entry
               \/ chunk[t] = NULL /\ entry' = NULL
               \/ chunk[t] # NULL /\ entry' = [url |-> url[t], doc |-> chunk[t]]
               \/ entry' \in {[url |-> url[t], doc |-> NULL], [url |-> NULL, doc |-> NULL]}
    BY <1>11 DEF AddStart, AddEnd, Store, At, Goto, history
  <2>2. chunk[t] # NULL => chunk[t] \in Doc /\ chunk[t].of = url[t] /\ chunk[t].at <= Now
    BY <1>1, <2>1 DEF TypeOK, DocsOfUrl, DocsOfLog
  <2>3. TypeOK'
    BY <1>1, <1>2, <1>3, <2>1, <2>2 DEF TypeOK
  <2>4. DocsOfLog'
    BY <1>1, <1>2, <1>3, <2>1, <2>2 DEF DocsOfLog
  <2>5. DocsOfUrl'
    BY <1>1, <1>2, <2>1, <2>2 DEF DocsOfUrl, TypeOK, Looking
  <2>6. ASSUME ~together' PROVE EntryIsLatest'
    <3>1. chunk[t] # NULL => chunk[t].at = seen
      BY <1>2, <2>1, <2>6 DEF DriverInv, EntryIsLatest
    <3>2. \A u \in Thread \ {t} : pc[u] = "idle"
      BY <1>2, <2>1, <2>6 DEF DriverInv, OneAtATime
    <3>3. pc[t] = "adding" => entry = NULL \/ entry.doc = NULL \/ entry.doc.at = seen
      BY <1>2, <2>6, <3>2 DEF DriverInv, EntryIsLatest
    <3>4. QED
      BY <1>2, <2>1, <3>1, <3>2, <3>3 DEF EntryIsLatest
  <2>7. QED
    BY <1>6, <1>7, <2>3, <2>4, <2>5, <2>6 DEF DriverInv
<1>12. QED
    BY <1>8, <1>9, <1>10, <1>11

(* mkdir, create and read: the server may do it, the cache is not told.     *)
LEMMA UploadKeeps == ASSUME DriverInv, NEW t \in Thread, Upload(t) PROVE DriverInv'
<1>1. TypeOK /\ DocsOfLog /\ DocsOfUrl /\ AnswersWereTrue
    BY DEF DriverInv
<1>2. PICK rc \in {"ok", "error"} : answer' = Plain(rc)
    BY DEF Upload, Return
<1>3. /\ UNCHANGED <<entry, url, chunk, seen, together, overlap>>
      /\ op' = [op EXCEPT ![t] = "none"]
      /\ path' = [path EXCEPT ![t] = Root]
      /\ pc' = [pc EXCEPT ![t] = "idle"] /\ pc[t] = "put"
      /\ path[t] \in Entry
    BY <1>1 DEF Upload, Return, Goto, At, pageVars, history, DocsOfUrl
<1>4. /\ log' \in Seq(Trees) /\ LogGrows
      /\ Now' <= MaxChanges + 1
  <2>1. CASE UNCHANGED log
    BY <1>1, <2>1, LogAlone DEF TypeOK, Trees
  <2>2. CASE /\ Now <= MaxChanges
             /\ path[t] \notin log[Now] /\ Exists(Parent[path[t]], log[Now])
             /\ log' = Append(log, log[Now] \cup {path[t]})
    <3>1. log[Now] \in Trees
      BY <1>1 DEF DocsOfLog, TypeOK, Trees, Now
    <3>2. log[Now] \cup {path[t]} \in Trees
      BY <1>3, <2>2, <3>1 DEF Trees, Closed, Exists
    <3>3. MaxChanges \in Nat /\ Now \in Nat
      BY <1>1, GridAssumption DEF DocsOfLog
    <3>4. QED
      BY <1>1, <2>2, <3>2, <3>3, LogAppended
  <2>3. QED
    BY <2>1, <2>2 DEF Upload
<1>5. Plain(rc) \in Answer /\ AnswersWereTrue'
    BY <1>2, PlainIsTrue
<1>6. TypeOK'
    BY <1>1, <1>2, <1>3, <1>4, <1>5 DEF TypeOK, LogGrows, Trees
<1>7. DocsOfLog'
    BY <1>1, <1>3, <1>4, DocsOfLogKept
<1>8. DocsOfUrl'
    BY <1>1, <1>3 DEF DocsOfUrl, TypeOK, Looking
<1>9. ~together' => OneAtATime' /\ EntryIsLatest'
    BY <1>1, <1>3 DEF DriverInv, OneAtATime, EntryIsLatest, TypeOK
<1>10. QED
    BY <1>5, <1>6, <1>7, <1>8, <1>9 DEF DriverInv

(* Calls that looked give their answer.                                     *)
LEMMA ReturnKeeps ==
    ASSUME DriverInv, NEW t \in Thread, GetattrReturns(t) \/ ReaddirReturns(t)
    PROVE  DriverInv'
<1>1. TypeOK /\ DocsOfLog /\ DocsOfUrl /\ AnswersWereTrue
    BY DEF DriverInv
<1>2. /\ UNCHANGED <<log, entry, seen, together, overlap>>
      /\ op' = [op EXCEPT ![t] = "none"]
      /\ path' = [path EXCEPT ![t] = Root]
      /\ pc' = [pc EXCEPT ![t] = "idle"] /\ pc[t] = "got"
      /\ url' = [url EXCEPT ![t] = NULL]
      /\ chunk' = [chunk EXCEPT ![t] = NULL]
    BY DEF GetattrReturns, ReaddirReturns, Return, Forget, Goto, At
<1>3. LogGrows /\ Now' = Now /\ Now' <= MaxChanges + 1
    BY <1>1, <1>2, LogAlone
<1>4. chunk[t] \in Doc /\ chunk[t].at \in 1..Now /\ chunk[t].of = url[t]
  <2>1. chunk[t] # NULL /\ chunk[t] \in Doc
    BY <1>1, <1>2 DEF TypeOK
  <2>2. chunk[t].at \in 1..(MaxChanges + 1) /\ MaxChanges \in Nat
    BY <2>1, GridAssumption
  <2>3. QED
    BY <1>1, <1>2, <2>1, <2>2 DEF DocsOfLog, DocsOfUrl
<1>5. Names(chunk[t]) \in SUBSET Entry /\ Names(chunk[t]) \subseteq log[chunk[t].at]
    BY <1>1, <1>4 DEF Names, Listing, TypeOK, Now
<1>6. /\ answer' \in Answer
      /\ answer'.kind \in {"dir", "file"} =>
            \E e \in Sought(answer'.path) :
                e \in log[chunk[t].at] /\ answer'.kind = TypeOf(e)
      /\ answer'.kind = "list" =>
            /\ Exists(answer'.path, log[chunk[t].at])
            /\ answer'.names = Listing(answer'.path, log[chunk[t].at])
  <2>1. CASE answer' = Plain("error")
    BY <2>1 DEF Plain, Answer
  <2>2. CASE GetattrReturns(t) /\ answer' # Plain("error")
    <3>1. PICK e \in Sought(path[t]) \cap Names(chunk[t]) : answer' = Typed(path[t], TypeOf(e))
      BY <2>2 DEF GetattrReturns, Return
    <3>2. path[t] \in Entry \cup {Root}
      BY <1>1 DEF TypeOK
    <3>3. /\ Typed(path[t], TypeOf(e)) \in Answer
          /\ Typed(path[t], TypeOf(e)).kind = TypeOf(e) /\ TypeOf(e) # "list"
          /\ Typed(path[t], TypeOf(e)).path = path[t]
      BY <3>2 DEF Typed, Answer, TypeOf
    <3>4. QED
      BY <1>5, <3>1, <3>3
  <2>3. CASE ReaddirReturns(t) /\ answer' # Plain("error")
    <3>1. Place(chunk[t].of) = path[t] /\ path[t] \in Entry \cup {Root}
      <4>1. path[t] \in Entry \cup {Root} /\ chunk[t].of = path[t]
        BY <1>1, <1>2, <1>4, <2>3 DEF ReaddirReturns, DocsOfUrl, Looking, TypeOK
      <4>2. QED
        BY <4>1, GridAssumption DEF Place
    <3>2. answer' = Listed(path[t], Names(chunk[t])) /\ Parses(chunk[t])
      BY <2>3 DEF ReaddirReturns, Return
    <3>3. /\ Exists(path[t], log[chunk[t].at])
          /\ Names(chunk[t]) = Listing(path[t], log[chunk[t].at])
      BY <3>1, <3>2 DEF Parses, Names
    <3>4. QED
      BY <1>5, <3>1, <3>2, <3>3 DEF Listed, Answer
  <2>4. QED
    BY <2>1, <2>2, <2>3
<1>7. TypeOK'
    BY <1>1, <1>2, <1>3, <1>6 DEF TypeOK
<1>8. DocsOfLog'
    BY <1>1, <1>2, <1>3 DEF DocsOfLog, TypeOK
<1>9. DocsOfUrl'
    BY <1>1, <1>2 DEF DocsOfUrl, TypeOK, Looking
<1>10. WasTrue'
  <2>1. log' = log /\ chunk[t].at \in 1..Now'
    BY <1>2, <1>3, <1>4
  <2>2. QED
    BY <1>6, <2>1 DEF WasTrue, Exists, Listing
<1>11. AnswersWereTrue'
    BY <1>10 DEF AnswersWereTrue, WasTrue
<1>12. ~together' => OneAtATime' /\ EntryIsLatest'
    BY <1>1, <1>2 DEF DriverInv, OneAtATime, EntryIsLatest, TypeOK
<1>13. QED
    BY <1>7, <1>8, <1>9, <1>11, <1>12 DEF DriverInv

-----------------------------------------------------------------------------

(* The inductive invariant: what is in the cache and in the hands of the     *)
(* calls comes from the server's log, is of the URL asked for, and, while    *)
(* calls do not overlap, is the newest that was looked at.                   *)
THEOREM DriverInvHolds == Spec => []DriverInv
<1>1. Init => DriverInv
    BY FirstDriver
<1>2. DriverInv /\ UNCHANGED vars => DriverInv'
  <2>1. SUFFICES ASSUME DriverInv, UNCHANGED vars PROVE DriverInv'
    OBVIOUS
  <2>2. UNCHANGED <<entry, url, chunk, log, pc, op, path, answer, seen, together, overlap>>
    BY <2>1 DEF vars, pageVars, history
  <2>3. TypeOK' /\ DocsOfLog'
    BY <2>1, <2>2 DEF DriverInv, TypeOK, DocsOfLog, Now
  <2>4. DocsOfUrl' /\ OneAtATime' = OneAtATime /\ EntryIsLatest' = EntryIsLatest
    BY <2>1, <2>2 DEF DriverInv, DocsOfUrl, OneAtATime, EntryIsLatest
  <2>5. AnswersWereTrue'
    BY <2>1, <2>2, LogStays, AnswersKept DEF DriverInv, AnswersWereTrue
  <2>6. QED
    BY <2>1, <2>2, <2>3, <2>4, <2>5 DEF DriverInv
<1>3. DriverInv /\ Next => DriverInv'
  <2> SUFFICES ASSUME DriverInv, Next PROVE DriverInv'
    OBVIOUS
  <2>1. ASSUME NEW t \in Thread,
               \/ FetchCrash(t) \/ NoMemory(t) \/ (AddEnd(t) /\ chunk[t] = NULL)
        PROVE  DriverInv'
    BY <2>1, DeathKeeps DEF FetchCrash, NoMemory, AddEnd, At
  <2>2. ASSUME NEW t \in Thread, Step(t) PROVE DriverInv'
    BY <2>1, <2>2, DownloadKeeps, ReturnKeeps DEF Step
  <2>3. QED
    BY <2>1, <2>2, OutsideKeeps, CallKeeps, DownloadKeeps, UploadKeeps DEF Next
<1>4. QED
    BY <1>1, <1>2, <1>3, PTL DEF Spec

(* The types of the driver's state, whatever the server's tree goes through. *)
THEOREM TypeCorrect == Spec => []TypeOK
<1>1. DriverInv => TypeOK
    BY DEF DriverInv
<1>2. QED
    BY <1>1, DriverInvHolds, PTL

(* Until cache_add meets another use of the cache, every answer of the driver*)
(* was true of the server at some time (for getattr: of the path, or of the  *)
(* one that dirname makes of it), however the calls of any number of threads,*)
(* their transfers and the changes of the tree interleave, and whatever      *)
(* breaks off on the way.                                                    *)
THEOREM AnswersWereTrueHolds == Spec => []AnswersWereTrue
<1>1. DriverInv => AnswersWereTrue
    BY DEF DriverInv
<1>2. QED
    BY <1>1, DriverInvHolds, PTL

(* While calls do not overlap, no call looks at anything older than what any *)
(* call has looked at before.                                                *)
THEOREM ReadsForwardHolds == Spec => []ReadsForward
<1>1. DriverInv => ReadsForward
    BY DEF DriverInv, ReadsForward, EntryIsLatest, TypeOK
<1>2. QED
    BY <1>1, DriverInvHolds, PTL
=============================================================================
