------------------------------ MODULE UrlCache -------------------------------
(***************************************************************************)
(* download() of src/src/proto/curl-getinmemory.c over the cache of        *)
(* src/src/proto/cache.c, as several threads of the FUSE driver execute    *)
(* them.  Nothing in the cache is locked, so each access to it that another*)
(* thread can notice is a step of its own, and every access through        *)
(* "tmp_list -> cached" reads that pointer again, as the source does.      *)
(***************************************************************************)
EXTENDS Integers

CONSTANTS
    Thread,
    Url,
    Rev,      \* what tells the documents of one URL apart: the server's tree, how much
              \* of it came, and what a failing realloc lost in between
    NULL,
    Wild      \* memory malloc has returned and nobody has written

Doc == [of : Url, rev : Rev]

\* the fields url, buffer and buffer -> data, each Wild until it is set; a strdup that
\* fails sets its field to NULL
Block == [url : Url \cup {Wild, NULL}, buffer : {Wild, "malloced"},
          data : Doc \cup {Wild, NULL}]
Blank == [url |-> Wild, buffer |-> Wild, data |-> Wild]

ASSUME CacheAssumption ==
    /\ NULL \notin Thread \cup Url \cup Doc \cup Block \cup [url : Url, doc : Doc]
    /\ Wild \notin Thread \cup Url \cup Doc \cup Block \cup {NULL, "malloced"}

VARIABLES
    clist,      \* the head of the list: a list node is named by the thread that made it
    cached,     \* the block of each list node: NULL, Wild or a block
    next,       \* the next field of each list node: nothing ever sets it but to NULL
    pc,
    url,        \* the URL a thread is downloading
    chunk,      \* what it got
    look,       \* its tmp_list
    overlap     \* history: cache_add ran while another thread was in the cache

vars == <<clist, cached, next, pc, url, chunk, look, overlap>>

Adding   == {"newlist", "clearcached", "clearnext", "tail", "newblock", "seturl",
             "setbuffer", "setdata"}
Fetching == {"match", "copy"}

TypeOK ==
    /\ clist \in Thread \cup {NULL}
    /\ cached \in [Thread -> Block \cup {NULL, Wild}]
    /\ next \in [Thread -> {NULL, Wild}]
    /\ pc \in [Thread -> Adding \cup Fetching \cup
                         {"idle", "fetch", "request", "add", "got", "nomemory", "dead"}]
    /\ url \in [Thread -> Url \cup {NULL}]
    /\ chunk \in [Thread -> Doc \cup {NULL}]
    /\ look \in [Thread -> Thread \cup {NULL}]
    /\ overlap \in BOOLEAN
    /\ \A t \in Thread :
          /\ pc[t] \in Fetching \cup {"newblock", "seturl", "setbuffer", "setdata"} =>
                look[t] # NULL
          /\ pc[t] \notin {"idle", "nomemory", "dead"} => url[t] # NULL

Init ==
    /\ clist = NULL
    /\ cached = [t \in Thread |-> NULL]
    /\ next = [t \in Thread |-> NULL]
    /\ pc = [t \in Thread |-> "idle"]
    /\ url = [t \in Thread |-> NULL]
    /\ chunk = [t \in Thread |-> NULL]
    /\ look = [t \in Thread |-> NULL]
    /\ overlap = FALSE

Alive == \A t \in Thread : pc[t] \notin {"nomemory", "dead"}

At(t, p) == Alive /\ pc[t] = p

Goto(t, p) == pc' = [pc EXCEPT ![t] = p]

Others(t, places) == \E u \in Thread \ {t} : pc[u] \in places

\* the block a thread's tmp_list leads to, and whether it can be followed
BlockOf(t) == cached[look[t]]
Followed(t) == BlockOf(t) \notin {NULL, Wild}

(* A bad pointer is followed: the process, with all its threads, is gone.  *)
Crash(t) ==
    /\ Goto(t, "dead")
    /\ UNCHANGED <<clist, cached, next, url, chunk, look, overlap>>

(* malloc fails and the next statement follows its result: of the URL, the *)
(* chunk, a node, a block, its buffer or a copy's buffer.                  *)
NoMemory(t) ==
    /\ Alive /\ pc[t] \in {"fetch", "request", "newlist", "newblock", "setbuffer", "copy"}
    /\ Goto(t, "nomemory")
    /\ UNCHANGED <<clist, cached, next, url, chunk, look, overlap>>

-----------------------------------------------------------------------------
(* cache_fetch.                                                            *)

(* Mutant of FetchStart: the test for an empty cache is missing.           *)
FetchUntested(t) ==
    /\ At(t, "fetch")
    /\ look' = [look EXCEPT ![t] = clist]
    /\ Goto(t, "match")
    /\ overlap' = (overlap \/ Others(t, Adding))
    /\ UNCHANGED <<clist, cached, next, url, chunk>>

(* The URL has been put together; an empty cache is a miss.                *)
FetchStart(t) ==
    /\ At(t, "fetch")
    /\ look' = [look EXCEPT ![t] = clist]
    /\ Goto(t, IF clist = NULL THEN "request" ELSE "match")
    /\ overlap' = (overlap \/ Others(t, Adding))
    /\ UNCHANGED <<clist, cached, next, url, chunk>>

(* Mutant of MatchHit: the URL of the entry is not compared.               *)
MatchAny(t) ==
    /\ At(t, "match")
    /\ Followed(t) /\ BlockOf(t).url \notin {NULL, Wild}
    /\ Goto(t, "copy")
    /\ UNCHANGED <<clist, cached, next, url, chunk, look, overlap>>

MatchHit(t) ==
    /\ At(t, "match")
    /\ Followed(t) /\ BlockOf(t).url = url[t]
    /\ Goto(t, "copy")
    /\ UNCHANGED <<clist, cached, next, url, chunk, look, overlap>>

\* no block, or the block of another URL: on to the next node
Elsewhere(t) ==
    \/ BlockOf(t) = NULL
    \/ Followed(t) /\ BlockOf(t).url \notin {url[t], NULL, Wild}

(* Mutant of MatchMiss: tmp_list is not moved on.                          *)
MatchAgain(t) ==
    /\ At(t, "match")
    /\ Elsewhere(t) /\ next[look[t]] = NULL
    /\ UNCHANGED vars

(* There is never a next node to try.                                      *)
MatchMiss(t) ==
    /\ At(t, "match")
    /\ Elsewhere(t) /\ next[look[t]] = NULL
    /\ Goto(t, "request")
    /\ UNCHANGED <<clist, cached, next, url, chunk, look, overlap>>

MatchCrash(t) ==
    /\ At(t, "match")
    /\ \/ BlockOf(t) = Wild
       \/ Followed(t) /\ BlockOf(t).url \in {NULL, Wild}
       \/ Elsewhere(t) /\ next[look[t]] = Wild
    /\ Crash(t)

(* The bytes are duplicated from the block that is there NOW; the caller   *)
(* gets none when that strdup fails.                                       *)
CopyData(t) ==
    /\ At(t, "copy")
    /\ IF Followed(t) /\ BlockOf(t).data \notin {NULL, Wild}
       THEN /\ \E bytes \in {BlockOf(t).data, NULL} : chunk' = [chunk EXCEPT ![t] = bytes]
            /\ Goto(t, "got")
            /\ UNCHANGED <<clist, cached, next, url, look, overlap>>
       ELSE Crash(t)

-----------------------------------------------------------------------------
(* The rest of download().                                                 *)

Call(t, u) ==
    /\ At(t, "idle")
    /\ url' = [url EXCEPT ![t] = u]
    /\ Goto(t, "fetch")
    /\ UNCHANGED <<clist, cached, next, chunk, look, overlap>>

(* The transfer, if it comes to an end: no time is set for it.  The result *)
(* of curl_easy_perform is ignored; the chunk is what arrived, or has no   *)
(* bytes, none having come or the last realloc having failed.              *)
Transfer(t) ==
    /\ At(t, "request")
    /\ \/ \E r \in Rev : chunk' = [chunk EXCEPT ![t] = [of |-> url[t], rev |-> r]]
       \/ chunk' = [chunk EXCEPT ![t] = NULL]
    /\ Goto(t, "add")
    /\ UNCHANGED <<clist, cached, next, url, look, overlap>>

(* The caller gets the chunk, whose memory is now its own.                 *)
Return(t) ==
    /\ At(t, "got")
    /\ Goto(t, "idle")
    /\ url' = [url EXCEPT ![t] = NULL]
    /\ chunk' = [chunk EXCEPT ![t] = NULL]
    /\ look' = [look EXCEPT ![t] = NULL]
    /\ UNCHANGED <<clist, cached, next, overlap>>

-----------------------------------------------------------------------------
(* cache_add.                                                              *)

AddStart(t) ==
    /\ At(t, "add")
    /\ Goto(t, IF clist = NULL THEN "newlist" ELSE "tail")
    /\ overlap' = (overlap \/ Others(t, Adding \cup Fetching))
    /\ UNCHANGED <<clist, cached, next, url, chunk, look>>

NewList(t) ==
    /\ At(t, "newlist")
    /\ clist' = t
    /\ \E junk \in {NULL, Wild} : cached' = [cached EXCEPT ![t] = junk]
    /\ \E junk \in {NULL, Wild} : next' = [next EXCEPT ![t] = junk]
    /\ Goto(t, "clearcached")
    /\ UNCHANGED <<url, chunk, look, overlap>>

\* both stores go to the node clist points to now
ClearCached(t) ==
    /\ At(t, "clearcached")
    /\ cached' = [cached EXCEPT ![clist] = NULL]
    /\ Goto(t, "clearnext")
    /\ UNCHANGED <<clist, next, url, chunk, look, overlap>>

\* Mutant of ClearNext: the next field keeps what malloc left there.
ClearNextForgotten(t) ==
    /\ At(t, "clearnext")
    /\ Goto(t, "tail")
    /\ UNCHANGED <<clist, cached, next, url, chunk, look, overlap>>

ClearNext(t) ==
    /\ At(t, "clearnext")
    /\ next' = [next EXCEPT ![clist] = NULL]
    /\ Goto(t, "tail")
    /\ UNCHANGED <<clist, cached, url, chunk, look, overlap>>

(* The walk to the last node; no node is ever appended to it.              *)
FindTail(t) ==
    /\ At(t, "tail")
    /\ IF next[clist] = NULL
       THEN /\ look' = [look EXCEPT ![t] = clist]
            /\ Goto(t, "newblock")
            /\ UNCHANGED <<clist, cached, next, url, chunk, overlap>>
       ELSE Crash(t)

(* Mutant of NewBlock: the entry that is there is reused, with its bytes,  *)
(* and the new bytes are only stored where there was none.                 *)
KeepBlock(t) ==
    /\ At(t, "newblock")
    /\ IF Followed(t) /\ chunk[t] # NULL
       THEN /\ cached' = [cached EXCEPT ![look[t]].url = url[t]]
            /\ Goto(t, "got")
       ELSE /\ cached' = [cached EXCEPT ![look[t]] = Blank]
            /\ Goto(t, "seturl")
    /\ UNCHANGED <<clist, next, url, chunk, look, overlap>>

(* The entry that was there, if any, is forgotten.                         *)
NewBlock(t) ==
    /\ At(t, "newblock")
    /\ cached' = [cached EXCEPT ![look[t]] = Blank]
    /\ Goto(t, "seturl")
    /\ UNCHANGED <<clist, next, url, chunk, look, overlap>>

SetUrl(t) ==
    /\ At(t, "seturl")
    /\ IF Followed(t)
       THEN /\ \E copy \in {url[t], NULL} : cached' = [cached EXCEPT ![look[t]].url = copy]
            /\ Goto(t, "setbuffer")
            /\ UNCHANGED <<clist, next, url, chunk, look, overlap>>
       ELSE Crash(t)

SetBuffer(t) ==
    /\ At(t, "setbuffer")
    /\ IF Followed(t)
       THEN /\ cached' = [cached EXCEPT ![look[t]].buffer = "malloced",
                                        ![look[t]].data = Wild]
            /\ Goto(t, "setdata")
            /\ UNCHANGED <<clist, next, url, chunk, look, overlap>>
       ELSE Crash(t)

(* strdup of the bytes, of which there may be none; its result is stored   *)
(* untested.  Then size, offset and the end of the entry's life, which     *)
(* nothing ever reads.                                                     *)
SetData(t) ==
    /\ At(t, "setdata")
    /\ IF chunk[t] # NULL /\ Followed(t) /\ BlockOf(t).buffer # Wild
       THEN /\ \E copy \in {chunk[t], NULL} : cached' = [cached EXCEPT ![look[t]].data = copy]
            /\ Goto(t, "got")
            /\ UNCHANGED <<clist, next, url, chunk, look, overlap>>
       ELSE Crash(t)

-----------------------------------------------------------------------------

Step(t) ==
    \/ FetchStart(t) \/ MatchHit(t) \/ MatchMiss(t) \/ MatchCrash(t) \/ CopyData(t)
    \/ AddStart(t) \/ NewList(t) \/ ClearCached(t) \/ ClearNext(t) \/ FindTail(t)
    \/ NewBlock(t) \/ SetUrl(t) \/ SetBuffer(t) \/ SetData(t)
    \/ Return(t)

Next ==
    \E t \in Thread :
        Step(t) \/ Transfer(t) \/ NoMemory(t) \/ \E u \in Url : Call(t, u)

Spec == Init /\ [][Next]_vars

(* Threads are scheduled; a server may leave a transfer without an end.    *)
FairSpec == Spec /\ \A t \in Thread : WF_vars(Step(t))

-----------------------------------------------------------------------------
(* Properties.  Until cache_add runs beside another use of the cache ...   *)

(* ... what download() returns is a document of the URL it was asked for,  *)
(* whoever fetched it first, or nothing;                                   *)
ChunkIsOfUrl ==
    ~overlap => \A t \in Thread :
        pc[t] = "got" /\ chunk[t] # NULL => chunk[t].of = url[t]

(* ... no pointer of the cache is followed before it is set: as long as    *)
(* there is memory the driver dies at the strdup of line 32 only, of a     *)
(* transfer that brought nothing.  Without memory it also dies where malloc*)
(* failed ("nomemory"), or later, of a URL or of bytes that strdup did not *)
(* duplicate for an entry (lines 57 and 60);                               *)
DeathIsExplained ==
    ~overlap => \A t \in Thread : pc[t] = "dead" =>
        /\ chunk[t] = NULL /\ look[t] # NULL /\ Followed(t)
        /\ \/ BlockOf(t) = [url |-> url[t], buffer |-> "malloced", data |-> Wild]
           \/ NULL \in {BlockOf(t).url, BlockOf(t).data}

(* ... and the steps of the threads make up a cache of one entry.  An      *)
(* entry counts as replaced from the moment its block is (line 28 of       *)
(* cache.c), when it is still being filled in.  It is lost when the process*)
(* ends, or when its URL or its bytes were not duplicated.                 *)
Filling == {t \in Thread : pc[t] \in {"seturl", "setbuffer", "setdata"}}

Entry ==
    IF ~Alive THEN NULL
    ELSE IF Filling # {} THEN
        LET t == CHOOSE u \in Filling : TRUE
        IN IF chunk[t] = NULL THEN NULL ELSE [url |-> url[t], doc |-> chunk[t]]
    ELSE IF clist = NULL THEN NULL
    ELSE IF cached[clist] \in {NULL, Wild} THEN NULL
    ELSE IF NULL \in {cached[clist].url, cached[clist].data} THEN NULL
    ELSE [url |-> cached[clist].url, doc |-> cached[clist].data]

Page == INSTANCE PageCache WITH entry <- Entry

IsOnePageCache ==
    Page!NoPages /\ [][~overlap' => Page!PageNext]_(Page!pageVars)

(* Why they hold.  Whatever overlaps, the list once made stays made.  Until *)
(* something does, whoever adds is the only one in the cache, so that every *)
(* tmp_list is the head of the list; what can be seen of the head by others *)
(* is no block or a complete one, and the rest is what cache_add has done so*)
(* far.                                                                     *)
ListStays ==
    \A t \in Thread : pc[t] \in {"clearcached", "clearnext", "tail"} => clist # NULL

AdderAlone ==
    \A t, u \in Thread :
        t # u /\ pc[t] \in Adding => pc[u] \notin Adding \cup Fetching

ChunksOfUrl ==
    \A t \in Thread :
        /\ pc[t] \in {"idle", "fetch", "request", "dead"} \cup Fetching => chunk[t] = NULL
        /\ chunk[t] # NULL => chunk[t].of = url[t]

LooksAtHead ==
    \A t \in Thread :
        /\ pc[t] = "newlist" => clist = NULL
        /\ pc[t] \in Fetching \cup {"newblock", "seturl", "setbuffer", "setdata", "dead"} =>
              look[t] = clist /\ clist # NULL

Complete == {b \in Block : /\ b.url # Wild /\ b.buffer # Wild /\ b.data # Wild
                           /\ NULL \notin {b.url, b.data} => b.data.of = b.url}

\* a block on its way, of a URL that strdup may have failed to duplicate
Begun(u, buffer) == {[url |-> copy, buffer |-> buffer, data |-> Wild] : copy \in {u, NULL}}

HeadFilled ==
    /\ \A t \in Thread :
          /\ pc[t] = "clearcached" => cached[clist] \in {NULL, Wild}
          /\ pc[t] = "seturl" => cached[clist] = Blank
          /\ pc[t] = "setbuffer" => cached[clist] \in Begun(url[t], Wild)
          /\ pc[t] = "setdata" => cached[clist] \in Begun(url[t], "malloced")
          /\ pc[t] = "dead" =>
                \/ cached[clist] \in Begun(url[t], "malloced")
                \/ cached[clist] \in Complete /\ NULL \in {cached[clist].url, cached[clist].data}
          /\ pc[t] = "copy" => cached[clist] # NULL /\ cached[clist].url = url[t]
    /\ clist = NULL
       \/ (\E t \in Thread : pc[t] \in {"clearcached", "seturl", "setbuffer", "setdata",
                                       "nomemory", "dead"})
       \/ cached[clist] \in Complete \cup {NULL}

HeadIsLast ==
    \/ clist = NULL
    \/ \E t \in Thread : pc[t] \in {"clearcached", "clearnext"}
    \/ next[clist] = NULL

Orderly == AdderAlone /\ ChunksOfUrl /\ LooksAtHead /\ HeadFilled /\ HeadIsLast

CacheInv == TypeOK /\ ListStays /\ (~overlap => Orderly)

(* Under FairSpec every download() returns or comes to wait for its        *)
(* transfer, to which no time is set, unless the process died; and so it   *)
(* does after the transfer.                                                *)
Waits(t) == pc[t] \in {"idle", "request"}

DownloadsReturn == \A t \in Thread : ~Waits(t) ~> (Waits(t) \/ ~Alive)
=============================================================================
