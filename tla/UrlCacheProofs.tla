-------------------------- MODULE UrlCacheProofs ----------------------------
(***************************************************************************)
(* What UrlCache promises, for every set of threads, URLs and documents:   *)
(* until two uses of the cache meet, download() returns documents of the   *)
(* URL asked for, dies of an empty transfer or a failed allocation only,   *)
(* and implements the cache of one entry.                                  *)
(***************************************************************************)
EXTENDS UrlCache, TLAPS

-----------------------------------------------------------------------------
(* Types, and the list once made stays made, whatever overlaps.            *)

LEMMA BlockFields ==
    /\ Blank \in Block
    /\ \A b \in Block, u \in Url \cup {NULL} : [b EXCEPT !.url = u] \in Block
    /\ \A b \in Block : [b EXCEPT !.buffer = "malloced", !.data = Wild] \in Block
    /\ \A b \in Block, d \in Doc \cup {NULL} : [b EXCEPT !.data = d] \in Block
    BY DEF Block, Blank

TypesAndList == TypeOK /\ ListStays

LEMMA TypesAtFirst == Init => TypesAndList
    BY DEF Init, TypesAndList, TypeOK, ListStays, Fetching, Adding

LEMMA TypesKept == TypesAndList /\ [Next]_vars => TypesAndList'
<1> SUFFICES ASSUME TypeOK, ListStays, [Next]_vars PROVE TypeOK' /\ ListStays'
    BY DEF TypesAndList
<1>1. CASE UNCHANGED vars
    BY <1>1 DEF vars, TypeOK, ListStays
<1>2. ASSUME NEW t \in Thread, NEW u \in Url, Call(t, u) PROVE TypeOK' /\ ListStays'
    BY <1>2, CacheAssumption DEF Call, At, Goto, TypeOK, ListStays, Fetching, Adding
<1>3. ASSUME NEW t \in Thread,
             FetchStart(t) \/ MatchHit(t) \/ MatchMiss(t) \/ Return(t) \/ AddStart(t)
      PROVE  TypeOK' /\ ListStays'
  <2>1. CASE FetchStart(t)
    BY <2>1 DEF FetchStart, At, Goto, TypeOK, ListStays, Fetching, Adding
  <2>2. CASE MatchHit(t) \/ MatchMiss(t)
    BY <2>2 DEF MatchHit, MatchMiss, At, Goto, TypeOK, ListStays, Fetching, Adding
  <2>3. CASE Return(t)
    BY <2>3 DEF Return, At, Goto, TypeOK, ListStays, Fetching, Adding
  <2>4. CASE AddStart(t)
    BY <2>4 DEF AddStart, At, Goto, TypeOK, ListStays, Fetching, Adding
  <2>5. QED
    BY <1>3, <2>1, <2>2, <2>3, <2>4
<1>4. ASSUME NEW t \in Thread, Crash(t) PROVE TypeOK' /\ ListStays'
    BY <1>4 DEF Crash, Goto, TypeOK, ListStays, Fetching, Adding
<1>14. ASSUME NEW t \in Thread, NoMemory(t) PROVE TypeOK' /\ ListStays'
    BY <1>14 DEF NoMemory, Goto, TypeOK, ListStays, Fetching, Adding
<1>5. ASSUME NEW t \in Thread, MatchCrash(t) PROVE TypeOK' /\ ListStays'
    BY <1>4, <1>5 DEF MatchCrash
<1>6. ASSUME NEW t \in Thread, CopyData(t) PROVE TypeOK' /\ ListStays'
  <2>1. CASE Crash(t)
    BY <1>4, <2>1
  <2>2. CASE ~Crash(t)
    <3>1. BlockOf(t) \in Block /\ BlockOf(t).data \in Doc
      BY <1>6, <2>2 DEF CopyData, Followed, BlockOf, Block, TypeOK, At, Fetching
    <3>2. QED
      BY <1>6, <2>2, <3>1, CacheAssumption
         DEF CopyData, At, Goto, TypeOK, ListStays, Fetching, Adding
  <2>3. QED
    BY <2>1, <2>2
<1>7. ASSUME NEW t \in Thread, Transfer(t) PROVE TypeOK' /\ ListStays'
  <2>1. \A r \in Rev : [of |-> url[t], rev |-> r] \in Doc
    BY <1>7 DEF Transfer, At, TypeOK, Doc
  <2>2. QED
    BY <1>7, <2>1 DEF Transfer, At, Goto, TypeOK, ListStays, Fetching, Adding
<1>8. ASSUME NEW t \in Thread, NewList(t) PROVE TypeOK' /\ ListStays'
    BY <1>8, CacheAssumption DEF NewList, At, Goto, TypeOK, ListStays, Fetching, Adding
<1>9. ASSUME NEW t \in Thread, ClearCached(t) \/ ClearNext(t)
      PROVE  TypeOK' /\ ListStays'
    BY <1>9 DEF ClearCached, ClearNext, At, Goto, TypeOK, ListStays, Fetching, Adding
<1>10. ASSUME NEW t \in Thread, FindTail(t) PROVE TypeOK' /\ ListStays'
    BY <1>4, <1>10 DEF FindTail, At, Goto, TypeOK, ListStays, Fetching, Adding
<1>11. ASSUME NEW t \in Thread, NewBlock(t) PROVE TypeOK' /\ ListStays'
    BY <1>11, BlockFields DEF NewBlock, At, Goto, TypeOK, ListStays, Fetching, Adding
<1>12. ASSUME NEW t \in Thread, SetUrl(t) \/ SetBuffer(t) \/ SetData(t)
       PROVE  TypeOK' /\ ListStays'
  <2>1. CASE Crash(t)
    BY <1>4, <2>1
  <2>2. CASE ~Crash(t)
    <3>1. look[t] \in Thread /\ cached[look[t]] \in Block /\ url[t] \in Url
      BY <1>12, <2>2 DEF SetUrl, SetBuffer, SetData, Followed, BlockOf, TypeOK, At, Adding
    <3>2. PICK b \in Block : cached' = [cached EXCEPT ![look[t]] = b]
      <4>1. CASE SetUrl(t)
        BY <2>2, <3>1, <4>1, BlockFields DEF SetUrl, TypeOK
      <4>2. CASE SetBuffer(t)
        BY <2>2, <3>1, <4>2, BlockFields DEF SetBuffer, TypeOK
      <4>3. CASE SetData(t)
        BY <2>2, <3>1, <4>3, BlockFields DEF SetData, TypeOK
      <4>4. QED
        BY <1>12, <4>1, <4>2, <4>3
    <3>3. QED
      BY <1>12, <2>2, <3>1, <3>2
         DEF SetUrl, SetBuffer, SetData, At, Goto, TypeOK, ListStays, Fetching, Adding
  <2>3. QED
    BY <2>1, <2>2
<1>13. QED
    BY <1>1, <1>2, <1>3, <1>5, <1>6, <1>7, <1>8, <1>9, <1>10, <1>11, <1>12, <1>14
       DEF Next, Step

(* The types of the driver's memory, for every history of the cache.       *)
THEOREM TypeCorrect == Spec => []TypeOK
<1>1. Init => TypesAndList
    BY TypesAtFirst
<1>2. TypesAndList /\ [Next]_vars => TypesAndList'
    BY TypesKept
<1>3. TypesAndList => TypeOK
    BY DEF TypesAndList
<1>4. QED
    BY <1>1, <1>2, <1>3, PTL DEF Spec

-----------------------------------------------------------------------------
(* Order, until two uses of the cache meet.                                *)

Sound == TypeOK /\ ListStays /\ Orderly

LEMMA OrderAtFirst == Init => Orderly
    BY DEF Init, Orderly, AdderAlone, ChunksOfUrl, LooksAtHead, HeadFilled, HeadIsLast,
           Adding, Fetching

(* Steps that leave the list alone.                                        *)
LEMMA ReadersKeepOrder ==
    ASSUME Sound, NEW t \in Thread, ~overlap', TypeOK',
           \/ FetchStart(t) \/ MatchHit(t) \/ MatchMiss(t) \/ Transfer(t) \/ Return(t)
           \/ AddStart(t) \/ FindTail(t) \/ \E u \in Url : Call(t, u)
    PROVE  Orderly'
<1>1. Orderly /\ TypeOK /\ ListStays
    BY DEF Sound
<1>2. CASE FetchStart(t)
  <2>1. /\ UNCHANGED <<clist, cached, next, url, chunk>>
        /\ \A u \in Thread \ {t} : pc'[u] = pc[u] /\ look'[u] = look[u]
        /\ \A u \in Thread \ {t} : pc[u] \notin Adding
        /\ pc[t] = "fetch" /\ look'[t] = clist
        /\ pc'[t] = "request" \/ (pc'[t] = "match" /\ clist # NULL)
        /\ \A u \in Thread : pc[u] \notin {"nomemory", "dead"}
    <3>1. \A u \in Thread \ {t} : pc[u] \notin Adding
      BY <1>2 DEF FetchStart, Others
    <3>2. QED
      BY <1>1, <1>2, <3>1 DEF FetchStart, At, Alive, Goto, TypeOK
  <2>2. QED
    BY <1>1, <2>1 DEF Orderly, AdderAlone, ChunksOfUrl, LooksAtHead, HeadFilled,
           HeadIsLast, Adding, Fetching
<1>3. CASE MatchHit(t) \/ MatchMiss(t)
  <2>1. /\ UNCHANGED <<clist, cached, next, url, chunk, look>>
        /\ \A u \in Thread \ {t} : pc'[u] = pc[u]
        /\ pc[t] = "match"
        /\ \/ pc'[t] = "request"
           \/ pc'[t] = "copy" /\ cached[look[t]] # NULL /\ cached[look[t]].url = url[t]
        /\ \A u \in Thread : pc[u] \notin {"nomemory", "dead"}
    BY <1>1, <1>3 DEF MatchHit, MatchMiss, At, Alive, Goto, TypeOK, Followed, BlockOf
  <2>2. QED
    BY <1>1, <2>1 DEF Orderly, AdderAlone, ChunksOfUrl, LooksAtHead, HeadFilled,
           HeadIsLast, Adding, Fetching
<1>4. CASE Transfer(t)
  <2>1. /\ UNCHANGED <<clist, cached, next, url, look>>
        /\ \A u \in Thread \ {t} : pc'[u] = pc[u] /\ chunk'[u] = chunk[u]
        /\ pc[t] = "request" /\ pc'[t] = "add"
        /\ chunk'[t] = NULL \/ chunk'[t].of = url[t]
        /\ \A u \in Thread : pc[u] \notin {"nomemory", "dead"}
    BY <1>1, <1>4 DEF Transfer, At, Alive, Goto, TypeOK
  <2>2. QED
    BY <1>1, <2>1 DEF Orderly, AdderAlone, ChunksOfUrl, LooksAtHead, HeadFilled,
           HeadIsLast, Adding, Fetching
<1>5. CASE Return(t) \/ \E u \in Url : Call(t, u)
  <2>1. /\ UNCHANGED <<clist, cached, next>>
        /\ \A u \in Thread \ {t} : /\ pc'[u] = pc[u] /\ chunk'[u] = chunk[u]
                                   /\ url'[u] = url[u] /\ look'[u] = look[u]
        /\ \/ pc[t] = "got" /\ pc'[t] = "idle" /\ chunk'[t] = NULL
           \/ pc[t] = "idle" /\ pc'[t] = "fetch" /\ chunk'[t] = chunk[t]
        /\ \A u \in Thread : pc[u] \notin {"nomemory", "dead"}
    BY <1>1, <1>5 DEF Return, Call, At, Alive, Goto, TypeOK
  <2>2. QED
    BY <1>1, <2>1 DEF Orderly, AdderAlone, ChunksOfUrl, LooksAtHead, HeadFilled,
           HeadIsLast, Adding, Fetching
<1>6. CASE AddStart(t)
  <2>1. /\ UNCHANGED <<clist, cached, next, url, chunk, look>>
        /\ \A u \in Thread \ {t} : pc'[u] = pc[u]
        /\ \A u \in Thread \ {t} : pc[u] \notin Adding \cup Fetching
        /\ pc[t] = "add"
        /\ pc'[t] = "tail" \/ (pc'[t] = "newlist" /\ clist = NULL)
        /\ \A u \in Thread : pc[u] \notin {"nomemory", "dead"}
    BY <1>1, <1>6 DEF AddStart, At, Alive, Goto, Others, TypeOK
  <2>2. QED
    BY <1>1, <2>1 DEF Orderly, AdderAlone, ChunksOfUrl, LooksAtHead, HeadFilled,
           HeadIsLast, Adding, Fetching
<1>7. CASE FindTail(t)
  <2>1. next[clist] = NULL
    BY <1>1, <1>7 DEF FindTail, At, Orderly, HeadIsLast, AdderAlone, ListStays, Adding
  <2>2. /\ UNCHANGED <<clist, cached, next, url, chunk>>
        /\ \A u \in Thread \ {t} : pc'[u] = pc[u] /\ look'[u] = look[u]
        /\ pc[t] = "tail" /\ clist # NULL
        /\ pc'[t] = "newblock" /\ look'[t] = clist
        /\ \A u \in Thread : pc[u] \notin {"nomemory", "dead"}
    BY <1>1, <1>7, <2>1 DEF FindTail, At, Alive, Goto, TypeOK, ListStays
  <2>3. QED
    BY <1>1, <2>2 DEF Orderly, AdderAlone, ChunksOfUrl, LooksAtHead, HeadFilled,
           HeadIsLast, Adding, Fetching
<1>8. QED
    BY <1>2, <1>3, <1>4, <1>5, <1>6, <1>7

(* Who looks at the head finds no block or a complete one.                 *)
LEMMA HeadSeen ==
    ASSUME Sound, NEW t \in Thread, Alive, pc[t] \in Fetching
    PROVE  /\ look[t] = clist /\ clist # NULL /\ next[clist] = NULL
           /\ cached[clist] \in Complete \cup {NULL}
           /\ \A u \in Thread : pc[u] \notin Adding
<1>1. look[t] = clist /\ clist # NULL
    BY DEF Sound, Orderly, LooksAtHead, Fetching
<1>2. \A u \in Thread : pc[u] \notin Adding \cup {"nomemory", "dead"}
    BY DEF Sound, Orderly, AdderAlone, Fetching, Adding, Alive
<1>3. cached[clist] \in Complete \cup {NULL}
  <2>1. \/ clist = NULL
        \/ (\E u \in Thread : pc[u] \in {"clearcached", "seturl", "setbuffer", "setdata",
                                        "nomemory", "dead"})
        \/ cached[clist] \in Complete \cup {NULL}
    BY DEF Sound, Orderly, HeadFilled
  <2>2. QED
    BY <1>1, <1>2, <2>1 DEF Adding
<1>4. next[clist] = NULL
    BY <1>1, <1>2 DEF Sound, Orderly, HeadIsLast, Adding
<1>5. QED
    BY <1>1, <1>2, <1>3, <1>4

LEMMA CompleteFields ==
    ASSUME NEW b \in Complete
    PROVE  /\ b \in Block /\ b \notin {NULL, Wild}
           /\ b.url \in Url \cup {NULL} /\ b.data \in Doc \cup {NULL}
           /\ b.url # Wild /\ b.data # Wild
           /\ NULL \notin {b.url, b.data} => b.data.of = b.url
<1>1. b \in Block
    BY DEF Complete
<1>2. b \notin {NULL, Wild}
    BY <1>1, CacheAssumption
<1>3. /\ b.url # Wild /\ b.data # Wild
      /\ NULL \notin {b.url, b.data} => b.data.of = b.url
    BY DEF Complete
<1>4. b.url \in Url \cup {NULL} /\ b.data \in Doc \cup {NULL}
    BY <1>1, <1>3 DEF Block
<1>5. QED
    BY <1>1, <1>2, <1>3, <1>4

(* The block a thread copies from is complete, and of its URL.             *)
LEMMA CopiesWhole ==
    ASSUME Sound, NEW t \in Thread, Alive, pc[t] = "copy"
    PROVE  /\ cached[look[t]] \in Complete /\ cached[look[t]].url = url[t]
           /\ url[t] \in Url /\ Followed(t)
<1>1. look[t] = clist /\ cached[clist] \in Complete \cup {NULL}
    BY HeadSeen DEF Fetching
<1>2. cached[clist] # NULL /\ cached[clist].url = url[t] /\ url[t] \in Url
    BY DEF Sound, Orderly, HeadFilled, TypeOK
<1>3. QED
    BY <1>1, <1>2, CompleteFields DEF Followed, BlockOf

(* A thread that looks dies only of a strdup that had failed.              *)
LEMMA ReaderDies ==
    ASSUME Sound, NEW t \in Thread, MatchCrash(t) \/ CopyData(t), pc'[t] = "dead"
    PROVE  Orderly'
<1>1. Orderly /\ TypeOK /\ ListStays
    BY DEF Sound
<1>2. pc[t] \in Fetching /\ Alive
    BY DEF MatchCrash, CopyData, At, Fetching
<1>3. /\ look[t] = clist /\ clist # NULL /\ next[clist] = NULL
      /\ cached[clist] \in Complete \cup {NULL}
      /\ \A u \in Thread : pc[u] \notin Adding
    BY <1>2, HeadSeen
<1>4. cached[clist] \in Complete /\ NULL \in {cached[clist].url, cached[clist].data}
  <2>1. CASE MatchCrash(t)
    <3>1. NULL # Wild
      BY CacheAssumption
    <3>2. /\ \A b \in Complete : b # Wild /\ b.url # Wild
          /\ cached[clist] # Wild /\ next[clist] # Wild
      <4>1. \A b \in Complete : b # Wild /\ b.url # Wild
        BY CompleteFields
      <4>2. QED
        BY <1>3, <3>1, <4>1
    <3>3. cached[clist] # NULL /\ cached[clist].url \in {NULL, Wild}
      BY <1>3, <2>1, <3>2 DEF MatchCrash, Followed, BlockOf
    <3>4. QED
      BY <1>3, <3>2, <3>3
  <2>2. CASE CopyData(t)
    <3>1. cached[clist] \in Complete /\ Followed(t)
      BY <1>2, <1>3, <2>2, CopiesWhole DEF CopyData, At
    <3>2. cached[clist].data \in {NULL, Wild}
      BY <1>1, <1>3, <2>2, <3>1 DEF CopyData, Goto, TypeOK, BlockOf
    <3>3. QED
      BY <3>1, <3>2, CompleteFields
  <2>3. QED
    BY <2>1, <2>2
<1>5. /\ UNCHANGED <<clist, cached, next, url, chunk, look>>
      /\ \A u \in Thread \ {t} : pc'[u] = pc[u]
      /\ chunk[t] = NULL
  <2>1. chunk[t] = NULL
    BY <1>1, <1>2 DEF Orderly, ChunksOfUrl, Fetching
  <2>2. Crash(t)
    BY <1>1 DEF MatchCrash, CopyData, Goto, TypeOK
  <2>3. QED
    BY <1>1, <2>1, <2>2 DEF Crash, Goto, TypeOK
<1>6. QED
    BY <1>1, <1>2, <1>3, <1>4, <1>5
       DEF Orderly, AdderAlone, ChunksOfUrl, LooksAtHead, HeadFilled, HeadIsLast, Adding,
           Fetching, Alive

(* So does the order survive a malloc that fails, there being nobody left. *)
LEMMA NoMemoryKeepsOrder ==
    ASSUME Sound, NEW t \in Thread, NoMemory(t) PROVE Orderly'
<1>1. /\ Orderly /\ TypeOK
      /\ UNCHANGED <<clist, cached, next, url, chunk, look>>
      /\ \A u \in Thread \ {t} : pc'[u] = pc[u]
      /\ pc'[t] = "nomemory"
      /\ pc[t] \notin {"clearcached", "clearnext"}
    BY DEF Sound, NoMemory, Goto, TypeOK
<1>2. QED
    BY <1>1 DEF Orderly, AdderAlone, ChunksOfUrl, LooksAtHead, HeadFilled, HeadIsLast, Adding,
                Fetching

LEMMA CopyKeepsOrder ==
    ASSUME Sound, NEW t \in Thread, CopyData(t), pc'[t] # "dead" PROVE Orderly'
<1>1. Orderly /\ TypeOK /\ ListStays
    BY DEF Sound
<1>2. /\ Followed(t) /\ url[t] # NULL
      /\ cached[look[t]].data # NULL => cached[look[t]].data.of = url[t]
  <2>1. /\ cached[look[t]] \in Complete /\ cached[look[t]].url = url[t]
        /\ url[t] \in Url /\ Followed(t)
    BY CopiesWhole DEF CopyData, At
  <2>2. url[t] # NULL
    BY <2>1, CacheAssumption
  <2>3. QED
    BY <2>1, <2>2, CompleteFields
<1>3. /\ UNCHANGED <<clist, cached, next, url, look>>
      /\ \A u \in Thread \ {t} : pc'[u] = pc[u] /\ chunk'[u] = chunk[u]
      /\ pc[t] = "copy" /\ pc'[t] = "got"
      /\ chunk'[t] = NULL \/ chunk'[t].of = url[t]
      /\ \A u \in Thread : pc[u] \notin {"nomemory", "dead"}
  <2>1. Followed(t) /\ BlockOf(t).data \notin {NULL, Wild} /\ pc[t] = "copy"
    BY <1>1 DEF CopyData, Crash, Goto, At, TypeOK
  <2>2. PICK bytes \in {BlockOf(t).data, NULL} : chunk' = [chunk EXCEPT ![t] = bytes]
    BY <2>1 DEF CopyData
  <2>3. bytes = NULL \/ bytes.of = url[t]
    BY <1>2, <2>1, <2>2 DEF BlockOf
  <2>4. QED
    BY <1>1, <2>1, <2>2, <2>3 DEF CopyData, At, Alive, Goto, TypeOK
<1>4. QED
    BY <1>1, <1>3 DEF Orderly, AdderAlone, ChunksOfUrl, LooksAtHead, HeadFilled,
           HeadIsLast, Adding, Fetching

(* cache_add, by the one thread in it.                                     *)
LEMMA AdderKeepsOrder ==
    ASSUME Sound, NEW t \in Thread, TypeOK',
           \/ NewList(t) \/ ClearCached(t) \/ ClearNext(t) \/ NewBlock(t)
           \/ SetUrl(t) \/ SetBuffer(t) \/ SetData(t)
    PROVE  Orderly'
<1>1. Orderly /\ TypeOK /\ ListStays
    BY DEF Sound
<1>2. /\ pc[t] \in Adding /\ Alive
      /\ \A u \in Thread \ {t} :
            pc[u] \notin Adding \cup Fetching \cup {"nomemory", "dead"}
    BY <1>1 DEF NewList, ClearCached, ClearNext, NewBlock, SetUrl, SetBuffer, SetData, At,
                Alive, Orderly, AdderAlone, Adding
<1>3. ASSUME \A u \in Thread \ {t} : pc'[u] = pc[u], UNCHANGED <<url, chunk>>,
             pc'[t] \in Adding \cup {"got"}
      PROVE  AdderAlone' /\ ChunksOfUrl'
    BY <1>1, <1>2, <1>3 DEF Orderly, AdderAlone, ChunksOfUrl, Adding, Fetching
<1>4. CASE NewList(t)
  <2>1. /\ \A u \in Thread \ {t} : pc'[u] = pc[u]
        /\ UNCHANGED <<url, chunk, look>>
        /\ pc'[t] = "clearcached" /\ clist' = t /\ cached'[t] \in {NULL, Wild}
    BY <1>1, <1>4 DEF NewList, Goto, TypeOK
  <2>2. QED
    BY <1>2, <1>3, <2>1 DEF Orderly, LooksAtHead, HeadFilled, HeadIsLast, Adding, Fetching
<1>5. CASE ClearCached(t)
  <2>1. /\ \A u \in Thread \ {t} : pc'[u] = pc[u]
        /\ UNCHANGED <<clist, next, url, chunk, look>>
        /\ pc[t] = "clearcached" /\ pc'[t] = "clearnext" /\ cached'[clist] = NULL
    BY <1>1, <1>5 DEF ClearCached, At, Goto, TypeOK, ListStays
  <2>2. QED
    BY <1>1, <1>2, <1>3, <2>1
       DEF Orderly, LooksAtHead, HeadFilled, HeadIsLast, Adding, Fetching
<1>6. CASE ClearNext(t)
  <2>1. /\ \A u \in Thread \ {t} : pc'[u] = pc[u]
        /\ UNCHANGED <<clist, cached, url, chunk, look>>
        /\ pc[t] = "clearnext" /\ pc'[t] = "tail" /\ next'[clist] = NULL
    BY <1>1, <1>6 DEF ClearNext, At, Goto, TypeOK, ListStays
  <2>2. QED
    BY <1>1, <1>2, <1>3, <2>1
       DEF Orderly, LooksAtHead, HeadFilled, HeadIsLast, Adding, Fetching
<1>7. CASE NewBlock(t)
  <2>1. /\ \A u \in Thread \ {t} : pc'[u] = pc[u]
        /\ UNCHANGED <<clist, next, url, chunk, look>>
        /\ pc[t] = "newblock" /\ pc'[t] = "seturl"
        /\ look[t] = clist /\ clist # NULL /\ cached'[clist] = Blank
    BY <1>1, <1>7 DEF NewBlock, At, Goto, TypeOK, Orderly, LooksAtHead
  <2>2. QED
    BY <1>1, <1>2, <1>3, <2>1
       DEF Orderly, LooksAtHead, HeadFilled, HeadIsLast, Adding, Fetching
<1>8. CASE SetUrl(t)
  <2>1. /\ pc[t] = "seturl" /\ look[t] = clist /\ clist # NULL /\ cached[clist] = Blank
    BY <1>1, <1>8 DEF SetUrl, At, Orderly, LooksAtHead, HeadFilled
  <2>2. Followed(t)
    BY <2>1, BlockFields, CacheAssumption DEF Followed, BlockOf
  <2>3. /\ \A u \in Thread \ {t} : pc'[u] = pc[u]
        /\ UNCHANGED <<clist, next, url, chunk, look>>
        /\ pc'[t] = "setbuffer" /\ cached'[clist] \in Begun(url[t], Wild)
    BY <1>1, <1>8, <2>1, <2>2 DEF SetUrl, Goto, TypeOK, Blank, Begun
  <2>4. QED
    BY <1>1, <1>2, <1>3, <2>1, <2>3
       DEF Orderly, LooksAtHead, HeadFilled, HeadIsLast, Adding, Fetching
<1>9. CASE SetBuffer(t)
  <2>1. /\ pc[t] = "setbuffer" /\ look[t] = clist /\ clist # NULL
        /\ cached[clist] \in Begun(url[t], Wild)
        /\ url[t] \in Url
    BY <1>1, <1>9 DEF SetBuffer, At, Orderly, LooksAtHead, HeadFilled, TypeOK
  <2>2. Followed(t)
    BY <2>1, CacheAssumption DEF Followed, BlockOf, Block, Begun
  <2>3. /\ \A u \in Thread \ {t} : pc'[u] = pc[u]
        /\ UNCHANGED <<clist, next, url, chunk, look>>
        /\ pc'[t] = "setdata"
        /\ cached'[clist] \in Begun(url[t], "malloced")
    BY <1>1, <1>9, <2>1, <2>2 DEF SetBuffer, Goto, TypeOK, Begun
  <2>4. QED
    BY <1>1, <1>2, <1>3, <2>1, <2>3
       DEF Orderly, LooksAtHead, HeadFilled, HeadIsLast, Adding, Fetching
<1>10. CASE SetData(t)
  <2>1. /\ pc[t] = "setdata" /\ look[t] = clist /\ clist # NULL
        /\ cached[clist] \in Begun(url[t], "malloced")
        /\ url[t] \in Url
    BY <1>1, <1>10 DEF SetData, At, Orderly, LooksAtHead, HeadFilled, TypeOK
  <2>2. cached[clist] \in Block
    BY <2>1 DEF Block, Begun
  <2>3. Followed(t) /\ BlockOf(t).buffer # Wild
    BY <2>1, <2>2, CacheAssumption DEF Followed, BlockOf, Begun
  <2>4. CASE chunk[t] # NULL
    <3>1. chunk[t] \in Doc /\ chunk[t].of = url[t]
      BY <1>1, <2>4 DEF TypeOK, Orderly, ChunksOfUrl
    <3>2. /\ \A u \in Thread \ {t} : pc'[u] = pc[u]
          /\ UNCHANGED <<clist, next, url, chunk, look>>
          /\ pc'[t] = "got"
          /\ \E name \in {url[t], NULL}, copy \in {chunk[t], NULL} :
                cached'[clist] = [url |-> name, buffer |-> "malloced", data |-> copy]
      BY <1>1, <1>10, <2>1, <2>3, <2>4 DEF SetData, Goto, TypeOK, Begun
    <3>3. cached'[clist] \in Complete
      BY <2>1, <3>1, <3>2, CacheAssumption DEF Complete, Block
    <3>4. QED
      BY <1>1, <1>2, <1>3, <2>1, <3>2, <3>3
         DEF Orderly, LooksAtHead, HeadFilled, HeadIsLast, Adding, Fetching
  <2>5. CASE chunk[t] = NULL
    <3>1. /\ \A u \in Thread \ {t} : pc'[u] = pc[u]
          /\ UNCHANGED <<clist, cached, next, url, chunk, look>>
          /\ pc'[t] = "dead"
      BY <1>1, <1>10, <2>5 DEF SetData, Crash, Goto, TypeOK
    <3>2. QED
      BY <1>1, <1>2, <2>1, <2>5, <3>1
         DEF Orderly, AdderAlone, ChunksOfUrl, LooksAtHead, HeadFilled, HeadIsLast, Adding,
             Fetching
  <2>6. QED
    BY <2>4, <2>5
<1>11. QED
    BY <1>4, <1>5, <1>6, <1>7, <1>8, <1>9, <1>10

LEMMA OrderKept ==
    ASSUME TypesAndList, overlap \/ Orderly, [Next]_vars PROVE overlap' \/ Orderly'
<1> SUFFICES ASSUME ~overlap' PROVE Orderly'
    OBVIOUS
<1>1. TypesAndList'
    BY TypesKept
<1>2. CASE UNCHANGED vars
    BY <1>2 DEF vars, Orderly, AdderAlone, ChunksOfUrl, LooksAtHead, HeadFilled, HeadIsLast
<1>3. CASE Next
  <2>1. PICK t \in Thread :
            Step(t) \/ Transfer(t) \/ NoMemory(t) \/ \E u \in Url : Call(t, u)
    BY <1>3 DEF Next
  <2>2. ~overlap
    BY <2>1 DEF Step, FetchStart, MatchHit, MatchMiss, MatchCrash, CopyData, Transfer,
                AddStart, NewList, ClearCached, ClearNext, FindTail, NewBlock, SetUrl,
                SetBuffer, SetData, Return, Call, Crash, NoMemory
  <2>3. Sound /\ TypeOK'
    BY <1>1, <2>2 DEF Sound, TypesAndList
  <2>4. ASSUME MatchCrash(t) PROVE pc'[t] = "dead"
    BY <2>3, <2>4 DEF MatchCrash, Crash, Goto, Sound, TypeOK
  <2>5. QED
    BY <2>1, <2>3, <2>4, ReadersKeepOrder, ReaderDies, CopyKeepsOrder, NoMemoryKeepsOrder,
       AdderKeepsOrder DEF Step
<1>4. QED
    BY <1>2, <1>3

(* The inductive invariant: the types, the list once made, and, until two   *)
(* uses of the cache meet, the order in it.                                 *)
THEOREM CacheInvHolds == Spec => []CacheInv
<1>1. Init => CacheInv
    BY TypesAtFirst, OrderAtFirst DEF TypesAndList, CacheInv
<1>2. CacheInv /\ [Next]_vars => CacheInv'
    BY TypesKept, OrderKept DEF TypesAndList, CacheInv
<1>3. QED
    BY <1>1, <1>2, PTL DEF Spec

(* Until two uses of the cache meet, what download() returns is a document  *)
(* of the URL it was asked for.                                             *)
THEOREM ChunkIsOfUrlHolds == Spec => []ChunkIsOfUrl
<1>1. CacheInv => ChunkIsOfUrl
    BY DEF CacheInv, ChunkIsOfUrl, Orderly, ChunksOfUrl, TypeOK
<1>2. QED
    BY <1>1, CacheInvHolds, PTL

(* Until then, the driver dies where a malloc failed, of a URL or of bytes  *)
(* that a failing strdup left null in the entry, or of an empty transfer at *)
(* the strdup of cache_add; not of a pointer of the cache that is not set.  *)
THEOREM DeathIsExplainedHolds == Spec => []DeathIsExplained
<1>1. CacheInv => DeathIsExplained
  <2> SUFFICES ASSUME CacheInv, ~overlap, NEW t \in Thread, pc[t] = "dead"
               PROVE  /\ chunk[t] = NULL /\ look[t] # NULL /\ Followed(t)
                      /\ \/ BlockOf(t) = [url |-> url[t], buffer |-> "malloced", data |-> Wild]
                         \/ NULL \in {BlockOf(t).url, BlockOf(t).data}
    BY DEF DeathIsExplained
  <2>1. chunk[t] = NULL /\ look[t] = clist /\ clist # NULL
    BY DEF CacheInv, Orderly, ChunksOfUrl, LooksAtHead
  <2>2. CASE cached[clist] \in Begun(url[t], "malloced")
    <3>1. cached[clist] \in Block
      BY <2>1, <2>2 DEF CacheInv, TypeOK, Begun, Block
    <3>2. QED
      BY <2>1, <2>2, <3>1, CacheAssumption DEF Begun, BlockOf, Followed
  <2>3. CASE cached[clist] \in Complete /\ NULL \in {cached[clist].url, cached[clist].data}
    BY <2>1, <2>3, CompleteFields DEF BlockOf, Followed
  <2>4. QED
    BY <2>2, <2>3 DEF CacheInv, Orderly, HeadFilled
<1>2. QED
    BY <1>1, CacheInvHolds, PTL

-----------------------------------------------------------------------------
(* The cache of one entry.                                                  *)

\* the entry the block of the head stands for
Shown == IF clist = NULL THEN NULL
         ELSE IF cached[clist] \in {NULL, Wild} THEN NULL
         ELSE IF NULL \in {cached[clist].url, cached[clist].data} THEN NULL
         ELSE [url |-> cached[clist].url, doc |-> cached[clist].data]

\* the entry a thread is filling in
Made(t) == IF chunk[t] = NULL THEN NULL ELSE [url |-> url[t], doc |-> chunk[t]]

\* what Entry comes to: at most one thread fills it in, so that CHOOSE has no choice
EntryIsClear ==
    Alive => /\ Filling = {} => Entry = Shown
             /\ \A t \in Filling : Entry = Made(t)

LEMMA EntryIs == AdderAlone => EntryIsClear
<1>1. Alive /\ Filling = {} => Entry = Shown
    BY DEF Entry, Shown
<1>2. ASSUME AdderAlone, Alive, NEW t \in Filling PROVE Entry = Made(t)
  <2>1. \A u \in Filling : u = t
    BY <1>2 DEF AdderAlone, Filling, Adding
  <2>2. (CHOOSE u \in Filling : TRUE) = t
    BY <2>1
  <2>3. Filling # {}
    OBVIOUS
  <2>4. QED
    BY <1>2, <2>2, <2>3 DEF Entry, Made
<1>3. QED
    BY <1>1, <1>2 DEF EntryIsClear

(* The end of the process is the loss of the entry.                         *)
LEMMA EndLoses ==
    ASSUME NEW t \in Thread, pc'[t] \in {"nomemory", "dead"}, UNCHANGED <<url, chunk>>
    PROVE  Page!PageNext
<1>1. ~Alive'
    BY DEF Alive
<1>2. Entry' = NULL
    BY <1>1 DEF Entry
<1>3. QED
    BY <1>2 DEF Page!Lose, Page!PageNext

(* Only what a thread with the entry in hand does can change the entry.     *)
LEMMA EntryKept ==
    ASSUME Alive' <=> Alive, Filling' = Filling, UNCHANGED <<clist, cached>>,
           \A t \in Filling : chunk'[t] = chunk[t] /\ url'[t] = url[t]
    PROVE  Entry' = Entry
<1>1. CASE ~Alive \/ Filling = {}
    BY <1>1 DEF Entry
<1>2. CASE Alive /\ Filling # {}
  <2> DEFINE t == CHOOSE u \in Filling : TRUE
  <2>1. t \in Filling /\ t = CHOOSE u \in Filling' : TRUE
    BY <1>2
  <2> HIDE DEF t
  <2>2. Entry = Made(t)
    BY <1>2 DEF Entry, Made, t
  <2>3. Entry' = (IF chunk'[t] = NULL THEN NULL ELSE [url |-> url'[t], doc |-> chunk'[t]])
    BY <1>2, <2>1 DEF Entry
  <2>4. QED
    BY <2>1, <2>2, <2>3 DEF Made
<1>3. QED
    BY <1>1, <1>2

Stutter == UNCHANGED <<Entry, url, chunk>>

(* Steps of a thread that has no entry in hand, before or after.            *)
LEMMA ReadersRefine ==
    ASSUME TypeOK, NEW t \in Thread,
           \/ FetchStart(t) \/ MatchHit(t) \/ MatchMiss(t) \/ Transfer(t) \/ Return(t)
           \/ AddStart(t) \/ FindTail(t) \/ ClearNext(t)
           \/ \E u \in Url : Call(t, u)
    PROVE  Page!PageNext \/ Stutter \/ pc'[t] = "dead"
<1> SUFFICES ASSUME pc'[t] # "dead" PROVE Page!PageNext \/ Stutter
    OBVIOUS
<1>1. /\ \A u \in Thread \ {t} : /\ pc'[u] = pc[u] /\ look'[u] = look[u]
                                  /\ chunk'[u] = chunk[u] /\ url'[u] = url[u]
      /\ UNCHANGED <<clist, cached>>
      /\ pc[t] \notin {"seturl", "setbuffer", "setdata"}
      /\ pc'[t] \notin {"seturl", "setbuffer", "setdata", "nomemory", "dead"}
      /\ Alive
    BY DEF FetchStart, MatchHit, MatchMiss, Transfer, Return, AddStart, FindTail, ClearNext,
           Call, Crash, At, Goto, TypeOK
<1>2. Filling' = Filling /\ t \notin Filling /\ Alive'
    BY <1>1 DEF Filling, Alive
<1>3. Entry' = Entry
    BY <1>1, <1>2, EntryKept DEF Filling
<1>4. CASE Transfer(t)
  <2>1. \A r \in Rev : [of |-> url[t], rev |-> r] \in Doc
    BY <1>4 DEF Transfer, At, TypeOK, Doc
  <2>2. PICK doc \in Doc \cup {NULL} : chunk' = [chunk EXCEPT ![t] = doc]
    BY <1>4, <2>1 DEF Transfer
  <2>3. Page!Receive(t, doc)
    BY <1>3, <1>4, <2>2 DEF Page!Receive, Transfer
  <2>4. QED
    BY <2>2, <2>3 DEF Page!PageNext
<1>5. CASE Return(t)
    BY <1>3, <1>5 DEF Return, Page!PageNext, Page!Forget
<1>6. ASSUME NEW u \in Url, Call(t, u) PROVE Page!PageNext
    BY <1>3, <1>6 DEF Call, Page!PageNext, Page!Ask
<1>7. CASE \/ FetchStart(t) \/ MatchHit(t) \/ MatchMiss(t) \/ AddStart(t) \/ FindTail(t)
           \/ ClearNext(t)
    BY <1>3, <1>7 DEF FetchStart, MatchHit, MatchMiss, AddStart, FindTail, ClearNext, Crash,
                      Stutter
<1>8. QED
    BY <1>4, <1>5, <1>6, <1>7

(* A copy is a hit of the entry shown, if there is memory for it.           *)
LEMMA CopyRefines ==
    ASSUME Sound, NEW t \in Thread, CopyData(t) PROVE Page!PageNext \/ Stutter
<1>1. /\ TypeOK /\ AdderAlone
      /\ pc[t] = "copy" /\ Alive
    BY DEF Sound, Orderly, CopyData, At
<1>2. /\ cached[look[t]] \in Complete /\ cached[look[t]].url = url[t]
      /\ url[t] \in Url /\ Followed(t)
    BY <1>1, CopiesWhole
<1>3. clist # NULL /\ look[t] = clist
    BY <1>1 DEF Sound, Orderly, LooksAtHead, Fetching
<1>4. Filling = {}
    BY <1>1 DEF AdderAlone, Filling, Adding, Fetching
<1>5. CASE Crash(t)
    BY <1>1, <1>5, EndLoses DEF Crash, Goto, TypeOK
<1>6. CASE ~Crash(t)
  <2>1. cached[clist].data \notin {NULL, Wild} /\ url[t] # NULL
    BY <1>2, <1>3, <1>6, CacheAssumption DEF CopyData, BlockOf
  <2>2. PICK bytes \in {cached[clist].data, NULL} : chunk' = [chunk EXCEPT ![t] = bytes]
    BY <1>3, <1>6 DEF CopyData, BlockOf
  <2>3. /\ pc' = [pc EXCEPT ![t] = "got"]
        /\ UNCHANGED <<clist, cached, url, look>>
    BY <1>6 DEF CopyData, Goto
  <2>4. Filling' = {} /\ Alive'
    BY <1>1, <1>4, <2>3 DEF Filling, TypeOK, Alive
  <2>5. Entry' = Entry
    BY <1>1, <1>4, <2>3, <2>4, EntryKept
  <2>6. CASE bytes = NULL
    <3>1. chunk[t] = NULL
      BY <1>1 DEF Sound, Orderly, ChunksOfUrl, Fetching
    <3>2. chunk' = chunk
      BY <1>1, <2>2, <2>6, <3>1 DEF TypeOK
    <3>3. QED
      BY <2>3, <2>5, <3>2 DEF Stutter
  <2>7. CASE bytes = cached[clist].data
    <3>1. Entry = [url |-> url[t], doc |-> cached[clist].data]
      BY <1>1, <1>2, <1>3, <1>4, <2>1, EntryIs DEF EntryIsClear, Shown, Followed, BlockOf
    <3>2. Page!Cached(url[t])
      BY <1>2, <3>1, CacheAssumption, CompleteFields, <1>3, <2>1 DEF Page!Cached
    <3>3. Page!Hit(t)
      BY <2>2, <2>3, <2>5, <2>7, <3>1, <3>2 DEF Page!Hit
    <3>4. QED
      BY <3>3 DEF Page!PageNext
  <2>8. QED
    BY <2>2, <2>6, <2>7
<1>7. QED
    BY <1>5, <1>6

(* cache_add stores when the block of the entry is replaced; the steps that *)
(* make the list and fill the block in change nothing that can be seen.     *)
LEMMA AdderRefines ==
    ASSUME Sound, TypeOK', EntryIsClear', NEW t \in Thread,
           \/ NewList(t) \/ ClearCached(t) \/ NewBlock(t)
           \/ SetUrl(t) \/ SetBuffer(t) \/ SetData(t)
    PROVE  Page!PageNext \/ Stutter
<1> SUFFICES ASSUME Alive' PROVE Page!PageNext \/ Stutter
  <2>1. CASE ~Alive'
    <3>1. UNCHANGED <<url, chunk>>
      BY DEF NewList, ClearCached, NewBlock, SetUrl, SetBuffer, SetData, Crash
    <3>2. Entry' = NULL
      BY <2>1 DEF Entry
    <3>3. QED
      BY <3>1, <3>2 DEF Page!Lose, Page!PageNext
  <2>2. QED
    BY <2>1
<1>1. /\ TypeOK /\ AdderAlone /\ Orderly /\ Alive
      /\ Filling = {} => Entry = Shown
      /\ \A u \in Filling : Entry = Made(u)
      /\ Filling' = {} => Entry' = Shown'
      /\ \A u \in Filling' :
            Entry' = (IF chunk'[u] = NULL THEN NULL ELSE [url |-> url'[u], doc |-> chunk'[u]])
  <2>1. Alive
    BY DEF NewList, ClearCached, NewBlock, SetUrl, SetBuffer, SetData, At
  <2>2. QED
    BY <2>1, EntryIs DEF Sound, Orderly, EntryIsClear, Made
<1>2. /\ pc[t] \in Adding /\ UNCHANGED <<url, chunk, look>>
      /\ \A u \in Thread \ {t} : pc[u] \notin Adding \cup Fetching
    BY <1>1 DEF NewList, ClearCached, NewBlock, SetUrl, SetBuffer, SetData, At, Crash,
                AdderAlone, Adding
<1>3. CASE NewList(t) \/ ClearCached(t)
  <2>1. /\ pc[t] \in {"newlist", "clearcached"} /\ pc'[t] \in {"clearcached", "clearnext"}
        /\ \A u \in Thread \ {t} : pc'[u] = pc[u]
    BY <1>1, <1>3 DEF NewList, ClearCached, At, Goto, TypeOK
  <2>2. Filling = {} /\ Filling' = {}
    BY <1>2, <2>1 DEF Filling, Adding
  <2>3. Shown = NULL
    BY <1>1, <1>3, CacheAssumption
       DEF NewList, ClearCached, At, Shown, Orderly, LooksAtHead, HeadFilled
  <2>4. Shown' = NULL
    BY <1>1, <1>3, CacheAssumption DEF NewList, ClearCached, Shown, TypeOK
  <2>5. QED
    BY <1>1, <1>2, <2>2, <2>3, <2>4 DEF Stutter
<1>4. CASE NewBlock(t)
  <2>1. pc'[t] = "seturl" /\ look'[t] # NULL
    BY <1>1, <1>4 DEF NewBlock, At, Goto, TypeOK, Orderly, LooksAtHead
  <2>2. t \in Filling'
    BY <2>1 DEF Filling
  <2>3. Page!Store(t)
    BY <1>1, <1>2, <2>2 DEF Page!Store
  <2>4. QED
    BY <2>3 DEF Page!PageNext
<1>5. CASE SetUrl(t) \/ SetBuffer(t) \/ SetData(t)
  <2>1. /\ t \in Filling /\ look[t] = clist /\ clist # NULL /\ UNCHANGED clist
        /\ pc'[t] \in {"setbuffer", "setdata", "got"}
        /\ \A u \in Thread \ {t} : pc'[u] = pc[u]
    BY <1>1, <1>5 DEF SetUrl, SetBuffer, SetData, Crash, At, Goto, TypeOK, Filling, Orderly,
                      LooksAtHead, Alive
  <2>2. CASE pc'[t] # "got"
    <3>1. t \in Filling'
      BY <1>2, <2>1, <2>2 DEF Filling
    <3>2. QED
      BY <1>1, <1>2, <2>1, <3>1 DEF Made, Stutter
  <2>3. CASE pc'[t] = "got"
    <3>1. SetData(t) /\ ~Crash(t) /\ chunk[t] # NULL
      BY <1>1, <1>5, <2>3 DEF SetUrl, SetBuffer, SetData, Crash, Goto, TypeOK
    <3>2. cached[clist] \in Begun(url[t], "malloced")
      BY <1>1, <3>1 DEF SetData, At, Orderly, HeadFilled
    <3>3. PICK name \in {url[t], NULL}, copy \in {chunk[t], NULL} :
              cached'[clist] = [url |-> name, buffer |-> "malloced", data |-> copy]
      BY <1>1, <2>1, <3>1, <3>2 DEF SetData, TypeOK, Begun
    <3>4. cached'[clist] \in Block
      BY <1>1, <3>1, <3>3 DEF SetData, At, TypeOK, Block
    <3>5. Filling' = {}
      BY <1>2, <2>1, <2>3 DEF Filling, Adding
    <3>6. Shown' = [url |-> url[t], doc |-> chunk[t]] \/ Shown' = NULL
      BY <2>1, <3>3, <3>4, CacheAssumption DEF Shown
    <3>7. QED
      BY <1>1, <1>2, <2>1, <3>1, <3>5, <3>6 DEF Made, Stutter, Page!Lose, Page!PageNext
  <2>4. QED
    BY <2>2, <2>3
<1>6. QED
    BY <1>3, <1>4, <1>5

LEMMA EveryStepRefines ==
    CacheInv /\ CacheInv' /\ [Next]_vars => [~overlap' => Page!PageNext]_(Page!pageVars)
<1>1. AdderAlone' => EntryIsClear'
    BY EntryIs, PTL
<1> SUFFICES ASSUME CacheInv, CacheInv', [Next]_vars, ~overlap'
             PROVE  Page!PageNext \/ UNCHANGED Page!pageVars
    OBVIOUS
<1>2. Stutter => UNCHANGED Page!pageVars
    BY DEF Stutter, Page!pageVars
<1>3. CASE UNCHANGED vars
  <2>1. Stutter
    BY <1>3 DEF vars, Stutter, Entry, Filling, Alive
  <2>2. QED
    BY <1>2, <2>1
<1>4. CASE Next
  <2>1. PICK t \in Thread :
            Step(t) \/ Transfer(t) \/ NoMemory(t) \/ \E u \in Url : Call(t, u)
    BY <1>4 DEF Next
  <2>2. ~overlap
    BY <2>1 DEF Step, FetchStart, MatchHit, MatchMiss, MatchCrash, CopyData, Transfer,
                AddStart, NewList, ClearCached, ClearNext, FindTail, NewBlock, SetUrl,
                SetBuffer, SetData, Return, Call, Crash, NoMemory
  <2>3. Sound /\ TypeOK' /\ AdderAlone' /\ Orderly'
    BY <2>2 DEF Sound, CacheInv, Orderly
  <2>4. CASE MatchCrash(t) \/ NoMemory(t)
    BY <2>3, <2>4, EndLoses DEF MatchCrash, Crash, NoMemory, Goto, Sound, TypeOK
  <2>5. CASE CopyData(t)
    BY <1>2, <2>3, <2>5, CopyRefines
  <2>6. CASE \/ NewList(t) \/ ClearCached(t) \/ NewBlock(t)
             \/ SetUrl(t) \/ SetBuffer(t) \/ SetData(t)
    BY <1>1, <1>2, <2>3, <2>6, AdderRefines
  <2>7. CASE \/ FetchStart(t) \/ MatchHit(t) \/ MatchMiss(t) \/ Transfer(t) \/ Return(t)
             \/ AddStart(t) \/ FindTail(t) \/ ClearNext(t)
             \/ \E u \in Url : Call(t, u)
    <3>1. pc'[t] # "dead"
      <4>1. ASSUME FindTail(t) PROVE next[clist] = NULL
        BY <2>3, <4>1 DEF Sound, FindTail, At, Orderly, HeadIsLast, AdderAlone, ListStays,
                          Adding
      <4>2. QED
        BY <2>3, <2>7, <4>1
           DEF Sound, FetchStart, MatchHit, MatchMiss, Transfer, Return, AddStart, FindTail,
               ClearNext, Call, Goto, TypeOK
    <3>2. QED
      BY <1>2, <2>3, <2>7, <3>1, ReadersRefine DEF Sound
  <2>8. QED
    BY <2>1, <2>4, <2>5, <2>6, <2>7 DEF Step
<1>5. QED
    BY <1>3, <1>4

(* Until two uses of the cache meet, cache.c, with its list, its blocks and  *)
(* the many steps of cache_add and cache_fetch, is a cache of one entry.     *)
THEOREM CacheIsOnePage == Spec => IsOnePageCache
<1>1. Init => Page!NoPages
    BY DEF Init, Page!NoPages, Entry, Filling
<1>2. CacheInv /\ CacheInv' /\ [Next]_vars =>
          [~overlap' => Page!PageNext]_(Page!pageVars)
    BY EveryStepRefines
<1>3. QED
    BY <1>1, <1>2, CacheInvHolds, PTL DEF Spec, IsOnePageCache
=============================================================================
