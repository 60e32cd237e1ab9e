------------------------------- MODULE GridFs --------------------------------
(***************************************************************************)
(* The operations of the FUSE driver, src/src/fuse-driver/, over download()*)
(* and upload() of curl-getinmemory.c, together with the server whose tree *)
(* they show and which others change too.  FUSE calls the operations from  *)
(* several threads at once.  The cache is the abstract one of PageCache.   *)
(* UrlCache shows that the code keeps to it until cache_add meets another  *)
(* use of the cache; here the driver is followed up to there ("overlap").  *)
(*                                                                         *)
(* A document the server sends is described by where and when it was made: *)
(* [of, at, whole] is the document of the URL of, from version at of the   *)
(* server's tree, whole or not (cut off, or with bytes a realloc lost).    *)
(***************************************************************************)
EXTENDS PageCache, Integers, Sequences

CONSTANTS
    Root,         \* "/"
    Base,         \* the URL of "/" without the final slash
    Entry,        \* what may exist below the root
    Dir,          \* the entries that are directories
    Parent,       \* the directory of each entry
    Name,         \* its name there
    MaxChanges    \* bound: how often the server's tree changes

ASSUME GridAssumption ==
    /\ Dir \subseteq Entry
    /\ Root \notin Entry /\ Base \notin Entry \cup {Root}
    /\ Parent \in [Entry -> Dir \cup {Root}]
    /\ \A e, f \in Entry : Parent[e] = Parent[f] /\ Name[e] = Name[f] => e = f
    /\ MaxChanges \in Nat
    /\ Url = Dir \cup {Root, Base}
    /\ Doc = [of : Url, at : 1..(MaxChanges + 1), whole : BOOLEAN]
    /\ NULL \notin Url \cup Doc

VARIABLES
    log,        \* the trees the server has had, the last one being the present one
    pc,         \* where each FUSE thread is
    op,         \* the operation it is in
    path,       \* its argument
    answer,     \* history: what the call that returned last was asked and answered,
                \* until another begins
    together,   \* history: a call was made while another was in progress
    seen,       \* history: until then, the newest version of the tree a call has looked at
    overlap     \* history: cache_add ran while another thread was in the cache

history == <<answer, seen, together, overlap>>
vars    == <<pageVars, log, pc, op, path, history>>

\* an answer: a listing of a path, or its type; or one that says nothing of the tree
Listed(p, names) == [path |-> p, kind |-> "list", names |-> names]
Typed(p, type)   == [path |-> p, kind |-> type, names |-> {}]
Plain(kind)      == [path |-> Root, kind |-> kind, names |-> {}]
Answer == [path : Entry \cup {Root}, kind : {"none", "list", "dir", "file", "ok", "error"},
           names : SUBSET Entry]

Now == Len(log)

Exists(d, tree) == d = Root \/ d \in tree

Listing(d, tree) == {e \in tree : Parent[e] = d}

\* the directory a URL names
Place(u) == IF u = Base THEN Root ELSE u

Closed(tree) == \A e \in tree : Exists(Parent[e], tree)

TypeOK ==
    /\ entry \in [url : Url \cup {NULL}, doc : Doc \cup {NULL}] \cup {NULL}
    /\ url \in [Thread -> Url \cup {NULL}]
    /\ chunk \in [Thread -> Doc \cup {NULL}]
    /\ log \in Seq({tree \in SUBSET Entry : Closed(tree)})
    /\ pc \in [Thread -> {"idle", "fetch", "walk", "request", "add", "adding", "got",
                         "put", "dead"}]
    /\ op \in [Thread -> {"none", "getattr", "readdir", "mkdir", "create", "read"}]
    /\ path \in [Thread -> Entry \cup {Root}]
    /\ answer \in Answer
    /\ seen \in 0..Now
    /\ together \in BOOLEAN
    /\ overlap \in BOOLEAN
    /\ \A t \in Thread : pc[t] = "got" => chunk[t] # NULL

Init ==
    /\ NoPages
    /\ \E tree \in SUBSET Entry : Closed(tree) /\ log = <<tree>>
    /\ pc = [t \in Thread |-> "idle"]
    /\ op = [t \in Thread |-> "none"]
    /\ path = [t \in Thread |-> Root]
    /\ answer = Plain("none")
    /\ seen = 0
    /\ together = FALSE
    /\ overlap = FALSE

-----------------------------------------------------------------------------
(* The server.                                                             *)

(* Others create and remove entries.                                       *)
Outside ==
    /\ Now <= MaxChanges
    /\ ~overlap /\ \E t \in Thread : pc[t] # "dead"
    /\ \E e \in Entry :
         LET tree == IF e \in log[Now] THEN log[Now] \ {e} ELSE log[Now] \cup {e}
         IN Closed(tree) /\ log' = Append(log, tree)
    /\ UNCHANGED <<pageVars, pc, op, path, history>>

-----------------------------------------------------------------------------
(* Operations that look.                                                   *)

Alive == \A t \in Thread : pc[t] # "dead"

At(t, p) == Alive /\ ~overlap /\ pc[t] = p

Goto(t, p) == pc' = [pc EXCEPT ![t] = p]

Begin(t, o, p) ==
    /\ At(t, "idle")
    /\ op' = [op EXCEPT ![t] = o]
    /\ path' = [path EXCEPT ![t] = p]
    /\ answer' = Plain("none")
    /\ together' = (together \/ \E u \in Thread \ {t} : pc[u] # "idle")
    /\ seen' = IF together' THEN 0 ELSE seen
    /\ UNCHANGED <<log, overlap>>

Return(t, a) ==
    /\ answer' = a
    /\ op' = [op EXCEPT ![t] = "none"]
    /\ path' = [path EXCEPT ![t] = Root]
    /\ Goto(t, "idle")
    /\ UNCHANGED <<seen, together, overlap>>

(* grid_getattr of an entry fetches the listing of its directory; that of  *)
(* the root, which is answered at once, changes nothing.                   *)
Getattr(t, e) ==
    /\ Begin(t, "getattr", e)
    /\ Ask(t, IF Parent[e] = Root THEN Base ELSE Parent[e])
    /\ Goto(t, "fetch")

Readdir(t, d) ==
    /\ Begin(t, "readdir", d)
    /\ Ask(t, d)
    /\ Goto(t, "fetch")

\* the caller will look at a document
Look(doc) ==
    /\ seen' = IF ~together /\ doc.at > seen THEN doc.at ELSE seen
    /\ UNCHANGED <<answer, together, overlap>>

Others(t, places) == \E u \in Thread \ {t} : pc[u] \in places

(* download() enters cache_fetch, which walks and copies without a lock.   *)
FetchStart(t) ==
    /\ At(t, "fetch")
    /\ Goto(t, "walk")
    /\ overlap' = Others(t, {"adding"})
    /\ UNCHANGED <<pageVars, log, op, path, answer, seen, together>>

(* A URL that is in the cache is not transferred, however old the entry.   *)
FetchCached(t) ==
    /\ At(t, "walk")
    /\ Hit(t) /\ entry.doc # NULL
    /\ Look(entry.doc)
    /\ Goto(t, "got")
    /\ UNCHANGED <<log, op, path>>

\* Mutant of FetchMisses: the walk does not get past the entry of another URL.
FetchMissesEmpty(t) ==
    /\ At(t, "walk")
    /\ entry = NULL
    /\ Goto(t, "request")
    /\ UNCHANGED <<pageVars, log, op, path, history>>

Misses(u) == IF entry = NULL THEN TRUE ELSE entry.url \notin {u, NULL}

FetchMisses(t) ==
    /\ At(t, "walk")
    /\ Misses(url[t])
    /\ Goto(t, "request")
    /\ UNCHANGED <<pageVars, log, op, path, history>>

(* The driver ends, with all its threads and what they had.                *)
Die ==
    /\ pc' = [t \in Thread |-> "dead"]
    /\ op' = [t \in Thread |-> "none"]
    /\ path' = [t \in Thread |-> Root]
    /\ entry' = NULL
    /\ url' = [t \in Thread |-> NULL] /\ chunk' = [t \in Thread |-> NULL]
    /\ UNCHANGED <<log, history>>

(* An entry without its URL or without its bytes ends it when they are     *)
(* looked at.                                                              *)
FetchCrash(t) ==
    /\ At(t, "walk")
    /\ ~Misses(url[t]) /\ NULL \in {entry.url, entry.doc}
    /\ Die

(* So does a malloc that fails, which the next statement follows: of a URL *)
(* (84, 188), a chunk (102), an entry (cache.c 19, 28, 30), or of what a   *)
(* fetch copies, whose bytes the caller would follow (59, 60).             *)
NoMemory(t) ==
    /\ Alive /\ ~overlap
    /\ pc[t] \in {"fetch", "walk", "request", "adding", "put"}
    /\ Die

(* The server answers with the present tree, or the connection fails       *)
(* before or after the first byte, if the transfer ever ends: no time is   *)
(* set for it.  download() does not look at the result.                    *)
Transfer(t) ==
    /\ At(t, "request")
    /\ \/ \E whole \in BOOLEAN :
            LET doc == [of |-> url[t], at |-> Now, whole |-> whole]
            IN Receive(t, doc) /\ Look(doc)
       \/ Receive(t, NULL) /\ UNCHANGED history
    /\ Goto(t, "add")
    /\ UNCHANGED <<log, op, path>>

(* Mutant of AddStart: an entry, once made, stays, as in a list that is    *)
(* walked from its head.                                                   *)
AddKeepsOld(t) ==
    /\ At(t, "add")
    /\ IF entry = NULL THEN Store(t) ELSE UNCHANGED pageVars
    /\ Goto(t, "adding")
    /\ overlap' = Others(t, {"walk", "adding"})
    /\ UNCHANGED <<log, op, path, answer, seen, together>>

(* cache_add replaces the block of the entry and fills it in.              *)
AddStart(t) ==
    /\ At(t, "add")
    /\ Store(t)
    /\ Goto(t, "adding")
    /\ overlap' = Others(t, {"walk", "adding"})
    /\ UNCHANGED <<log, op, path, answer, seen, together>>

\* Mutant of AddEnd: a transfer without a byte is not noticed.
AddNothing(t) ==
    /\ At(t, "adding")
    /\ Goto(t, "got")
    /\ UNCHANGED <<pageVars, log, op, path, history>>

(* It duplicates the URL and the bytes, of which there may be none; that   *)
(* either strdup failed is not noticed.  (Nobody gets past a null URL to   *)
(* the bytes.)                                                             *)
AddEnd(t) ==
    /\ At(t, "adding")
    /\ IF chunk[t] = NULL THEN Die
       ELSE /\ Goto(t, "got")
            /\ entry' \in {entry, [url |-> url[t], doc |-> NULL], [url |-> NULL, doc |-> NULL]}
            /\ UNCHANGED <<url, chunk, log, op, path, history>>

\* the listing a document parses to: an error page or half a document does not parse
Parses(doc) == doc.whole /\ Exists(Place(doc.of), log[doc.at])
Names(doc)  == Listing(Place(doc.of), log[doc.at])

TypeOf(e) == IF e \in Dir THEN "dir" ELSE "file"

(* The entries that getattr of e may look for.  The name it looks for in   *)
(* e's directory is basename(path), of a path that dirname() may have cut  *)
(* off (POSIX lets it; the C library of Linux does): the name is then that *)
(* of the directory, which one of its entries may have too.                *)
Sought(e) ==
    {e} \cup {x \in Entry : /\ Parent[x] = Parent[e] /\ Parent[e] # Root
                          /\ Name[x] = Name[Parent[e]]}

(* Without memory json_loads parses nothing.                               *)
GetattrReturns(t) ==
    /\ At(t, "got") /\ op[t] = "getattr"
    /\ \/ Return(t, Plain("error"))
       \/ /\ Parses(chunk[t])
          /\ \E e \in Sought(path[t]) \cap Names(chunk[t]) : Return(t, Typed(path[t], TypeOf(e)))
    /\ Forget(t)
    /\ UNCHANGED log

(* Mutant of ReaddirReturns: an error page gives an empty listing.         *)
ReaddirLenient(t) ==
    /\ At(t, "got") /\ op[t] = "readdir"
    /\ Return(t, IF chunk[t].whole
                 THEN Listed(path[t], Names(chunk[t])) ELSE Plain("error"))
    /\ Forget(t)
    /\ UNCHANGED log

ReaddirReturns(t) ==
    /\ At(t, "got") /\ op[t] = "readdir"
    /\ \/ Return(t, Plain("error"))
       \/ /\ Parses(chunk[t])
          /\ Return(t, Listed(path[t], Names(chunk[t])))
    /\ Forget(t)
    /\ UNCHANGED log

-----------------------------------------------------------------------------
(* Operations that touch: mkdir and create, and read, which also sends a   *)
(* PUT and returns its result.                                             *)

Touch(t, o, e) ==
    /\ Begin(t, o, e)
    /\ Goto(t, "put")
    /\ UNCHANGED pageVars

Mkdir(t, e)  == Touch(t, "mkdir", e)
Create(t, e) == Touch(t, "create", e)
Read(t, e)   == Touch(t, "read", e)

(* upload(), if it ever ends: no time is set for it, and the body of the   *)
(* PUT is what the standard input gives.  0 if there was an answer,        *)
(* whatever its status, else 1; the server may have carried out the request*)
(* in either case.  The cache is not told.                                 *)
Upload(t) ==
    /\ At(t, "put")
    /\ \/ UNCHANGED log
       \/ /\ Now <= MaxChanges
          /\ path[t] \notin log[Now] /\ Exists(Parent[path[t]], log[Now])
          /\ log' = Append(log, log[Now] \cup {path[t]})
    /\ \E rc \in {"ok", "error"} : Return(t, Plain(rc))
    /\ UNCHANGED pageVars

(* grid_open: with memory for the template, the int that mkstemp returns   *)
(* is used as the name of the file, and the driver ends.                   *)
Open(t) ==
    /\ At(t, "idle")
    /\ Die

(* Without memory for the template, or for the stat of getattr: an error.  *)
Refused(t) ==
    /\ At(t, "idle")
    /\ answer' = Plain("error")
    /\ UNCHANGED <<pageVars, log, pc, op, path, seen, together, overlap>>

-----------------------------------------------------------------------------

Call(t) ==
    \/ Open(t) \/ Refused(t)
    \/ \E e \in Entry : Getattr(t, e)
    \/ \E d \in Dir \cup {Root} : Readdir(t, d)
    \/ \E e \in Dir : Mkdir(t, e)
    \/ \E e \in Entry \ Dir : Create(t, e) \/ Read(t, e)

Step(t) ==
    \/ FetchStart(t) \/ FetchCached(t) \/ FetchMisses(t) \/ FetchCrash(t)
    \/ AddStart(t) \/ AddEnd(t)
    \/ GetattrReturns(t) \/ ReaddirReturns(t)

Next ==
    \/ Outside
    \/ \E t \in Thread : Call(t) \/ Step(t) \/ Transfer(t) \/ Upload(t) \/ NoMemory(t)

Spec == Init /\ [][Next]_vars

(* Threads are scheduled; transfers in either direction need not end.      *)
FairSpec == Spec /\ \A t \in Thread : WF_vars(Step(t))

-----------------------------------------------------------------------------

(* Until cache_add meets another use of the cache, every answer was true of*)
(* the server at some time: a listing is one that very directory has had,  *)
(* whole; an entry reported to exist, and its type, are those of the path, *)
(* or of the path that dirname() made of it.  This is all the driver       *)
(* promises of the age of what it shows: nothing looks at an entry's       *)
(* ttl_end_time, and mkdir and create leave it alone.                      *)
AnswersWereTrue ==
    ~overlap =>
        /\ answer.kind \in {"dir", "file"} =>
              \E n \in 1..Now : \E e \in Sought(answer.path) :
                  e \in log[n] /\ answer.kind = TypeOf(e)
        /\ answer.kind = "list" =>
              \E n \in 1..Now : /\ Exists(answer.path, log[n])
                                /\ answer.names = Listing(answer.path, log[n])

(* As long as calls do not overlap, the driver never goes back in time:    *)
(* what a call looks at, cached or not, is no older than what any call has *)
(* looked at before, of whatever URL.  It holds because the one entry is   *)
(* the document transferred last; a cache that kept several would lose it. *)
ReadsForward ==
    ~together => \A t \in Thread : pc[t] = "got" => chunk[t].at = seen

(* Why they hold.  The versions are those of the log, and no document comes *)
(* from a version the server has not had.  What a call has in hand is of    *)
(* the URL it asked for, which for a listing is the directory's own.  And   *)
(* as long as calls do not overlap, the entry is what was looked at last,   *)
(* unless a newer document is on its way into the cache.                    *)
Looking == {"fetch", "walk", "request", "add", "adding", "got"}

DocsOfLog ==
    /\ Now \in 1..(MaxChanges + 1)
    /\ entry # NULL => entry.doc = NULL \/ entry.doc.at <= Now
    /\ \A t \in Thread : chunk[t] # NULL => chunk[t].at <= Now

DocsOfUrl ==
    /\ entry # NULL => NULL \in {entry.url, entry.doc} \/ entry.doc.of = entry.url
    /\ \A t \in Thread :
          /\ pc[t] \in Looking => url[t] # NULL
          /\ pc[t] \in Looking /\ op[t] = "readdir" => url[t] = path[t]
          /\ pc[t] \in {"add", "adding", "got"} /\ chunk[t] # NULL => chunk[t].of = url[t]
          /\ pc[t] = "put" => path[t] \in Entry

OneAtATime == \A t, u \in Thread : t # u /\ pc[t] \notin {"idle", "dead"} => pc[u] = "idle"

EntryIsLatest ==
    /\ \A t \in Thread :
          pc[t] \in {"add", "adding", "got"} /\ chunk[t] # NULL => chunk[t].at = seen
    /\ \/ entry = NULL \/ entry.doc = NULL
       \/ \E t \in Thread : pc[t] = "add"
       \/ entry.doc.at = seen

DriverInv ==
    /\ TypeOK /\ DocsOfLog /\ DocsOfUrl /\ AnswersWereTrue
    /\ ~together => OneAtATime /\ EntryIsLatest

(* Under FairSpec every call returns or comes to wait for its transfer, and*)
(* does so again after a download, unless the process died or the cache was*)
(* used twice at once.                                                     *)
Waits(t) == pc[t] \in {"idle", "request", "put"}

CallsReturn == \A t \in Thread : ~Waits(t) ~> (Waits(t) \/ ~Alive \/ overlap)
=============================================================================
