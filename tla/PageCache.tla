----------------------------- MODULE PageCache -------------------------------
(***************************************************************************)
(* What the cache of the FUSE driver amounts to as long as no two threads  *)
(* are in it at once: one entry, the document stored last, under its URL.  *)
(* (cache.c walks a list, but never gives it a second node.)               *)
(***************************************************************************)
CONSTANTS Thread, Url, Doc, NULL

VARIABLES
    entry,    \* the one entry, or NULL
    url,      \* what each thread is looking for
    chunk     \* what it has in hand

pageVars == <<entry, url, chunk>>

NoPages ==
    /\ entry = NULL
    /\ url = [t \in Thread |-> NULL]
    /\ chunk = [t \in Thread |-> NULL]

Cached(u) == IF entry = NULL THEN FALSE ELSE entry.url = u

Ask(t, u) ==
    /\ url' = [url EXCEPT ![t] = u]
    /\ UNCHANGED <<entry, chunk>>

Hit(t) ==
    /\ Cached(url[t])
    /\ chunk' = [chunk EXCEPT ![t] = entry.doc]
    /\ UNCHANGED <<entry, url>>

(* curl_easy_perform ends; not a byte need have arrived (NULL).            *)
Receive(t, doc) ==
    /\ chunk' = [chunk EXCEPT ![t] = doc]
    /\ UNCHANGED <<entry, url>>

(* The old entry is dropped first: without bytes there is none.            *)
Store(t) ==
    /\ entry' = IF chunk[t] = NULL THEN NULL ELSE [url |-> url[t], doc |-> chunk[t]]
    /\ UNCHANGED <<url, chunk>>

(* There was no memory to keep the entry, or its process is gone.          *)
Lose ==
    /\ entry' = NULL
    /\ UNCHANGED <<url, chunk>>

Forget(t) ==
    /\ url' = [url EXCEPT ![t] = NULL]
    /\ chunk' = [chunk EXCEPT ![t] = NULL]
    /\ UNCHANGED entry

PageNext ==
    Lose \/ \E t \in Thread :
        \/ \E u \in Url : Ask(t, u)
        \/ \E doc \in Doc \cup {NULL} : Receive(t, doc)
        \/ Hit(t) \/ Store(t) \/ Forget(t)
=============================================================================
