------------------------------ MODULE PostOffice -----------------------------
(***************************************************************************)
(* The mailboxes of src/src/network/net_messenger.c (lines 216-493).  The  *)
(* post office is a linked list of places for mailboxes, found by the      *)
(* owner_id of a handle; each mailbox has two queues, of which MsgQueue    *)
(* says how they work and how net_msg_queue_delete waits for itself.       *)
(*                                                                         *)
(* The list has no lock.  A thread goes from place to place in steps of    *)
(* its own and others change the list meanwhile; each function that takes  *)
(* a message first finds the mailbox and then uses it.  A place is looked  *)
(* at in one step: what another thread can do between the accesses of one  *)
(* such step counts as a race (see Races) whenever it makes a difference.  *)
(***************************************************************************)
EXTENDS Naturals, Sequences, FiniteSets

CONSTANTS
    Thread,
    Id,        \* owner_id: thread, second and microsecond multiplied, not unique
    Box,       \* addresses malloc may return for a mailbox
    Spot,      \* and for a place
    NULL,
    Wild,      \* what memory fresh from malloc holds
    MaxMsgs    \* bound: messages in one outbox

\* a message: the owner and the box it was pushed for
Letter == [to : Id, into : {"inbox", "outbox"}]

ASSUME OfficeAssumption ==
    /\ {NULL, Wild} \cap (Id \cup Box \cup Spot) = {}
    /\ NULL # Wild /\ NULL \notin Seq(Letter)
    /\ IsFiniteSet(Thread)
    /\ MaxMsgs \in Nat

VARIABLES
    central_postoffice,  \* the first place, or NULL
    spots,       \* the places allocated
    mailbox,     \* of each place: a mailbox, NULL, or Wild
    next,        \* of each place
    live,        \* the mailboxes allocated
    owner,       \* owner_id of each mailbox; NULL for the -1 of a deleted one
    outbox,      \* the messages in its outbox
    pc, op,
    meant,       \* the owner a call is about
    found,       \* the mailbox a call has made or found
    cpo,         \* the place it is at
    there,       \* history: the owner has had a mailbox since the call began
    misuse,      \* history: "twice", "pulled", "raced", "nomemory"
    most         \* history: the most mailboxes there were at once

list    == <<central_postoffice, spots, mailbox, next>>
boxes   == <<live, owner, outbox>>
locals  == <<pc, op, meant, found, cpo, there>>
history == <<misuse, most>>
vars    == <<list, boxes, locals, history>>

-----------------------------------------------------------------------------

\* of the places P with the successors N, those that a walk from p comes to:
\* they are in every set that has p and, with each of its places, the next
Reach(P, N, p) ==
    {s \in P : \A C \in SUBSET P :
        (p \in P => p \in C) /\ (\A r \in C : N[r] \in P => N[r] \in C) => s \in C}

From(p) == Reach(spots, next, p)

Places == From(central_postoffice)

Placed(id) == {s \in Places : mailbox[s] \in live /\ owner[mailbox[s]] = id}

(* Where a thread is: reading the list, adding to it, with a place others   *)
(* can see half filled in, with a place whose mailbox is gone, clearing.    *)
Reading   == {"walk"}
Extending == {"makebox", "makenext", "appendbox", "appendnext"}
Adding    == {"first", "make", "scan", "take", "last", "append"} \cup Extending
Removing  == {"unplace"}
Cleaning  == {"clean", "unlink"}

(* Two threads in the list that it cannot stand.  All else it can: threads  *)
(* that look for mailboxes, beside one that fills an empty place; one that  *)
(* adds a mailbox beside one that takes another out.                        *)
Races ==
    \E t, u \in Thread :
        /\ t # u
        /\ \/ pc[t] \in Adding /\ pc[u] \in Adding
           \/ pc[t] \in Extending \cup Removing /\ pc[u] \in Reading
           \/ /\ pc[t] \in Cleaning
              /\ pc[u] \in Reading \cup Adding \cup Removing \cup Cleaning

(* Each step notes what it did that the post office does not stand.         *)
Note(events) ==
    misuse' = misuse \cup events \cup IF Races' THEN {"raced"} ELSE {}

TypeOK ==
    /\ central_postoffice \in Spot \cup {NULL}
    /\ spots \subseteq Spot
    /\ mailbox \in [Spot -> Box \cup {NULL, Wild}]
    /\ next \in [Spot -> Spot \cup {NULL, Wild}]
    /\ live \subseteq Box
    /\ owner \in [Box -> Id \cup {NULL}]
    /\ outbox \in [Box -> Seq(Letter)]
    /\ pc \in [Thread -> {"idle", "use", "delete", "stuck", "dead"}
                         \cup Reading \cup Adding \cup Removing \cup Cleaning]
    /\ op \in [Thread -> {"none", "create", "use", "remove", "clean"}]
    /\ meant \in [Thread -> Id \cup {NULL}]
    /\ found \in [Thread -> Box \cup {NULL}]
    /\ cpo \in [Thread -> Spot \cup {NULL, Wild}]
    /\ there \in [Thread -> BOOLEAN]
    /\ misuse \subseteq {"twice", "pulled", "raced", "nomemory"}
    /\ most \in Nat

Init ==
    /\ central_postoffice = NULL
    /\ spots = {}
    /\ mailbox = [s \in Spot |-> Wild] /\ next = [s \in Spot |-> Wild]
    /\ live = {}
    /\ owner = [b \in Box |-> NULL]
    /\ outbox = [b \in Box |-> <<>>]
    /\ pc = [t \in Thread |-> "idle"]
    /\ op = [t \in Thread |-> "none"]
    /\ meant = [t \in Thread |-> NULL]
    /\ found = [t \in Thread |-> NULL]
    /\ cpo = [t \in Thread |-> NULL]
    /\ there = [t \in Thread |-> FALSE]
    /\ misuse = {}
    /\ most = 0

Alive == \A t \in Thread : pc[t] # "dead"

At(t, p) == Alive /\ pc[t] = p

Goto(t, p) == pc' = [pc EXCEPT ![t] = p]

Return(t) ==
    /\ Goto(t, "idle")
    /\ op' = [op EXCEPT ![t] = "none"]
    /\ meant' = [meant EXCEPT ![t] = NULL]
    /\ found' = [found EXCEPT ![t] = NULL]
    /\ cpo' = [cpo EXCEPT ![t] = NULL]
    /\ there' = [there EXCEPT ![t] = FALSE]

(* A step on to place s.                                                    *)
MoveTo(t, s, p) ==
    /\ Goto(t, p)
    /\ cpo' = [cpo EXCEPT ![t] = s]
    /\ UNCHANGED <<op, meant, found, there>>

Stay(t, p) == Goto(t, p) /\ UNCHANGED <<op, meant, found, cpo, there>>

-----------------------------------------------------------------------------
(* net_msg_mailbox_create and net_msg_add_mailbox_to_postoffice.            *)

Taken == {s \in spots : mailbox[s] \in Box}

(* The mailbox and its queues are made before the list is touched; without  *)
(* the memory for one of them the call has no effect.                       *)
Create(t, id, b) ==
    /\ At(t, "idle")
    /\ b \notin live
    /\ live' = live \cup {b}
    /\ owner' = [owner EXCEPT ![b] = id]
    /\ outbox' = [outbox EXCEPT ![b] = <<>>]
    /\ Goto(t, "first")
    /\ op' = [op EXCEPT ![t] = "create"]
    /\ found' = [found EXCEPT ![t] = b]
    /\ Note(IF \E c \in live : owner[c] = id THEN {"twice"} ELSE {})
    /\ LET now == Cardinality(Taken) + Cardinality({u \in Thread : pc'[u] \in Adding})
       IN most' = IF now > most THEN now ELSE most
    /\ UNCHANGED <<list, meant, cpo, there>>

(* Is there a post office?                                                  *)
First(t) ==
    /\ At(t, "first")
    /\ IF central_postoffice = NULL THEN Stay(t, "make")
       ELSE MoveTo(t, central_postoffice, "scan")
    /\ Note({})
    /\ UNCHANGED <<list, boxes, most>>

Allocate(s) ==
    /\ spots' = spots \cup {s}
    /\ mailbox' = [mailbox EXCEPT ![s] = Wild]

(* malloc of a place; its null is followed where there is no memory.        *)
Make(t) ==
    /\ At(t, "make")
    /\ \/ /\ \E s \in Spot \ spots : central_postoffice' = s /\ Allocate(s)
          /\ next' = [next EXCEPT ![central_postoffice'] = Wild]
          /\ Stay(t, "makebox") /\ Note({})
       \/ /\ central_postoffice' = NULL
          /\ Stay(t, "dead") /\ Note({"nomemory"})
          /\ UNCHANGED <<spots, mailbox, next>>
    /\ UNCHANGED <<boxes, most>>

MakeBox(t) ==
    /\ At(t, "makebox")
    /\ mailbox' = [mailbox EXCEPT ![central_postoffice] = found[t]]
    /\ Stay(t, "makenext") /\ Note({})
    /\ UNCHANGED <<central_postoffice, spots, next, boxes, most>>

MakeNext(t) ==
    /\ At(t, "makenext")
    /\ next' = [next EXCEPT ![central_postoffice] = NULL]
    /\ Return(t) /\ Note({})
    /\ UNCHANGED <<central_postoffice, spots, mailbox, boxes, most>>

\* Mutant of Scan: places that have become empty are not used again.
ScanPast(t) ==
    /\ At(t, "scan")
    /\ IF cpo[t] = NULL THEN MoveTo(t, central_postoffice, "last")
       ELSE MoveTo(t, next[cpo[t]], "scan")
    /\ Note({})
    /\ UNCHANGED <<list, boxes, most>>

\* Mutant of Scan: the first place is taken, empty or not.
ScanTakes(t) ==
    /\ At(t, "scan")
    /\ Stay(t, "take")
    /\ Note({})
    /\ UNCHANGED <<list, boxes, most>>

(* The first empty place, or else the end of the list.                      *)
Scan(t) ==
    /\ At(t, "scan")
    /\ \/ cpo[t] = NULL /\ MoveTo(t, central_postoffice, "last")
       \/ /\ cpo[t] \in spots
          /\ IF mailbox[cpo[t]] = NULL THEN Stay(t, "take")
             ELSE MoveTo(t, next[cpo[t]], "scan")
    /\ Note({})
    /\ UNCHANGED <<list, boxes, most>>

Take(t) ==
    /\ At(t, "take")
    /\ mailbox' = [mailbox EXCEPT ![cpo[t]] = found[t]]
    /\ Return(t) /\ Note({})
    /\ UNCHANGED <<central_postoffice, spots, next, boxes, most>>

Last(t) ==
    /\ At(t, "last")
    /\ IF next[cpo[t]] = NULL THEN Stay(t, "append") ELSE MoveTo(t, next[cpo[t]], "last")
    /\ Note({})
    /\ UNCHANGED <<list, boxes, most>>

(* As in Make; cpo -> next has the null before it is followed.              *)
Extend(t) ==
    /\ At(t, "append")
    /\ \/ /\ \E s \in Spot \ spots :
               Allocate(s) /\ next' = [next EXCEPT ![cpo[t]] = s, ![s] = Wild]
          /\ Stay(t, "appendbox") /\ Note({})
       \/ /\ Stay(t, "dead") /\ Note({"nomemory"})
          /\ UNCHANGED <<spots, mailbox, next>>
    /\ UNCHANGED <<central_postoffice, boxes, most>>

AppendBox(t) ==
    /\ At(t, "appendbox")
    /\ mailbox' = [mailbox EXCEPT ![next[cpo[t]]] = found[t]]
    /\ Stay(t, "appendnext") /\ Note({})
    /\ UNCHANGED <<central_postoffice, spots, next, boxes, most>>

AppendNext(t) ==
    /\ At(t, "appendnext")
    /\ next' = [next EXCEPT ![next[cpo[t]]] = NULL]
    /\ Return(t) /\ Note({})
    /\ UNCHANGED <<central_postoffice, spots, mailbox, boxes, most>>

-----------------------------------------------------------------------------
(* net_msg_search_on_handle, and the same walk in net_msg_remove_mailbox.   *)

(* The four functions that take or bring a message are told apart when they *)
(* have found the mailbox.                                                  *)
Lookups == {"use", "remove"}

Search(t, id, o) ==
    /\ At(t, "idle")
    /\ Goto(t, "walk")
    /\ op' = [op EXCEPT ![t] = o]
    /\ meant' = [meant EXCEPT ![t] = id]
    /\ cpo' = [cpo EXCEPT ![t] = central_postoffice]
    /\ there' = [there EXCEPT ![t] = Placed(id) # {}]
    /\ Note({})
    /\ UNCHANGED <<list, boxes, found, most>>

Match(t, s) == mailbox[s] # NULL /\ owner[mailbox[s]] = meant[t]

Arrive(t, b) ==
    /\ Goto(t, IF op[t] = "remove" THEN "delete" ELSE "use")
    /\ found' = [found EXCEPT ![t] = b]
    /\ UNCHANGED <<op, meant, cpo, there>>

\* Mutant of Visit: a mailbox is taken for the owner's without a look at its owner.
VisitAny(t) ==
    /\ At(t, "walk") /\ cpo[t] \in spots
    /\ IF mailbox[cpo[t]] # NULL THEN Arrive(t, mailbox[cpo[t]])
       ELSE MoveTo(t, next[cpo[t]], "walk")
    /\ Note({})
    /\ UNCHANGED <<list, boxes, most>>

\* Mutant of Visit: the walk ends at the first empty place.
VisitUntilEmpty(t) ==
    /\ At(t, "walk") /\ cpo[t] \in spots
    /\ IF Match(t, cpo[t]) THEN Arrive(t, mailbox[cpo[t]])
       ELSE MoveTo(t, IF mailbox[cpo[t]] = NULL THEN NULL ELSE next[cpo[t]], "walk")
    /\ Note({})
    /\ UNCHANGED <<list, boxes, most>>

Visit(t) ==
    /\ At(t, "walk") /\ cpo[t] \in spots
    /\ mailbox[cpo[t]] \in live \cup {NULL}
    /\ IF Match(t, cpo[t]) THEN Arrive(t, mailbox[cpo[t]])
       ELSE MoveTo(t, next[cpo[t]], "walk")
    /\ Note({})
    /\ UNCHANGED <<list, boxes, most>>

(* Without a mailbox for the handle the call ends with nothing done.        *)
Miss(t) ==
    /\ At(t, "walk") /\ cpo[t] = NULL
    /\ Return(t) /\ Note({})
    /\ UNCHANGED <<list, boxes, most>>

-----------------------------------------------------------------------------
(* Messages.                                                                *)

\* the outbox of a mailbox whose deletion hangs (owner_id -1) stays locked
Usable(t) == found[t] \in live /\ owner[found[t]] # NULL

(* Both pushes push to the outbox.                                          *)
Push(t, b) ==
    /\ At(t, "use") /\ Usable(t)
    /\ Len(outbox[found[t]]) < MaxMsgs
    /\ outbox' = [outbox EXCEPT ![found[t]] = Append(@, [to |-> meant[t], into |-> b])]
    /\ Return(t) /\ Note({})
    /\ UNCHANGED <<list, live, owner, most>>

PushToInbox(t)  == Push(t, "inbox")
PushToOutbox(t) == Push(t, "outbox")

Pop(t) ==
    /\ At(t, "use") /\ Usable(t)
    /\ outbox' = [outbox EXCEPT ![found[t]] = IF @ = <<>> THEN <<>> ELSE Tail(@)]
    /\ Return(t) /\ Note({})
    /\ UNCHANGED <<list, live, owner, most>>

(* Nothing ever puts a message in the inbox.                                *)
PopFromInbox(t) ==
    /\ At(t, "use") /\ Usable(t)
    /\ Return(t) /\ Note({})
    /\ UNCHANGED <<list, boxes, most>>

-----------------------------------------------------------------------------
(* net_msg_mailbox_delete sets owner_id to -1 and deletes the queues; with  *)
(* a message in the outbox that never returns.                              *)

Pulls(t, b) == IF \E u \in Thread \ {t} : found[u] = b THEN {"pulled"} ELSE {}

Free(b) ==
    /\ live' = live \ {b}
    /\ owner' = [owner EXCEPT ![b] = NULL]
    /\ UNCHANGED outbox

Hang(t, b) ==
    /\ owner' = [owner EXCEPT ![b] = NULL]
    /\ there' = [u \in Thread |-> there[u] /\ meant[u] # owner[b]]
    /\ Goto(t, "stuck") /\ Note(Pulls(t, b))
    /\ UNCHANGED <<op, meant, found, cpo>>
    /\ UNCHANGED <<list, live, outbox, most>>

RemoveDelete(t) ==
    /\ At(t, "delete") /\ Usable(t) /\ outbox[found[t]] = <<>>
    /\ Free(found[t])
    /\ Stay(t, "unplace") /\ Note(Pulls(t, found[t]))
    /\ UNCHANGED <<list, most>>

RemoveHangs(t) ==
    /\ At(t, "delete") /\ Usable(t) /\ outbox[found[t]] # <<>>
    /\ Hang(t, found[t])

RemoveUnplace(t) ==
    /\ At(t, "unplace")
    /\ mailbox' = [mailbox EXCEPT ![cpo[t]] = NULL]
    /\ Return(t) /\ Note({})
    /\ UNCHANGED <<central_postoffice, spots, next, boxes, most>>

(* net_msg_clean_postoffice: place after place, the first again and again.  *)
(* The inbox of a mailbox whose deletion hangs has been freed already.      *)
CleanStart(t) ==
    /\ At(t, "idle")
    /\ Goto(t, "clean")
    /\ op' = [op EXCEPT ![t] = "clean"]
    /\ Note({})
    /\ UNCHANGED <<list, boxes, meant, found, cpo, there, most>>

CleanDelete(t) ==
    /\ At(t, "clean") /\ central_postoffice # NULL
    /\ LET b == mailbox[central_postoffice]
       IN \/ /\ b = NULL
             /\ Stay(t, "unlink") /\ Note({})
             /\ UNCHANGED <<list, boxes, most>>
          \/ /\ b \in live /\ outbox[b] = <<>>
             /\ Free(b)
             /\ Stay(t, "unlink") /\ Note(Pulls(t, b))
             /\ UNCHANGED <<list, most>>
          \/ /\ b \in live /\ outbox[b] # <<>> /\ owner[b] # NULL
             /\ Hang(t, b)
          \/ /\ b \in live /\ owner[b] = NULL
             /\ Stay(t, "dead") /\ Note({"pulled"})
             /\ UNCHANGED <<list, boxes, most>>

CleanUnlink(t) ==
    /\ At(t, "unlink")
    /\ central_postoffice' = next[central_postoffice]
    /\ spots' = spots \ {central_postoffice}
    /\ Stay(t, "clean") /\ Note({})
    /\ UNCHANGED <<mailbox, next, boxes, most>>

CleanEnd(t) ==
    /\ At(t, "clean") /\ central_postoffice = NULL
    /\ Return(t) /\ Note({})
    /\ UNCHANGED <<list, boxes, most>>

(* The mailbox, or its inbox alone, has been freed since it was found, and  *)
(* is deleted or popped from.  (Of one whose deletion hangs, the outbox is  *)
(* there; those that push to it or pop from it wait for ever.)              *)
UseFreed(t) ==
    /\ Alive
    /\ pc[t] \in {"use", "delete"} /\ ~Usable(t)
    /\ Stay(t, "dead") /\ Note({})
    /\ UNCHANGED <<list, boxes, most>>

-----------------------------------------------------------------------------

(* What becomes of the list after a race is not modelled.                   *)
Next ==
    /\ "raced" \notin misuse
    /\ \E t \in Thread :
        \/ \E id \in Id :
              \/ \E b \in Box : Create(t, id, b)
              \/ \E o \in Lookups : Search(t, id, o)
        \/ First(t) \/ Make(t) \/ MakeBox(t) \/ MakeNext(t)
        \/ Scan(t) \/ Take(t) \/ Last(t) \/ Extend(t) \/ AppendBox(t) \/ AppendNext(t)
        \/ Visit(t) \/ Miss(t)
        \/ PushToInbox(t) \/ PushToOutbox(t) \/ Pop(t) \/ PopFromInbox(t) \/ UseFreed(t)
        \/ RemoveDelete(t) \/ RemoveHangs(t) \/ RemoveUnplace(t)
        \/ CleanStart(t) \/ CleanDelete(t) \/ CleanUnlink(t) \/ CleanEnd(t)

Spec == Init /\ [][Next]_vars

-----------------------------------------------------------------------------

(* Unless a mailbox was removed under a thread that had found it, or twice, *)
(* threads raced or there was no memory for a place, the memory used is     *)
(* that of a mailbox, and every message lies in the mailbox of the owner it *)
(* was pushed for, also when malloc has used the memory of a removed        *)
(* mailbox again.                                                           *)
MessagesAtHome ==
    misuse \subseteq {"twice"} =>
        /\ Alive
        /\ \A b \in live : owner[b] # NULL =>
              \A i \in 1..Len(outbox[b]) : outbox[b][i].to = owner[b]

(* A walk misses no mailbox that has been there since it began, whoever     *)
(* fills an empty place beside it.  (That one is emptied or made beside a   *)
(* walk is a race already.)                                                 *)
FindsWhatIsThere ==
    "raced" \notin misuse =>
        \A t \in Thread : pc[t] = "walk" /\ cpo[t] = NULL => ~there[t]

(* Places are used again: there are never more than there were mailboxes at *)
(* one time, those on their way in and out included.                        *)
PlacesReused == "raced" \notin misuse => Cardinality(spots) <= most

(* Why they hold.  Without a race all places are in one list, only the one  *)
(* that extends it has a place half made, and all know where they are.      *)
Raw(s) == \E t \in Thread : \/ pc[t] = "makebox" /\ s = central_postoffice
                            \/ pc[t] = "appendbox" /\ s = next[cpo[t]]

Endless(s) == \E t \in Thread :
    \/ pc[t] \in {"makebox", "makenext"} /\ s = central_postoffice
    \/ pc[t] \in {"appendbox", "appendnext"} /\ s = next[cpo[t]]

OneList ==
    /\ central_postoffice \in spots \cup {NULL}
    /\ Places = spots
    /\ \A s \in spots :
          /\ next[s] \in spots \cup {NULL} \/ (next[s] = Wild /\ Endless(s))
          /\ next[s] \in spots => next[s] # central_postoffice
          /\ mailbox[s] = Wild => Raw(s)
    /\ \A r, s \in spots : next[r] = next[s] /\ next[r] \in spots => r = s

Cursor(t) ==
    /\ pc[t] = "make" => central_postoffice = NULL
    /\ pc[t] \in {"makebox", "makenext"} =>
          central_postoffice \in spots /\ next[central_postoffice] = Wild
    /\ pc[t] = "makebox" => mailbox[central_postoffice] \in {NULL, Wild}
    /\ pc[t] = "scan" => central_postoffice \in spots /\ cpo[t] \in spots \cup {NULL}
    /\ pc[t] = "take" => cpo[t] \in spots /\ mailbox[cpo[t]] = NULL
    /\ pc[t] = "last" => cpo[t] \in spots
    /\ pc[t] = "append" => cpo[t] \in spots /\ next[cpo[t]] = NULL
    /\ pc[t] \in {"appendbox", "appendnext"} =>
          /\ cpo[t] \in spots /\ next[cpo[t]] \in spots
          /\ next[next[cpo[t]]] = Wild
    /\ pc[t] = "appendbox" => mailbox[next[cpo[t]]] \in {NULL, Wild}
    /\ pc[t] = "walk" => cpo[t] \in spots \cup {NULL}
    /\ pc[t] = "unlink" =>
          central_postoffice \in spots /\ mailbox[central_postoffice] \notin live

Cursors == \A t \in Thread : Cursor(t)

(* A walk has the mailbox it looks for ahead of it, if there was one.       *)
Ahead ==
    \A t \in Thread : pc[t] = "walk" /\ there[t] =>
        \E s \in From(cpo[t]) : mailbox[s] \in live /\ owner[mailbox[s]] = meant[t]

(* Whoever is about to extend the list has seen no place empty.             *)
SeenFull ==
    /\ Cardinality(spots) <= most
    /\ \A t \in Thread :
          /\ pc[t] \in {"first", "make"} => Cardinality(Taken) + 1 <= most
          /\ pc[t] = "scan" => Cardinality(Taken \cup (spots \ From(cpo[t]))) + 1 <= most
          /\ pc[t] \in {"last", "append"} => Cardinality(spots) + 1 <= most

(* Unless a mailbox is pulled from under a thread, what a thread has found  *)
(* is the mailbox of its owner, a mailbox on its way in is empty and known  *)
(* to nobody else, and each has one place.                                  *)
Stale(s) == \E t \in Thread : \/ pc[t] = "unplace" /\ s = cpo[t]
                              \/ pc[t] = "unlink" /\ s = central_postoffice

Filled == {s \in spots : mailbox[s] \in Box /\ ~Stale(s)}

InUse == \A t \in Thread : pc[t] \in {"use", "delete"} =>
             found[t] \in live /\ owner[found[t]] = meant[t]

OnItsWay ==
    \A t \in Thread : pc[t] \in Adding =>
        /\ found[t] \in live /\ owner[found[t]] # NULL /\ outbox[found[t]] = <<>>
        /\ \A u \in Thread \ {t} : found[u] = found[t] => pc[u] \in {"unplace", "stuck"}
        /\ \A s \in Filled : mailbox[s] = found[t] =>
              \/ pc[t] = "makenext" /\ s = central_postoffice
              \/ pc[t] = "appendnext" /\ s = next[cpo[t]]

OnePlaceEach ==
    /\ \A s \in Filled : mailbox[s] \in live
    /\ \A r, s \in Filled : mailbox[r] = mailbox[s] => r = s
    /\ \A t \in Thread : pc[t] \in {"delete", "unplace"} =>
          /\ cpo[t] \in spots /\ mailbox[cpo[t]] = found[t]
          /\ \A u \in Thread \ {t} : pc[u] = "unplace" => cpo[u] # cpo[t]

OneBoxEach ==
    \A b, c \in live : owner[b] = owner[c] /\ owner[b] # NULL => b = c

\* what is known of a call whatever happens
Known ==
    \A t \in Thread :
        /\ pc[t] \in {"walk", "use", "delete"} => meant[t] # NULL
        /\ pc[t] \in Adding \cup {"use", "delete", "unplace"} => found[t] # NULL
        /\ pc[t] \in {"idle"} \cup Reading \cup Cleaning => found[t] = NULL

OfficeInv ==
    /\ TypeOK /\ Known /\ IsFiniteSet(spots)
    /\ "raced" \notin misuse => ~Races /\ OneList /\ Cursors /\ Ahead /\ SeenFull
    /\ misuse \subseteq {"twice"} => InUse /\ OnItsWay /\ OnePlaceEach /\ MessagesAtHome
    /\ misuse = {} => OneBoxEach

(* As long as in addition no two mailboxes had the same owner_id at once,   *)
(* the post office is a directory of queues, one for each owner, step by    *)
(* step: what is pushed for an owner, for either of its boxes, comes out of *)
(* the owner's outbox, once and in order.  It is not the directory that the *)
(* two boxes of a mailbox promise.                                          *)
Letters ==
    [id \in Id |->
        IF Placed(id) = {} THEN NULL ELSE outbox[mailbox[CHOOSE s \in Placed(id) : TRUE]]]

Dir == INSTANCE Directory WITH letters <- Letters

IsDirectory == Dir!DirectoryInit /\ [][misuse' = {} => Dir!DirectoryNext]_Letters
=============================================================================
