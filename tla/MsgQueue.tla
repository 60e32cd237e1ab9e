------------------------------ MODULE MsgQueue -------------------------------
(***************************************************************************)
(* The message queue of src/src/network/net_messenger.c: a singly linked   *)
(* list under one mutex, with push, pop, clean and delete as the threads   *)
(* execute them, down to the accesses made without the lock (the peek of   *)
(* pop, the test and the final store of clean).                            *)
(***************************************************************************)
EXTENDS Integers, Sequences

CONSTANTS
    Thread,
    Msg,        \* addresses malloc may return for a net_msg_t
    NULL,
    Wild,       \* a garbage pointer: following it kills the process
    FreshNext,  \* what malloc may leave in the next field, which net_msg_create never sets
    Ops         \* the queue operations the threads call

ASSUME ConstantsAssumption ==
    /\ NULL \notin Msg /\ NULL \notin Thread
    /\ Wild \notin Msg /\ Wild # NULL
    /\ FreshNext \subseteq Msg \cup {NULL, Wild}
    /\ Ops \subseteq {"push", "pop", "clean", "delete"}

VARIABLES
    list, q_lock,       \* the queue: first message, owner of the mutex
    next, allocated,    \* the messages: next fields, live chunks
    bare,               \* the messages whose buffer could not be allocated
    pc,                 \* where each thread is
    op,                 \* the operation a thread is in ("none" between calls)
    mine,               \* the message a thread holds: created, popped or being pushed
    local,              \* its pointer into the list: popped or helper
    contents,           \* history: the messages queued, oldest first
    spoilt              \* history: what, if anything, broke the list

qvars == <<list, q_lock, next, allocated, bare, pc, op, mine, local, contents, spoilt>>

\* the points between q_lock's lock and unlock of one call of pop or push
Inside == {"take", "unlink", "popunlock", "attach", "walk", "pushunlock"}

-----------------------------------------------------------------------------

ValuesOK ==
    /\ list \in Msg \cup {NULL, Wild}
    /\ q_lock \in Thread \cup {NULL}
    /\ next \in [Msg -> Msg \cup {NULL, Wild}]
    /\ allocated \subseteq Msg
    /\ bare \subseteq Msg
    /\ pc \in [Thread -> Inside \cup {"idle", "peek", "poplock", "dispose", "pushlock",
                                      "cleancheck", "wipe", "dellock", "delunlock",
                                      "deleted", "crashed"}]
    /\ op \in [Thread -> {"none", "push", "pop", "clean", "delete"}]
    /\ mine \in [Thread -> Msg \cup {NULL}]
    /\ local \in [Thread -> Msg \cup {NULL, Wild}]
    /\ contents \in Seq(Msg)
    /\ spoilt \in {"no", "wiped", "dirty"}

(* Which points of the code have a message in hand, and which have none.   *)
HeldOK ==
    \A t \in Thread :
        /\ pc[t] \in {"pushlock", "attach", "walk", "dispose"} => mine[t] # NULL
        /\ pc[t] \in {"peek", "poplock", "take", "unlink", "wipe", "cleancheck", "dellock"} =>
              mine[t] = NULL

TypeOK == ValuesOK /\ HeldOK

(* net_msg_queue_create, before the threads are given the queue.           *)
Init ==
    /\ list = NULL
    /\ q_lock = NULL
    /\ next = [m \in Msg |-> NULL]
    /\ allocated = {}
    /\ bare = {}
    /\ pc = [t \in Thread |-> "idle"]
    /\ op = [t \in Thread |-> "none"]
    /\ mine = [t \in Thread |-> NULL]
    /\ local = [t \in Thread |-> NULL]
    /\ contents = <<>>
    /\ spoilt = "no"

(* The process is alive and thread t is at p.                              *)
At(t, p) == pc[t] = p /\ \A u \in Thread : pc[u] # "crashed"

Goto(t, p) == pc' = [pc EXCEPT ![t] = p]

(* Back to the caller: the pointers of the call are gone.                  *)
Return(t) ==
    /\ Goto(t, "idle")
    /\ op' = [op EXCEPT ![t] = "none"]
    /\ local' = [local EXCEPT ![t] = NULL]

Lock(t) == q_lock = NULL /\ q_lock' = t

Unlock == q_lock' = NULL

-----------------------------------------------------------------------------
(* Messages.                                                               *)

(* The buffer is made last, and its allocation may fail: msg -> msg is null *)
(* then, and the message is handed out all the same.                        *)
Create(t, m) ==
    /\ At(t, "idle") /\ mine[t] = NULL
    /\ m \notin allocated
    /\ allocated' = allocated \cup {m}
    /\ bare' \in {bare \ {m}, bare \cup {m}}
    /\ \E word \in FreshNext : next' = [next EXCEPT ![m] = word]
    /\ mine' = [mine EXCEPT ![t] = m]
    /\ UNCHANGED <<list, q_lock, pc, op, local, contents, spoilt>>

(* net_msg_delete_msg of the message the thread holds, by the caller or by *)
(* the loop of net_msg_queue_clean.  Only the holder has the message's own *)
(* lock, so that lock never blocks.                                        *)
Dispose(t) ==
    /\ \/ At(t, "idle") /\ UNCHANGED pc
       \/ At(t, "dispose") /\ Goto(t, "peek")
    /\ mine[t] # NULL /\ mine[t] \notin bare
    /\ allocated' = allocated \ {mine[t]}
    /\ mine' = [mine EXCEPT ![t] = NULL]
    /\ UNCHANGED <<list, q_lock, next, bare, op, local, contents, spoilt>>

(* The same for a message without a buffer: free_buffer_state follows its   *)
(* null pointer.                                                            *)
DisposeBare(t) ==
    /\ At(t, "idle") \/ At(t, "dispose")
    /\ mine[t] \in bare
    /\ Goto(t, "crashed")
    /\ UNCHANGED <<list, q_lock, next, allocated, bare, op, mine, local, contents,
                   spoilt>>

-----------------------------------------------------------------------------
(* Calls.  The thread that deletes the queue is its last user: nobody else *)
(* is in a call and nobody calls again.                                    *)

InUse == \A u \in Thread : op[u] # "delete"

CallPush(t) ==
    /\ "push" \in Ops /\ InUse
    /\ At(t, "idle") /\ mine[t] # NULL
    /\ Goto(t, "pushlock")
    /\ op' = [op EXCEPT ![t] = "push"]
    /\ UNCHANGED <<list, q_lock, next, allocated, bare, mine, local, contents, spoilt>>

Entry(o) == [pop |-> "peek", clean |-> "cleancheck", delete |-> "dellock"][o]

Call(t, o) ==
    /\ o \in Ops /\ InUse
    /\ At(t, "idle") /\ mine[t] = NULL
    /\ o = "delete" => \A u \in Thread : pc[u] = "idle"
    /\ Goto(t, Entry(o))
    /\ op' = [op EXCEPT ![t] = o]
    /\ UNCHANGED <<list, q_lock, next, allocated, bare, mine, local, contents, spoilt>>

-----------------------------------------------------------------------------
(* net_msg_pop_from_queue.                                                 *)

(* "if (q && q -> list)", read without the lock.                           *)
PopPeek(t) ==
    /\ At(t, "peek")
    /\ IF list # NULL
       THEN Goto(t, "poplock") /\ UNCHANGED <<op, local>>
       ELSE IF op[t] = "pop" THEN Return(t) ELSE Goto(t, "wipe") /\ UNCHANGED <<op, local>>
    /\ UNCHANGED <<list, q_lock, next, allocated, bare, mine, contents, spoilt>>

(* Mutant of PopLock: pop does not take the mutex.                          *)
PopWithoutLock(t) ==
    /\ At(t, "poplock")
    /\ Goto(t, "take")
    /\ UNCHANGED <<list, q_lock, next, allocated, bare, op, mine, local, contents, spoilt>>

PopLock(t) ==
    /\ At(t, "poplock")
    /\ Lock(t)
    /\ Goto(t, "take")
    /\ UNCHANGED <<list, next, allocated, bare, op, mine, local, contents, spoilt>>

(* Mutant of PopTake: the list is not tested again under the mutex.         *)
PopTakeUntested(t) ==
    /\ At(t, "take")
    /\ local' = [local EXCEPT ![t] = list]
    /\ Goto(t, "unlink")
    /\ UNCHANGED <<list, q_lock, next, allocated, bare, op, mine, contents, spoilt>>

(* "if (q -> list) popped = q -> list"                                     *)
PopTake(t) ==
    /\ At(t, "take")
    /\ local' = [local EXCEPT ![t] = list]
    /\ Goto(t, IF list = NULL THEN "popunlock" ELSE "unlink")
    /\ UNCHANGED <<list, q_lock, next, allocated, bare, op, mine, contents, spoilt>>

(* "q -> list = q -> list -> next; popped -> next = NULL".  A garbage      *)
(* pointer kills the process here; so does a list that clean set to null   *)
(* since the test, unless the compiler kept the pointer it had read.       *)
PopUnlink(t) ==
    /\ At(t, "unlink")
    /\ \/ /\ local[t] \in Msg
          /\ list' = next[local[t]]
          /\ next' = [next EXCEPT ![local[t]] = NULL]
          /\ mine' = [mine EXCEPT ![t] = local[t]]
          /\ contents' = IF contents = <<>> THEN <<>> ELSE Tail(contents)
          /\ Goto(t, "popunlock")
       \/ /\ local[t] = Wild \/ list = NULL
          /\ Goto(t, "crashed")
          /\ UNCHANGED <<list, next, mine, contents>>
    /\ UNCHANGED <<q_lock, allocated, bare, op, local, spoilt>>

PopUnlock(t) ==
    /\ At(t, "popunlock")
    /\ Unlock
    /\ IF op[t] = "pop"
       THEN Return(t)
       ELSE /\ Goto(t, IF mine[t] = NULL THEN "wipe" ELSE "dispose")
            /\ local' = [local EXCEPT ![t] = NULL] /\ UNCHANGED op
    /\ UNCHANGED <<list, next, allocated, bare, mine, contents, spoilt>>

-----------------------------------------------------------------------------
(* net_msg_push_to_queue.                                                  *)

PushLock(t) ==
    /\ At(t, "pushlock")
    /\ Lock(t)
    /\ Goto(t, "attach")
    /\ UNCHANGED <<list, next, allocated, bare, op, mine, local, contents, spoilt>>

(* An empty queue: the message becomes the list, whatever its next field   *)
(* holds.                                                                  *)
PushFirst(t) ==
    /\ At(t, "attach") /\ list = NULL
    /\ list' = mine[t]
    /\ contents' = Append(contents, mine[t])
    /\ spoilt' = IF spoilt = "no" /\ next[mine[t]] # NULL THEN "dirty" ELSE spoilt
    /\ mine' = [mine EXCEPT ![t] = NULL]
    /\ Goto(t, "pushunlock")
    /\ UNCHANGED <<q_lock, next, allocated, bare, op, local>>

PushStart(t) ==
    /\ At(t, "attach") /\ list # NULL
    /\ local' = [local EXCEPT ![t] = list]
    /\ Goto(t, "walk")
    /\ UNCHANGED <<list, q_lock, next, allocated, bare, op, mine, contents, spoilt>>

PushWalk(t) ==
    /\ At(t, "walk")
    /\ \/ /\ local[t] \in Msg /\ next[local[t]] # NULL
          /\ local' = [local EXCEPT ![t] = next[local[t]]]
          /\ UNCHANGED pc
       \/ /\ local[t] = Wild
          /\ Goto(t, "crashed")
          /\ UNCHANGED local
    /\ UNCHANGED <<list, q_lock, next, allocated, bare, op, mine, contents, spoilt>>

(* Mutants of PushAttach: the new last message keeps its next field; the    *)
(* new message is put in front.                                             *)
PushAttachOpenEnd(t) ==
    /\ At(t, "walk")
    /\ local[t] \in Msg /\ next[local[t]] = NULL
    /\ next' = [next EXCEPT ![local[t]] = mine[t]]
    /\ contents' = Append(contents, mine[t])
    /\ mine' = [mine EXCEPT ![t] = NULL]
    /\ Goto(t, "pushunlock")
    /\ UNCHANGED <<list, q_lock, allocated, bare, op, local, spoilt>>

PushInFront(t) ==
    /\ At(t, "walk")
    /\ local[t] \in Msg /\ next[local[t]] = NULL
    /\ next' = [next EXCEPT ![mine[t]] = list]
    /\ list' = mine[t]
    /\ contents' = Append(contents, mine[t])
    /\ mine' = [mine EXCEPT ![t] = NULL]
    /\ Goto(t, "pushunlock")
    /\ UNCHANGED <<q_lock, allocated, bare, op, local, spoilt>>

PushAttach(t) ==
    /\ At(t, "walk")
    /\ local[t] \in Msg /\ next[local[t]] = NULL
    /\ next' = [next EXCEPT ![local[t]] = mine[t], ![mine[t]] = NULL]
    /\ contents' = Append(contents, mine[t])
    /\ mine' = [mine EXCEPT ![t] = NULL]
    /\ Goto(t, "pushunlock")
    /\ UNCHANGED <<list, q_lock, allocated, bare, op, local, spoilt>>

(* Mutant of PushUnlock: an early return that leaves the mutex locked.      *)
PushReturnLocked(t) ==
    /\ At(t, "pushunlock")
    /\ Return(t)
    /\ UNCHANGED <<list, q_lock, next, allocated, bare, mine, contents, spoilt>>

PushUnlock(t) ==
    /\ At(t, "pushunlock")
    /\ Unlock
    /\ Return(t)
    /\ UNCHANGED <<list, next, allocated, bare, mine, contents, spoilt>>

-----------------------------------------------------------------------------
(* net_msg_queue_clean and net_msg_queue_delete.                           *)

(* The end of clean, for its caller and inside delete.                     *)
Cleaned(t) ==
    IF op[t] = "clean" THEN Return(t) ELSE Goto(t, "delunlock") /\ UNCHANGED <<op, local>>

CleanCheck(t) ==
    /\ At(t, "cleancheck")
    /\ IF list = NULL THEN Cleaned(t) ELSE Goto(t, "peek") /\ UNCHANGED <<op, local>>
    /\ UNCHANGED <<list, q_lock, next, allocated, bare, mine, contents, spoilt>>

(* "q -> list = NULL" without the lock, after a pop that found nothing.    *)
CleanWipe(t) ==
    /\ At(t, "wipe")
    /\ list' = NULL
    /\ spoilt' = IF spoilt = "no" /\ contents # <<>> THEN "wiped" ELSE spoilt
    /\ Cleaned(t)
    /\ UNCHANGED <<q_lock, next, allocated, bare, mine, contents>>

DeleteLock(t) ==
    /\ At(t, "dellock")
    /\ Lock(t)
    /\ Goto(t, "cleancheck")
    /\ UNCHANGED <<list, next, allocated, bare, op, mine, local, contents, spoilt>>

(* Unlock, destroy and free the queue.                                     *)
DeleteFree(t) ==
    /\ At(t, "delunlock")
    /\ Unlock
    /\ Goto(t, "deleted")
    /\ UNCHANGED <<list, next, allocated, bare, op, mine, local, contents, spoilt>>

-----------------------------------------------------------------------------

(* What a thread does by itself once it has made a call.                   *)
Step(t) ==
    \/ PopPeek(t) \/ PopLock(t) \/ PopTake(t) \/ PopUnlink(t) \/ PopUnlock(t)
    \/ PushLock(t) \/ PushFirst(t) \/ PushStart(t) \/ PushWalk(t) \/ PushAttach(t)
    \/ PushUnlock(t)
    \/ CleanCheck(t) \/ CleanWipe(t) \/ DeleteLock(t) \/ DeleteFree(t)
    \/ op[t] # "none" /\ (Dispose(t) \/ DisposeBare(t))

Next ==
    \E t \in Thread :
        \/ \E m \in Msg : Create(t, m)
        \/ Dispose(t) \/ DisposeBare(t)
        \/ CallPush(t)
        \/ \E o \in {"pop", "clean", "delete"} : Call(t, o)
        \/ Step(t)

Spec == Init /\ [][Next]_qvars

(* A thread in a call is scheduled until it returns or blocks.             *)
FairSpec == Spec /\ \A t \in Thread : WF_qvars(Step(t))

-----------------------------------------------------------------------------
(* Safety.  "spoilt" names the two ways the code breaks its own list; the  *)
(* invariants say what holds until then.                                   *)

Queued(m) == \E i \in 1..Len(contents) : contents[i] = m

(* From list, the next fields lead through the messages that were put and  *)
(* not yet taken, oldest first, each of them once, and end in null.        *)
Represents ==
    spoilt = "no" =>
        /\ list = IF contents = <<>> THEN NULL ELSE contents[1]
        /\ \A i \in 1..Len(contents) :
              next[contents[i]] = IF i = Len(contents) THEN NULL ELSE contents[i + 1]
        /\ \A i, j \in 1..Len(contents) : contents[i] = contents[j] => i = j

(* A message is on the queue or in the hands of one thread, never both,    *)
(* and its memory is live: what pop hands out may be freed.                *)
Ownership ==
    spoilt = "no" =>
        /\ \A t \in Thread : mine[t] # NULL =>
              /\ mine[t] \in allocated /\ ~Queued(mine[t])
              /\ \A u \in Thread : mine[u] = mine[t] => u = t
        /\ \A m \in Msg : Queued(m) => m \in allocated

(* As long as its list is in order the queue follows no bad pointer: all    *)
(* that can end the process is the deletion of a message that never got its *)
(* buffer.                                                                  *)
CrashNeedsBareMessage ==
    spoilt = "no" => \A t \in Thread : pc[t] = "crashed" => mine[t] \in bare

-----------------------------------------------------------------------------
(* Why they hold.                                                          *)

(* Only the owner of q_lock is between its lock and unlock; delete keeps   *)
(* it throughout and so never gets past the lock of pop.                   *)
MutexInv ==
    \A t \in Thread :
        /\ pc[t] \in Inside => q_lock = t
        /\ op[t] = "delete" =>
              /\ pc[t] \in {"dellock", "cleancheck", "peek", "poplock", "wipe",
                            "delunlock", "deleted"}
              /\ pc[t] \notin {"dellock", "deleted"} => q_lock = t
        /\ pc[t] \in {"dellock", "delunlock"} => op[t] = "delete"
        /\ pc[t] \in {"cleancheck", "wipe", "dispose"} => op[t] \in {"clean", "delete"}
        /\ pc[t] \in {"peek", "poplock", "take", "unlink", "popunlock"} =>
              op[t] \in {"pop", "clean", "delete"}

(* Where a thread's own pointer into the list points.                      *)
LocalInv ==
    spoilt = "no" =>
        \A t \in Thread :
            /\ pc[t] = "unlink" => contents # <<>> /\ local[t] = contents[1]
            /\ pc[t] = "walk" => Queued(local[t])

ListInv == MutexInv /\ LocalInv /\ Represents /\ Ownership /\ CrashNeedsBareMessage

-----------------------------------------------------------------------------
(* The abstract queue: the messages put and not yet taken, and who holds   *)
(* the others.                                                             *)
Fifo == INSTANCE FifoQueue WITH queue <- contents, held <- mine

(* All four operations, step by step, implement the abstract queue until   *)
(* one of them spoils the list: a message put in comes out once, in its    *)
(* turn, to one thread, or is put away by its holder.                      *)
FifoUntilSpoilt == Fifo!Init /\ [][spoilt' = "no" => Fifo!Next]_(Fifo!vars)

-----------------------------------------------------------------------------
(* Liveness.                                                               *)

(* The mutex is always given back: as long as the list is in order and the *)
(* process lives, no operation blocks or loops while it holds it, but for  *)
(* the pop inside delete, which waits for the mutex its own thread holds.  *)
LockReleased ==
    \A t \in Thread :
        q_lock = t ~>
            \/ q_lock # t \/ spoilt # "no" \/ pc[t] = "poplock"
            \/ \E u \in Thread : pc[u] = "crashed"

-----------------------------------------------------------------------------
(* What the code says of itself, and does not keep.                        *)

(* net_messenger.c:204 "Clean all messages from the queue": a call of      *)
(* net_msg_queue_delete cleans the queue and returns, if the process lives.*)
DeleteEnds ==
    \A t \in Thread :
        op[t] = "delete" ~> pc[t] = "deleted" \/ \E u \in Thread : pc[u] = "crashed"
=============================================================================
