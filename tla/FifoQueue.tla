------------------------------ MODULE FifoQueue ------------------------------
(***************************************************************************)
(* What the message queue of net_messenger.c promises its callers: the     *)
(* messages come out in the order in which they went in, none is lost,     *)
(* none comes out twice, and a message out of the queue belongs to one     *)
(* thread.                                                                 *)
(***************************************************************************)
EXTENDS Integers, Sequences

CONSTANTS Thread, Msg, NULL

VARIABLES
    queue,    \* the messages on the queue, oldest first
    held      \* the message each thread holds, or NULL

vars == <<queue, held>>

Init == queue = <<>> /\ held = [t \in Thread |-> NULL]

(* A message is made from memory that is neither queued nor held.          *)
Create(t, m) ==
    /\ held[t] = NULL
    /\ \A u \in Thread : held[u] # m
    /\ \A i \in 1..Len(queue) : queue[i] # m
    /\ held' = [held EXCEPT ![t] = m]
    /\ UNCHANGED queue

Put(t) ==
    /\ held[t] # NULL
    /\ queue' = Append(queue, held[t])
    /\ held' = [held EXCEPT ![t] = NULL]

Take(t) ==
    /\ held[t] = NULL
    /\ queue # <<>>
    /\ held' = [held EXCEPT ![t] = Head(queue)]
    /\ queue' = Tail(queue)

Dispose(t) ==
    /\ held[t] # NULL
    /\ held' = [held EXCEPT ![t] = NULL]
    /\ UNCHANGED queue

Next ==
    \E t \in Thread :
        \/ \E m \in Msg : Create(t, m)
        \/ Put(t) \/ Take(t) \/ Dispose(t)

Spec == Init /\ [][Next]_vars
=============================================================================
