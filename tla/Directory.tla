------------------------------ MODULE Directory ------------------------------
(***************************************************************************)
(* What the post office of net_messenger.c amounts to: for each owner that *)
(* has a mailbox one queue, from which the messages put in it come oldest  *)
(* first.  A message is known by the owner and the box it was pushed for;  *)
(* those for the inbox wait in the queue of the outbox, among the others,  *)
(* and whoever takes from the inbox gets nothing.                          *)
(***************************************************************************)
EXTENDS Sequences

CONSTANTS Id, NULL

VARIABLE letters    \* the messages each owner has waiting, NULL without a mailbox

DirectoryInit == letters = [id \in Id |-> NULL]

Open(id) ==
    /\ letters[id] = NULL
    /\ letters' = [letters EXCEPT ![id] = <<>>]

Put(id, box) ==
    /\ letters[id] # NULL
    /\ letters' = [letters EXCEPT ![id] = Append(@, [to |-> id, into |-> box])]

Take(id) ==
    /\ letters[id] # NULL /\ letters[id] # <<>>
    /\ letters' = [letters EXCEPT ![id] = Tail(@)]

(* One mailbox is closed, or several at once; what was in it is gone.      *)
Close(ids) ==
    letters' = [id \in Id |-> IF id \in ids THEN NULL ELSE letters[id]]

DirectoryNext ==
    \/ \E id \in Id : Open(id) \/ Put(id, "inbox") \/ Put(id, "outbox") \/ Take(id)
    \/ \E ids \in SUBSET Id : Close(ids)
=============================================================================
