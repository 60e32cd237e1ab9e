---------------------------- MODULE MCNetThreader ----------------------------
(***************************************************************************)
(* Small instances of NetThreader for TLC.                                 *)
(***************************************************************************)
EXTENDS NetThreader

(* The actions treat all clients and all addresses alike, so that names     *)
(* may be given out in the order of their first use: clients as they        *)
(* connect, nodes as malloc first returns them.  A constraint on names      *)
(* loses no behaviour, and unlike a symmetry it keeps liveness sound.       *)
(* accept() takes the first connection of the listening socket's queue,     *)
(* which with these names is the lowest.                                    *)
InOrder ==
    /\ \A c \in Conn : conn[c] # conn'[c] /\ conn[c] = "idle" =>
          \A d \in Conn : d < c => conn[d] # "idle"
    /\ \A c \in Conn : conn[c] = "queued" /\ conn'[c] # "queued" =>
          \A d \in Conn : d < c => conn[d] # "queued"
    /\ \A n \in allocated' \ allocated :
          \A m \in Node : m < n =>
              m \in allocated \/ \E i \in 1..Len(registered) : registered[i] = m
=============================================================================
