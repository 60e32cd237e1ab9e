----------------------------- MODULE MCMsgQueue ------------------------------
(***************************************************************************)
(* Small instances of MsgQueue for TLC.                                    *)
(***************************************************************************)
EXTENDS MsgQueue, FiniteSets

(* Once the list is spoilt it stays so, and each property speaks of what    *)
(* happens until then: of a spoilt queue only the runs of small ones are    *)
(* followed further, to see what it comes to.                               *)
Followed == spoilt = "no" \/ (bare = {} /\ Cardinality(allocated) <= 2)
=============================================================================
