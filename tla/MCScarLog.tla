------------------------------ MODULE MCScarLog ------------------------------
(***************************************************************************)
(* Small instances of ScarLog for TLC.                                     *)
(***************************************************************************)
EXTENDS ScarLog, TLC

(* The actions treat all threads, streams and strings alike.                *)
Symmetry == Permutations(Thread) \cup Permutations(Own) \cup Permutations(Str)

(* What two threads that overlap in opening, closing or the indicator leave *)
(* is not explored: every property is silent from there on.                 *)
NoOverlap == "overlap" \notin misuse
=============================================================================
