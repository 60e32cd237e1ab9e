---------------------------- MODULE MCPostOffice -----------------------------
(* Instances of PostOffice for TLC. *)
EXTENDS PostOffice, TLC

(* The actions treat all threads, owners and addresses alike.               *)
Symmetry ==
    Permutations(Thread) \cup Permutations(Id) \cup Permutations(Box) \cup Permutations(Spot)

(* Two messages are enough to come out in the wrong order; they wait in one *)
(* mailbox, or in two.                                                      *)
FewLetters == \A b, c \in Box : b # c => Len(outbox[b]) + Len(outbox[c]) <= 2
=============================================================================
