------------------------------ MODULE MCGridFs -------------------------------
(* Instances of GridFs for TLC: a directory, two files in it, one of them of its name. *)
EXTENDS GridFs, TLC

CONSTANTS d, g, h

MCUrl    == {Base, Root, d}
MCParent == d :> Root @@ g :> d @@ h :> d
MCName   == d :> "d" @@ g :> "g" @@ h :> "d"
\* bound: what the server has at first
Starts == log[1] \in {{}, {d, h}}

MCDoc    == [of : MCUrl, at : 1..(MaxChanges + 1), whole : BOOLEAN]
=============================================================================
