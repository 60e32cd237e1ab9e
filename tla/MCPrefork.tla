------------------------------ MODULE MCPrefork ------------------------------
(* Instances of Prefork for TLC. *)
EXTENDS Prefork
=============================================================================
