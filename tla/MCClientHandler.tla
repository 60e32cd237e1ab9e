--------------------------- MODULE MCClientHandler ---------------------------
(***************************************************************************)
(* Small instances of ClientHandler for TLC, and the mutants its           *)
(* properties are measured against.                                        *)
(***************************************************************************)
EXTENDS ClientHandler
=============================================================================
