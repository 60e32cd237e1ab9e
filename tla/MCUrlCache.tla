----------------------------- MODULE MCUrlCache ------------------------------
(* Instances of UrlCache for TLC. *)
EXTENDS UrlCache
=============================================================================
