------------------------------- MODULE MCDial --------------------------------
(***************************************************************************)
(* Small instances of Dial for TLC.                                        *)
(***************************************************************************)
EXTENDS Dial
=============================================================================
