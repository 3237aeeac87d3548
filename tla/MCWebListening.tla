--------------------------- MODULE MCWebListening ---------------------------
(***************************************************************************)
(* Instances of WebListening for TLC.                                      *)
(***************************************************************************)
EXTENDS WebListening

CONSTANTS alice, bob, t1, t2
=============================================================================
