------------------------------ MODULE MCUpdater ------------------------------
(***************************************************************************)
(* Finite instances of Updater.                                            *)
(***************************************************************************)
EXTENDS Updater

CONSTANTS s1, s2, p1, p2
=============================================================================
