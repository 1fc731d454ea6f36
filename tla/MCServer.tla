------------------------------- MODULE MCServer -------------------------------
(***************************************************************************)
(* A finite instance of Server: one program that waters two sections.      *)
(***************************************************************************)
EXTENDS Server

MCSequence == <<<<1, 2>>>>
=============================================================================
