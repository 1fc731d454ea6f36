------------------------------- MODULE MCParser -------------------------------
(***************************************************************************)
(* Finite instances of Parser: 12 is the hour that am and pm treat apart   *)
(* and a year that needs its century, 100 is past both; the week is left   *)
(* on Saturday.                                                            *)
(***************************************************************************)
EXTENDS Parser

MCNumbers == {12, 100}
MCDays    == {1, 6}
=============================================================================
