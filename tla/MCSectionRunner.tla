--------------------------- MODULE MCSectionRunner ---------------------------
(***************************************************************************)
(* Finite instances of SectionRunner.                                      *)
(***************************************************************************)
EXTENDS SectionRunner

CONSTANTS s1, s2

\* Two clients' habits: a program's run of s1 and queued runs of either section.
MCRequest ==
  {[sec |-> s1, total |-> 1, async |-> TRUE], [sec |-> s2, total |-> 2, async |-> FALSE]}
OneRequest == {[sec |-> s1, total |-> 1, async |-> TRUE]}
=============================================================================
