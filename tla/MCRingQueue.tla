----------------------------- MODULE MCRingQueue -----------------------------
(***************************************************************************)
(* RingQueue on small rings, with two runs of each section.                *)
(***************************************************************************)
EXTENDS RingQueue

CONSTANTS s1, s2

MCItem == {[id |-> 0, sec |-> s1], [id |-> 1, sec |-> s1],
           [id |-> 2, sec |-> s2], [id |-> 3, sec |-> s2]}
=============================================================================
